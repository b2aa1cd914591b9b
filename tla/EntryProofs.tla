---------------------------- MODULE EntryProofs ----------------------------
(***************************************************************************)
(* Entry's invariants, and those of the loops it runs.                     *)
(*                                                                         *)
(* simplify_debts settles everybody, for any balances that sum to zero:    *)
(* what is paid plus what is left is what was owed, at every iteration,    *)
(* and nothing is left when one of the two lists is empty.                 *)
(*                                                                         *)
(* An expense is divided to the cent: after i iterations the shares are    *)
(* the ones rounded down, with a cent more for the first i in the order of *)
(* the remainders, and less is left over than there are remainders.  What  *)
(* is refused was not valid, and what is reopened and saved is the same.   *)
(***************************************************************************)
EXTENDS Entry, LedgerTheorems, SequenceTheorems

-----------------------------------------------------------------------------
(* Orders, as relations. *)

OrderOn(R, P) ==
    \A a, b \in P :
        /\ <<a, b>> \in R \/ <<b, a>> \in R
        /\ <<a, b>> \in R /\ <<b, a>> \in R => a = b
        /\ \A c \in P : <<a, b>> \in R /\ <<b, c>> \in R => <<a, c>> \in R

InOrderOf(R, P) ==
    [n \in 1..Cardinality(P) |-> CHOOSE a \in P : Cardinality({b \in P : <<b, a>> \in R}) = n]

(* s has every element of P once.                                          *)
Lists(s, P) ==
    /\ s \in [1..Cardinality(P) -> P]
    /\ \A a \in P : \E n \in 1..Cardinality(P) : s[n] = a
    /\ \A m, n \in 1..Cardinality(P) : s[m] = s[n] => m = n

(* A finite set in order has every element once, the smaller ones first.   *)
LEMMA OrderLists ==
  ASSUME NEW P, IsFiniteSet(P), NEW R, OrderOn(R, P), NEW s, s = InOrderOf(R, P)
  PROVE  /\ Lists(s, P)
         /\ \A m, n \in 1..Cardinality(P) : m < n => <<s[m], s[n]>> \in R
<1> DEFINE Before(a) == {b \in P : <<b, a>> \in R}
           N == 1..Cardinality(P)
           place == [a \in P |-> Cardinality(Before(a))]
<1>1. Cardinality(P) \in Nat
  BY FS_CardinalityType
<1>2. ASSUME NEW a \in P PROVE IsFiniteSet(Before(a)) /\ Cardinality(Before(a)) \in N
  <2>1. IsFiniteSet(Before(a)) /\ Cardinality(Before(a)) <= Cardinality(P)
    BY <1>1, FS_Subset
  <2>2. a \in Before(a)
    BY DEF OrderOn
  <2>3. Cardinality(Before(a)) \in Nat /\ Cardinality(Before(a)) # 0
    BY <2>1, <2>2, FS_CardinalityType, FS_EmptySet
  <2> QED
    BY <1>1, <2>1, <2>3
<1>3. ASSUME NEW a \in P, NEW b \in P, <<a, b>> \in R, a # b PROVE place[a] < place[b]
  <2>1. Before(a) \subseteq Before(b) /\ b \notin Before(a) /\ b \in Before(b)
    BY <1>3 DEF OrderOn
  <2>2. /\ Cardinality(Before(a)) <= Cardinality(Before(b))
        /\ Cardinality(Before(a)) # Cardinality(Before(b))
    <3> HIDE DEF Before
    <3> QED
      BY <1>2, <2>1, FS_Subset
  <2> QED
    BY <1>2, <2>2
<1>4. \A a, b \in P : place[a] = place[b] => a = b
  <2> SUFFICES ASSUME NEW a \in P, NEW b \in P, place[a] = place[b], a # b PROVE FALSE
    OBVIOUS
  <2>1. place[a] \in Nat /\ place[b] \in Nat
    BY <1>2
  <2>2. <<a, b>> \in R \/ <<b, a>> \in R
    BY DEF OrderOn
  <2>3. place[a] < place[b] \/ place[b] < place[a]
    BY <1>3, <2>2
  <2> HIDE DEF place
  <2> QED
    BY <2>1, <2>3
<1>5. place \in Injection(P, N)
  BY <1>2, <1>4 DEF Injection, IsInjective
<1>6. \A n \in N : \E a \in P : place[a] = n
  <2>1. IsFiniteSet(N) /\ Cardinality(N) = Cardinality(P)
    BY <1>1, FS_Interval
  <2> HIDE DEF place, N
  <2>2. place \in Surjection(P, N)
    BY <1>5, <2>1, FS_Injection
  <2> QED
    BY <2>2 DEF Surjection
<1>7. \A n \in N : s[n] \in P /\ place[s[n]] = n
  <2>1. s = [n \in N |-> CHOOSE a \in P : Cardinality(Before(a)) = n]
    BY DEF InOrderOf
  <2>2. \A a \in P : place[a] = Cardinality(Before(a))
    OBVIOUS
  <2> HIDE DEF place, N, Before
  <2> QED
    BY <1>6, <2>1, <2>2
<1>8. \A a \in P : place[a] \in N
  BY <1>2
<1>9. DOMAIN s = N /\ s = [n \in N |-> s[n]]
  <2> DEFINE at(n) == CHOOSE a \in P : Cardinality(Before(a)) = n
  <2>1. s = [n \in N |-> at(n)]
    BY DEF InOrderOf
  <2> HIDE DEF at, N, place
  <2> QED
    BY <2>1
<1>10. ASSUME NEW m \in N, NEW n \in N, m < n PROVE <<s[m], s[n]>> \in R
  <2>1. s[m] \in P /\ s[n] \in P /\ place[s[m]] = m /\ place[s[n]] = n
    BY <1>7
  <2>2. s[n] # s[m]
    BY <1>10, <2>1
  <2>3. <<s[n], s[m]>> \in R => n < m
    BY <1>3, <2>1, <2>2
  <2>4. m \in Nat /\ n \in Nat
    BY <1>1
  <2>5. <<s[n], s[m]>> \notin R
    BY <1>10, <2>3, <2>4
  <2> QED
    BY <2>1, <2>5 DEF OrderOn
<1> HIDE DEF place, N
<1>11. s \in [N -> P]
  BY <1>7, <1>9
<1>12. \A a \in P : \E n \in N : s[n] = a
  BY <1>4, <1>7, <1>8
<1>13. \A m, n \in N : s[m] = s[n] => m = n
  BY <1>7
<1> QED
  BY <1>10, <1>11, <1>12, <1>13 DEF N, Lists

(* P has an order: ByAmountDesc.                                           *)
Sortable(P) ==
    /\ IsFiniteSet(P)
    /\ \A a, b \in P :
        /\ ByAmountDesc(a, b) \/ ByAmountDesc(b, a)
        /\ ByAmountDesc(a, b) /\ ByAmountDesc(b, a) => a = b
        /\ \A c \in P : ByAmountDesc(a, b) /\ ByAmountDesc(b, c) => ByAmountDesc(a, c)

(* Sorted lists every party once.                                          *)
LEMMA SortedListsAll ==
  ASSUME NEW P, Sortable(P)
  PROVE  Lists(Sorted(P), P)
<1> DEFINE R == {p \in P \X P : ByAmountDesc(p[1], p[2])}
<1>1. \A a, b \in P : <<a, b>> \in R <=> ByAmountDesc(a, b)
  OBVIOUS
<1>2. \A a \in P : {b \in P : <<b, a>> \in R} = {b \in P : ByAmountDesc(b, a)}
  BY <1>1
<1> HIDE DEF R
<1>3. Sorted(P) = InOrderOf(R, P)
  <2>1. \A n : (CHOOSE a \in P : Cardinality({b \in P : ByAmountDesc(b, a)}) = n)
                  = (CHOOSE a \in P : Cardinality({b \in P : <<b, a>> \in R}) = n)
    BY <1>2
  <2>2. Sorted(P) = [n \in 1..Cardinality(P) |->
                        CHOOSE a \in P : Cardinality({b \in P : ByAmountDesc(b, a)}) = n]
    BY DEF Sorted, InOrder
  <2> QED
    BY <2>1, <2>2 DEF InOrderOf
<1>4. OrderOn(R, P)
  BY <1>1 DEF OrderOn, Sortable
<1> QED
  BY <1>3, <1>4, OrderLists DEF Sortable

(* The ids of finitely many users, in order.                               *)
LEMMA IdsInOrder ==
  ASSUME NEW U, IsFiniteSet(U), Ordered(U)
  PROVE  Lists(InIdOrder(U), U)
<1> DEFINE R == {p \in U \X U : UserLeq(p[1], p[2])}
<1>1. \A a, b \in U : <<a, b>> \in R <=> UserLeq(a, b)
  OBVIOUS
<1>2. \A a \in U : {b \in U : <<b, a>> \in R} = {b \in U : UserLeq(b, a)}
  BY <1>1
<1> HIDE DEF R
<1>3. InIdOrder(U) = InOrderOf(R, U)
  <2>1. \A n : (CHOOSE a \in U : Cardinality({b \in U : UserLeq(b, a)}) = n)
                  = (CHOOSE a \in U : Cardinality({b \in U : <<b, a>> \in R}) = n)
    BY <1>2
  <2>2. InIdOrder(U) = [n \in 1..Cardinality(U) |->
                           CHOOSE a \in U : Cardinality({b \in U : UserLeq(b, a)}) = n]
    BY DEF InIdOrder, InOrder
  <2> QED
    BY <2>1, <2>2 DEF InOrderOf
<1>4. OrderOn(R, U)
  BY <1>1 DEF OrderOn, Ordered
<1> QED
  BY <1>3, <1>4, OrderLists

-----------------------------------------------------------------------------
(* Lists of parties: everybody once, with something left.                  *)

Listed(s, users) ==
    /\ s \in Seq(users \X {n \in Int : n > 0})
    /\ \A i, j \in DOMAIN s : s[i][1] = s[j][1] => i = j

LeftOf(s, u) ==
    IF \E i \in DOMAIN s : s[i][1] = u
    THEN s[CHOOSE i \in DOMAIN s : s[i][1] = u][2]
    ELSE 0

(* A list has finitely many users.                                         *)
LEMMA ListIsFinite ==
  ASSUME NEW users, NEW s, Listed(s, users)
  PROVE  Len(s) \in Nat /\ (Len(s) = 0 <=> s = <<>>)
<1> DEFINE A == users \X {n \in Int : n > 0}
<1>1. s \in Seq(A)
  BY DEF Listed
<1> HIDE DEF A
<1> QED
  BY <1>1

(* What is left of a listed user is their amount,                          *)
LEMMA LeftIs ==
  ASSUME NEW users, NEW s, Listed(s, users)
  PROVE  /\ \A i \in DOMAIN s : /\ LeftOf(s, s[i][1]) = s[i][2]
                               /\ s[i][1] \in users /\ s[i][2] \in Int /\ s[i][2] > 0
         /\ \A u : (\A i \in DOMAIN s : s[i][1] # u) => LeftOf(s, u) = 0
         /\ \A u : LeftOf(s, u) \in Int /\ LeftOf(s, u) >= 0
<1>1. ASSUME NEW i \in DOMAIN s
      PROVE  s[i][1] \in users /\ s[i][2] \in Int /\ s[i][2] > 0
  BY DEF Listed
<1>2. ASSUME NEW i \in DOMAIN s PROVE LeftOf(s, s[i][1]) = s[i][2]
  <2> DEFINE j == CHOOSE k \in DOMAIN s : s[k][1] = s[i][1]
  <2>1. j \in DOMAIN s /\ s[j][1] = s[i][1]
    OBVIOUS
  <2>2. j = i
    BY <2>1 DEF Listed
  <2> QED
    BY <2>2 DEF LeftOf
<1>3. ASSUME NEW u, \A i \in DOMAIN s : s[i][1] # u PROVE LeftOf(s, u) = 0
  BY <1>3 DEF LeftOf
<1>4. ASSUME NEW u PROVE LeftOf(s, u) \in Int /\ LeftOf(s, u) >= 0
  BY <1>1, <1>2, <1>3
<1> QED
  BY <1>1, <1>2, <1>3, <1>4

Absent(s, u) == \A i \in DOMAIN s : s[i][1] # u

(* and of any other it is nothing.                                         *)
LEMMA NothingLeft == ASSUME NEW s, NEW u, Absent(s, u) PROVE LeftOf(s, u) = 0
BY DEF Absent, LeftOf

(* Payment reduces what is left of the first party by what is paid.        *)
LEMMA ReduceIs ==
  ASSUME NEW users, NEW s, Listed(s, users), s # <<>>,
         NEW pay \in Int, pay > 0, pay <= Head(s)[2]
  PROVE  /\ Listed(Reduce(s, pay), users)
         /\ \A u : LeftOf(Reduce(s, pay), u)
                      = LeftOf(s, u) - (IF u = Head(s)[1] THEN pay ELSE 0)
         /\ Len(Reduce(s, pay)) = IF Head(s)[2] = pay THEN Len(s) - 1 ELSE Len(s)
<1> DEFINE r == Reduce(s, pay)
           Pairs == users \X {n \in Int : n > 0}
<1>1. s \in Seq(Pairs) /\ Len(s) \in Nat /\ Len(s) > 0 /\ DOMAIN s = 1..Len(s) /\ Head(s) = s[1]
  BY DEF Listed
<1>2. /\ \A i \in 1..Len(s) : s[i] \in Pairs
      /\ \A i, j \in 1..Len(s) : s[i][1] = s[j][1] => i = j
  <2>1. \A i, j \in DOMAIN s : s[i][1] = s[j][1] => i = j
    BY DEF Listed
  <2> HIDE DEF Pairs
  <2>2. \A i \in 1..Len(s) : s[i] \in Pairs
    BY <1>1
  <2> QED
    BY <1>1, <2>1, <2>2
<1>3. CASE Head(s)[2] = pay
  <2>1. r = Tail(s) /\ r \in Seq(Pairs) /\ Len(r) = Len(s) - 1 /\ DOMAIN r = 1..(Len(s) - 1)
    BY <1>1, <1>3 DEF Reduce
  <2>2. \A i \in 1..(Len(s) - 1) : r[i] = s[i + 1]
    BY <1>1, <2>1
  <2>3. Listed(r, users)
    <3>1. \A i, j \in DOMAIN r : r[i][1] = r[j][1] => i = j
      <4> SUFFICES ASSUME NEW i \in DOMAIN r, NEW j \in DOMAIN r, r[i][1] = r[j][1] PROVE i = j
        OBVIOUS
      <4>1. /\ i \in 1..(Len(s) - 1) /\ j \in 1..(Len(s) - 1)
            /\ i \in Int /\ j \in Int /\ i + 1 \in 1..Len(s) /\ j + 1 \in 1..Len(s)
        <5>1. i \in 1..(Len(s) - 1) /\ j \in 1..(Len(s) - 1)
          BY <2>1
        <5> QED
          BY <1>1, <5>1
      <4>3. r[i] = s[i + 1] /\ r[j] = s[j + 1]
        BY <2>2, <4>1
      <4>2. i + 1 = j + 1
        BY <1>2, <4>1, <4>3
      <4> QED
        BY <4>1, <4>2
    <3> QED
      BY <2>1, <3>1 DEF Listed
  <2>4. ASSUME NEW u PROVE LeftOf(r, u) = LeftOf(s, u) - (IF u = Head(s)[1] THEN pay ELSE 0)
    <3>1. CASE u = s[1][1]
      <4>1. \A i \in DOMAIN r : r[i][1] # u
        <5> SUFFICES ASSUME NEW i \in DOMAIN r, r[i][1] = s[1][1] PROVE FALSE
          BY <3>1
        <5>1. i \in 1..(Len(s) - 1) /\ r[i] = s[i + 1] /\ i + 1 \in 1..Len(s) /\ 1 \in 1..Len(s)
          BY <1>1, <2>1, <2>2
        <5>2. i + 1 = 1
          BY <1>2, <5>1
        <5> QED
          BY <5>1, <5>2
      <4> QED
        BY <1>1, <1>3, <2>3, <3>1, <4>1, LeftIs
    <3>2. CASE u # s[1][1] /\ \E i \in DOMAIN s : s[i][1] = u
      <4>1. PICK i \in DOMAIN s : s[i][1] = u
        BY <3>2
      <4>2. i - 1 \in DOMAIN r /\ r[i - 1] = s[i]
        BY <1>1, <2>1, <2>2, <3>2, <4>1
      <4>3. LeftOf(r, u) = s[i][2] /\ LeftOf(s, u) = s[i][2] /\ s[i][2] \in Int
        BY <2>3, <4>1, <4>2, LeftIs
      <4> QED
        BY <1>1, <3>2, <4>3
    <3>3. CASE \A i \in DOMAIN s : s[i][1] # u
      <4>1. \A i \in DOMAIN r : r[i][1] # u
        BY <1>1, <2>1, <2>2, <3>3
      <4> QED
        <5>1. LeftOf(r, u) = 0 /\ LeftOf(s, u) = 0
          BY <2>3, <3>3, <4>1, NothingLeft DEF Absent
        <5>2. u # Head(s)[1]
          BY <1>1, <3>3
        <5>3. (IF u = Head(s)[1] THEN pay ELSE 0) = 0
          BY <5>2
        <5>4. LeftOf(s, u) - 0 = 0
          BY <5>1
        <5> QED
          BY <5>1, <5>3, <5>4
    <3> QED
      BY <3>1, <3>2, <3>3
  <2> QED
    BY <1>3, <2>1, <2>3, <2>4
<1>4. CASE Head(s)[2] # pay
  <2> DEFINE head == <<s[1][1], s[1][2] - pay>>
  <2>1. head \in Pairs
    BY <1>1, <1>2, <1>4
  <2>2. r = <<head>> \o Tail(s)
    BY <1>1, <1>4 DEF Reduce
  <2>3. r \in Seq(Pairs) /\ Len(r) = Len(s) /\ DOMAIN r = 1..Len(s) /\ r[1] = head
    <3> HIDE DEF head
    <3> QED
      BY <1>1, <2>1, <2>2
  <2>4. \A i \in 2..Len(s) : r[i] = s[i]
    <3> HIDE DEF head
    <3> QED
      BY <1>1, <2>1, <2>2
  <2>5. \A i \in 1..Len(s) : r[i][1] = s[i][1]
    <3> SUFFICES ASSUME NEW i \in 1..Len(s) PROVE r[i][1] = s[i][1]
      OBVIOUS
    <3>1. i = 1 \/ i \in 2..Len(s)
      BY <1>1
    <3> QED
      BY <2>3, <2>4, <3>1
  <2> HIDE DEF head
  <2>6. Listed(r, users)
    BY <1>1, <2>3, <2>5 DEF Listed
  <2>7. ASSUME NEW u PROVE LeftOf(r, u) = LeftOf(s, u) - (IF u = Head(s)[1] THEN pay ELSE 0)
    <3>1. CASE \E i \in DOMAIN s : s[i][1] = u
      <4>1. PICK i \in DOMAIN s : s[i][1] = u
        BY <3>1
      <4>2. LeftOf(r, u) = r[i][2] /\ LeftOf(s, u) = s[i][2] /\ s[i][2] \in Int
        BY <1>1, <2>3, <2>5, <2>6, <4>1, LeftIs
      <4>3. CASE i = 1
        BY <1>1, <2>3, <4>1, <4>2, <4>3 DEF head
      <4>4. CASE i # 1
        <5>1. i \in 2..Len(s) /\ u # s[1][1]
          <6>1. i \in 1..Len(s) /\ 1 \in 1..Len(s)
            BY <1>1
          <6> QED
            BY <1>1, <1>2, <4>1, <4>4, <6>1
        <5> QED
          BY <1>1, <2>4, <4>2, <5>1
      <4> QED
        BY <4>3, <4>4
    <3>2. CASE \A i \in DOMAIN s : s[i][1] # u
      <4>1. \A i \in DOMAIN r : r[i][1] # u
        BY <1>1, <2>3, <2>5, <3>2
      <4> QED
        <5>1. LeftOf(r, u) = 0 /\ LeftOf(s, u) = 0
          BY <2>6, <3>2, <4>1, NothingLeft DEF Absent
        <5>2. u # Head(s)[1]
          BY <1>1, <3>2
        <5>3. (IF u = Head(s)[1] THEN pay ELSE 0) = 0
          BY <5>2
        <5>4. LeftOf(s, u) - 0 = 0
          BY <5>1
        <5> QED
          BY <5>1, <5>3, <5>4
    <3> QED
      BY <3>1, <3>2
  <2> QED
    BY <1>4, <2>3, <2>6, <2>7
<1> QED
  BY <1>3, <1>4

-----------------------------------------------------------------------------
(* The lists the loop starts with.                                         *)

(* Parties: pairs with one amount for each of the users.                   *)
PartiesOver(P, users) ==
    /\ IsFiniteSet(P)
    /\ P \subseteq users \X {n \in Int : n > 0}
    /\ \A a, b \in P : a[1] = b[1] => a = b

(* A sorted list of parties is a list.                                     *)
LEMMA SortedIsListed ==
  ASSUME NEW users, Ordered(users), NEW P, PartiesOver(P, users)
  PROVE  /\ Listed(Sorted(P), users)
         /\ Len(Sorted(P)) = Cardinality(P)
         /\ \A a \in P : LeftOf(Sorted(P), a[1]) = a[2]
         /\ \A u : (\A a \in P : a[1] # u) => LeftOf(Sorted(P), u) = 0
<1> DEFINE N == 1..Cardinality(P)
           s == Sorted(P)
<1>1. \A a \in P : a[1] \in users /\ a[2] \in Int /\ a[2] > 0 /\ a = <<a[1], a[2]>>
  BY DEF PartiesOver
<1>2. Sortable(P)
  <2> SUFFICES ASSUME NEW a \in P, NEW b \in P
               PROVE  /\ ByAmountDesc(a, b) \/ ByAmountDesc(b, a)
                      /\ ByAmountDesc(a, b) /\ ByAmountDesc(b, a) => a = b
                      /\ \A c \in P : ByAmountDesc(a, b) /\ ByAmountDesc(b, c) => ByAmountDesc(a, c)
    BY DEF Sortable, PartiesOver
  <2>1. ByAmountDesc(a, b) \/ ByAmountDesc(b, a)
    BY <1>1 DEF ByAmountDesc, Ordered
  <2>2. ByAmountDesc(a, b) /\ ByAmountDesc(b, a) => a = b
    BY <1>1 DEF ByAmountDesc, Ordered, PartiesOver
  <2>3. ASSUME NEW c \in P, ByAmountDesc(a, b), ByAmountDesc(b, c) PROVE ByAmountDesc(a, c)
    BY <1>1, <2>3 DEF ByAmountDesc, Ordered
  <2> QED
    BY <2>1, <2>2, <2>3
<1>3. Cardinality(P) \in Nat
  BY FS_CardinalityType DEF PartiesOver
<1>4. /\ s \in [N -> P]
      /\ \A a \in P : \E n \in N : s[n] = a
      /\ \A m, n \in N : s[m] = s[n] => m = n
  BY <1>2, SortedListsAll DEF Lists
<1> HIDE DEF s
<1>5. s \in Seq(P) /\ Len(s) = Cardinality(P) /\ DOMAIN s = N
  <2>1. s \in Seq(P)
    BY <1>3, <1>4
  <2> QED
    BY <1>3, <1>4, <2>1
<1>6. Listed(s, users)
  <2>1. s \in Seq(users \X {n \in Int : n > 0})
    BY <1>3, <1>4 DEF PartiesOver
  <2>2. ASSUME NEW i \in DOMAIN s, NEW j \in DOMAIN s, s[i][1] = s[j][1] PROVE i = j
    <3>1. s[i] \in P /\ s[j] \in P /\ i \in N /\ j \in N
      BY <1>4
    <3>2. s[i] = s[j]
      BY <2>2, <3>1 DEF PartiesOver
    <3> QED
      BY <1>4, <3>1, <3>2
  <2> QED
    BY <2>1, <2>2 DEF Listed
<1>7. ASSUME NEW a \in P PROVE LeftOf(s, a[1]) = a[2]
  <2>1. PICK n \in DOMAIN s : s[n] = a
    BY <1>4, <1>5
  <2> QED
    BY <1>6, <2>1, LeftIs
<1>8. ASSUME NEW u, \A a \in P : a[1] # u PROVE LeftOf(s, u) = 0
  <2>1. Absent(s, u)
    BY <1>4, <1>5, <1>8 DEF Absent
  <2> QED
    BY <2>1, NothingLeft
<1> QED
  BY <1>5, <1>6, <1>7, <1>8 DEF s

(* Finitely many users give as many parties.                               *)
LEMMA OneForEach ==
  ASSUME NEW b, Balanced(b), NEW U, U \subseteq DOMAIN b, NEW amount,
         \A u \in U : amount[u] \in Int /\ amount[u] > 0,
         NEW P, P = {<<u, amount[u]>> : u \in U}
  PROVE  PartiesOver(P, DOMAIN b) /\ Cardinality(P) = Cardinality(U)
<1> DEFINE f == [u \in U |-> <<u, amount[u]>>]
<1>1. IsFiniteSet(U)
  BY FS_Subset DEF Balanced
<1>2. f \in Bijection(U, P)
  BY DEF Bijection, Injection, Surjection, IsInjective
<1> HIDE DEF f
<1>3. IsFiniteSet(P) /\ Cardinality(P) = Cardinality(U)
  BY <1>1, <1>2, FS_Bijection DEF ExistsBijection
<1> QED
  BY <1>3 DEF PartiesOver

(* The loop starts with the creditors' and the debtors' amounts.           *)
LEMMA StartIs ==
  ASSUME NEW b, Balanced(b)
  PROVE  LET x == Start(b)
         IN  /\ Listed(x.debtors, DOMAIN b) /\ Listed(x.creditors, DOMAIN b)
             /\ x.transfers = <<>>
             /\ \A u \in DOMAIN b : /\ LeftOf(x.debtors, u) = IF b[u] < 0 THEN -b[u] ELSE 0
                                    /\ LeftOf(x.creditors, u) = IF b[u] > 0 THEN b[u] ELSE 0
             /\ Len(x.debtors) + Len(x.creditors) = Cardinality({u \in DOMAIN b : b[u] # 0})
<1> DEFINE Neg == {u \in DOMAIN b : b[u] < 0}
           Pos == {u \in DOMAIN b : b[u] > 0}
           minus == [u \in Neg |-> -b[u]]
           plus == [u \in Pos |-> b[u]]
           x == Start(b)
<1>1. \A u \in DOMAIN b : b[u] \in Int
  BY DEF Balanced
<1>2. x.debtors = Sorted(Debtors(b)) /\ x.creditors = Sorted(Creditors(b)) /\ x.transfers = <<>>
  BY DEF Start
<1>3. /\ Debtors(b) = {<<u, minus[u]>> : u \in Neg} /\ Creditors(b) = {<<u, plus[u]>> : u \in Pos}
      /\ \A u \in Neg : minus[u] \in Int /\ minus[u] > 0 /\ minus[u] = -b[u]
      /\ \A u \in Pos : plus[u] \in Int /\ plus[u] > 0 /\ plus[u] = b[u]
  <2>1. /\ \A u \in Neg : minus[u] \in Int /\ minus[u] > 0 /\ minus[u] = -b[u]
        /\ \A u \in Pos : plus[u] \in Int /\ plus[u] > 0 /\ plus[u] = b[u]
    BY <1>1
  <2>2. Debtors(b) = {<<u, -b[u]>> : u \in Neg} /\ Creditors(b) = {<<u, b[u]>> : u \in Pos}
    BY DEF Debtors, Creditors
  <2> HIDE DEF minus, plus, Neg, Pos
  <2> QED
    BY <2>1, <2>2
<1> HIDE DEF minus, plus, x
<1>4. /\ PartiesOver(Debtors(b), DOMAIN b) /\ Cardinality(Debtors(b)) = Cardinality(Neg)
      /\ PartiesOver(Creditors(b), DOMAIN b) /\ Cardinality(Creditors(b)) = Cardinality(Pos)
  <2>1. Neg \subseteq DOMAIN b /\ Pos \subseteq DOMAIN b
    OBVIOUS
  <2> HIDE DEF Neg, Pos
  <2>2. PartiesOver(Debtors(b), DOMAIN b) /\ Cardinality(Debtors(b)) = Cardinality(Neg)
    BY <1>3, <2>1, OneForEach
  <2>3. PartiesOver(Creditors(b), DOMAIN b) /\ Cardinality(Creditors(b)) = Cardinality(Pos)
    BY <1>3, <2>1, OneForEach
  <2> QED
    BY <2>2, <2>3
<1>5. Ordered(DOMAIN b)
  BY DEF Balanced
<1>6. ASSUME NEW u \in DOMAIN b PROVE LeftOf(x.debtors, u) = IF b[u] < 0 THEN -b[u] ELSE 0
  <2>1. CASE u \in Neg
    <3>1. <<u, minus[u]>> \in Debtors(b)
      BY <1>3, <2>1
    <3>2. \A a \in Debtors(b) : LeftOf(x.debtors, a[1]) = a[2]
      BY <1>2, <1>4, <1>5, SortedIsListed
    <3>3. LeftOf(x.debtors, u) = minus[u]
      BY <3>1, <3>2
    <3> QED
      BY <1>3, <2>1, <3>3
  <2>2. CASE u \notin Neg
    <3>1. \A a \in Debtors(b) : a[1] # u
      BY <1>3, <2>2
    <3>2. LeftOf(x.debtors, u) = 0
      BY <1>2, <1>4, <1>5, <3>1, SortedIsListed
    <3> QED
      BY <2>2, <3>2
  <2> QED
    BY <2>1, <2>2
<1>7. ASSUME NEW u \in DOMAIN b PROVE LeftOf(x.creditors, u) = IF b[u] > 0 THEN b[u] ELSE 0
  <2>1. CASE u \in Pos
    <3>1. <<u, plus[u]>> \in Creditors(b)
      BY <1>3, <2>1
    <3>2. \A a \in Creditors(b) : LeftOf(x.creditors, a[1]) = a[2]
      BY <1>2, <1>4, <1>5, SortedIsListed
    <3>3. LeftOf(x.creditors, u) = plus[u]
      BY <3>1, <3>2
    <3> QED
      BY <1>3, <2>1, <3>3
  <2>2. CASE u \notin Pos
    <3>1. \A a \in Creditors(b) : a[1] # u
      BY <1>3, <2>2
    <3>2. LeftOf(x.creditors, u) = 0
      BY <1>2, <1>4, <1>5, <3>1, SortedIsListed
    <3> QED
      BY <2>2, <3>2
  <2> QED
    BY <2>1, <2>2
<1>8. Len(x.debtors) + Len(x.creditors) = Cardinality({u \in DOMAIN b : b[u] # 0})
  <2>1. Neg \cup Pos = {u \in DOMAIN b : b[u] # 0} /\ Neg \cap Pos = {}
    BY <1>1
  <2>2. IsFiniteSet(Neg) /\ IsFiniteSet(Pos)
    BY FS_Subset DEF Balanced
  <2>3. Len(x.debtors) = Cardinality(Neg) /\ Len(x.creditors) = Cardinality(Pos)
    BY <1>2, <1>4, <1>5, SortedIsListed
  <2> HIDE DEF Neg, Pos
  <2>4. Cardinality(Neg \cup Pos) = Cardinality(Neg) + Cardinality(Pos) - Cardinality(Neg \cap Pos)
    BY <2>2, FS_Union
  <2>5. Cardinality(Neg \cap Pos) = 0 /\ Cardinality(Neg) \in Nat /\ Cardinality(Pos) \in Nat
    BY <2>1, <2>2, FS_EmptySet, FS_CardinalityType
  <2>6. Cardinality(Neg \cup Pos) = Cardinality(Neg) + Cardinality(Pos)
    BY <2>4, <2>5
  <2> QED
    BY <2>1, <2>3, <2>6
<1>9. Listed(x.debtors, DOMAIN b) /\ Listed(x.creditors, DOMAIN b)
  BY <1>2, <1>4, <1>5, SortedIsListed
<1> QED
  BY <1>2, <1>6, <1>7, <1>8, <1>9 DEF x

-----------------------------------------------------------------------------
(* The transfers. *)

Transfers(users) == [from : users, to : users, amount : {n \in Int : n > 0}]

AmountIn(t) == [i \in DOMAIN t |-> t[i].amount]
PaidIn(t, u) == SumFunctionOnSet(AmountIn(t), {i \in DOMAIN t : t[i].from = u})
ReceivedIn(t, u) == SumFunctionOnSet(AmountIn(t), {i \in DOMAIN t : t[i].to = u})

(* Transfers have amounts that can be summed.                              *)
LEMMA TransfersSummable ==
  ASSUME NEW users, NEW t, t \in Seq(Transfers(users)), NEW I, I \subseteq DOMAIN t
  PROVE  Summable(AmountIn(t), I)
<1>1. DOMAIN t = 1..Len(t) /\ Len(t) \in Nat
  OBVIOUS
<1>2. IsFiniteSet(1..Len(t))
  BY <1>1, FS_Interval
<1>3. \A i \in DOMAIN t : t[i] \in Transfers(users)
  OBVIOUS
<1>4. \A i \in I : AmountIn(t)[i] \in Int
  BY <1>3 DEF AmountIn, Transfers
<1> QED
  BY <1>1, <1>2, <1>4, FS_Subset DEF Summable

(* One more transfer adds its amount to what was paid.                     *)
LEMMA PaidAppend ==
  ASSUME NEW users, NEW t, t \in Seq(Transfers(users)), NEW tr \in Transfers(users), NEW u
  PROVE  /\ Append(t, tr) \in Seq(Transfers(users)) /\ Len(Append(t, tr)) = Len(t) + 1
         /\ PaidIn(Append(t, tr), u) = PaidIn(t, u) + (IF tr.from = u THEN tr.amount ELSE 0)
         /\ ReceivedIn(Append(t, tr), u) = ReceivedIn(t, u) + (IF tr.to = u THEN tr.amount ELSE 0)
<1> DEFINE t2 == Append(t, tr)
           n == Len(t) + 1
           f == AmountIn(t)
           f2 == AmountIn(t2)
<1>1. /\ t2 \in Seq(Transfers(users)) /\ Len(t2) = n /\ n \in Nat
      /\ DOMAIN t = 1..Len(t) /\ DOMAIN t2 = 1..n /\ n \notin DOMAIN t
      /\ DOMAIN t2 = DOMAIN t \cup {n} /\ t2[n] = tr
  OBVIOUS
<1>2. \A i \in DOMAIN t : t2[i] = t[i]
  BY <1>1
<1> HIDE DEF t2, n
<1>3. /\ \A i \in DOMAIN t : f2[i] = f[i]
      /\ f2[n] = tr.amount /\ tr.amount \in Int
  BY <1>1, <1>2 DEF AmountIn, Transfers
<1> HIDE DEF f, f2
<1>4. ASSUME NEW I, I \subseteq DOMAIN t
      PROVE  /\ SumFunctionOnSet(f2, I) = SumFunctionOnSet(f, I) /\ SumFunctionOnSet(f, I) \in Int
             /\ SumFunctionOnSet(f2, I \cup {n}) = SumFunctionOnSet(f, I) + tr.amount
  <2>1. Summable(f, I)
    BY <1>4, TransfersSummable DEF f
  <2>2. SumFunctionOnSet(f2, I) = SumFunctionOnSet(f, I) /\ SumFunctionOnSet(f, I) \in Int
    BY <1>3, <1>4, <2>1, SumSame, SumInt
  <2>3. Summable(f2, I)
    BY <1>3, <1>4, <2>1 DEF Summable
  <2>4. n \notin I
    BY <1>1, <1>4
  <2>5. SumFunctionOnSet(f2, I \cup {n}) = f2[n] + SumFunctionOnSet(f2, I)
    BY <1>3, <2>3, <2>4, SumInsert
  <2> QED
    BY <1>3, <2>2, <2>5
<1>5. PaidIn(t2, u) = PaidIn(t, u) + (IF tr.from = u THEN tr.amount ELSE 0)
  <2> DEFINE I == {i \in DOMAIN t : t[i].from = u}
             I2 == {i \in DOMAIN t2 : t2[i].from = u}
  <2>1. I \subseteq DOMAIN t /\ I2 = IF tr.from = u THEN I \cup {n} ELSE I
    BY <1>1, <1>2
  <2>2. PaidIn(t, u) = SumFunctionOnSet(f, I) /\ PaidIn(t2, u) = SumFunctionOnSet(f2, I2)
    BY DEF PaidIn, f, f2
  <2> HIDE DEF I, I2
  <2>3. CASE tr.from = u
    BY <1>4, <2>1, <2>2, <2>3
  <2>4. CASE tr.from # u
    <3>1. (IF tr.from = u THEN tr.amount ELSE 0) = 0 /\ I2 = I
      BY <2>1, <2>4
    <3>2. SumFunctionOnSet(f2, I) = SumFunctionOnSet(f, I) /\ SumFunctionOnSet(f, I) \in Int
      BY <1>4, <2>1
    <3>3. PaidIn(t2, u) = PaidIn(t, u) /\ PaidIn(t, u) \in Int
      BY <2>2, <3>1, <3>2
    <3> QED
      BY <3>1, <3>3
  <2> QED
    BY <2>3, <2>4
<1>6. ReceivedIn(t2, u) = ReceivedIn(t, u) + (IF tr.to = u THEN tr.amount ELSE 0)
  <2> DEFINE I == {i \in DOMAIN t : t[i].to = u}
             I2 == {i \in DOMAIN t2 : t2[i].to = u}
  <2>1. I \subseteq DOMAIN t /\ I2 = IF tr.to = u THEN I \cup {n} ELSE I
    BY <1>1, <1>2
  <2>2. ReceivedIn(t, u) = SumFunctionOnSet(f, I) /\ ReceivedIn(t2, u) = SumFunctionOnSet(f2, I2)
    BY DEF ReceivedIn, f, f2
  <2> HIDE DEF I, I2
  <2>3. CASE tr.to = u
    BY <1>4, <2>1, <2>2, <2>3
  <2>4. CASE tr.to # u
    <3>1. (IF tr.to = u THEN tr.amount ELSE 0) = 0 /\ I2 = I
      BY <2>1, <2>4
    <3>2. SumFunctionOnSet(f2, I) = SumFunctionOnSet(f, I) /\ SumFunctionOnSet(f, I) \in Int
      BY <1>4, <2>1
    <3>3. ReceivedIn(t2, u) = ReceivedIn(t, u) /\ ReceivedIn(t, u) \in Int
      BY <2>2, <3>1, <3>2
    <3> QED
      BY <3>1, <3>3
  <2> QED
    BY <2>3, <2>4
<1> QED
  BY <1>1, <1>5, <1>6 DEF t2, n

(* What was paid is a number.                                              *)
LEMMA PaidIsInt ==
  ASSUME NEW users, NEW t, t \in Seq(Transfers(users)), NEW u
  PROVE  PaidIn(t, u) \in Int /\ ReceivedIn(t, u) \in Int
BY TransfersSummable, SumInt DEF PaidIn, ReceivedIn

-----------------------------------------------------------------------------
(* The loop. *)

Left(s, users) == [u \in users |-> LeftOf(s, u)]

(* What everybody has still to pay or to get is what the balances say, the *)
(* transfers made so far taken into account, and adds up on both sides.    *)
SettleInv(b, x) ==
    /\ Listed(x.debtors, DOMAIN b) /\ Listed(x.creditors, DOMAIN b)
    /\ x.transfers \in Seq(Transfers(DOMAIN b))
    /\ \A u \in DOMAIN b : b[u] + PaidIn(x.transfers, u) + LeftOf(x.debtors, u)
                               = ReceivedIn(x.transfers, u) + LeftOf(x.creditors, u)
    /\ SumFunction(Left(x.debtors, DOMAIN b)) = SumFunction(Left(x.creditors, DOMAIN b))

(* Each transfer settles a party, and the last one settles two.            *)
Few(b, x) ==
    LET n == Cardinality({u \in DOMAIN b : b[u] # 0})
    IN  /\ Len(x.transfers) + Len(x.debtors) + Len(x.creditors) <= n
        /\ x.debtors = <<>> /\ x.creditors = <<>> => n = 0 \/ Len(x.transfers) < n

(* So is what is left.                                                     *)
LEMMA LeftSummable ==
  ASSUME NEW b, Balanced(b), NEW s, Listed(s, DOMAIN b)
  PROVE  Summable(Left(s, DOMAIN b), DOMAIN b)
BY LeftIs DEF Summable, Left, Balanced

(* At the start nothing is paid and everything is left.                    *)
LEMMA StartKeeps ==
  ASSUME NEW b, Balanced(b)
  PROVE  SettleInv(b, Start(b)) /\ Few(b, Start(b))
<1> DEFINE x == Start(b)
           U == DOMAIN b
<1>1. /\ Listed(x.debtors, U) /\ Listed(x.creditors, U) /\ x.transfers = <<>>
      /\ \A u \in U : /\ LeftOf(x.debtors, u) = IF b[u] < 0 THEN -b[u] ELSE 0
                      /\ LeftOf(x.creditors, u) = IF b[u] > 0 THEN b[u] ELSE 0
      /\ Len(x.debtors) + Len(x.creditors) = Cardinality({u \in U : b[u] # 0})
  BY StartIs
<1>2. \A u \in U : b[u] \in Int
  BY DEF Balanced
<1> HIDE DEF x
<1>3. \A u : PaidIn(<<>>, u) = 0 /\ ReceivedIn(<<>>, u) = 0
  BY SumEmpty DEF PaidIn, ReceivedIn
<1>5. \A u \in U : b[u] + PaidIn(x.transfers, u) + LeftOf(x.debtors, u)
                       = ReceivedIn(x.transfers, u) + LeftOf(x.creditors, u)
  BY <1>1, <1>2, <1>3
<1>6. SumFunction(Left(x.debtors, U)) = SumFunction(Left(x.creditors, U))
  <2> DEFINE d == Left(x.debtors, U)
             c == Left(x.creditors, U)
  <2>1. Summable(d, U) /\ Summable(c, U) /\ Summable(b, U)
    BY <1>1, <1>2, LeftSummable DEF Balanced, Summable
  <2>2. \A u \in U : c[u] = b[u] + d[u]
    BY <1>1, <1>2 DEF Left
  <2>3. SumFunction(b) = SumFunctionOnSet(b, U) /\ SumFunction(b) = 0
    BY DEF Balanced, SumFunction
  <2>4. SumFunction(d) = SumFunctionOnSet(d, U) /\ SumFunction(c) = SumFunctionOnSet(c, U)
    BY DEF SumFunction, Left
  <2> HIDE DEF d, c
  <2>5. SumFunctionOnSet(c, U) = SumFunctionOnSet(b, U) + SumFunctionOnSet(d, U)
    BY <2>1, <2>2, SumAdd
  <2>6. SumFunctionOnSet(d, U) \in Int
    BY <2>1, SumInt
  <2>7. SumFunction(d) = SumFunction(c)
    BY <2>3, <2>4, <2>5, <2>6
  <2> QED
    BY <2>7 DEF d, c
<1>7. x.transfers \in Seq(Transfers(U)) /\ Len(x.transfers) = 0
  BY <1>1
<1>8. SettleInv(b, x)
  BY <1>1, <1>5, <1>6, <1>7 DEF SettleInv
<1>9. Few(b, x)
  <2> DEFINE n == Cardinality({u \in U : b[u] # 0})
             d == Len(x.debtors)
             c == Len(x.creditors)
  <2>1. d \in Nat /\ c \in Nat /\ d + c = n
    <3>1. d + c = n
      BY <1>1
    <3> QED
      BY <1>1, <3>1, ListIsFinite
  <2>2. (x.debtors = <<>> => d = 0) /\ (x.creditors = <<>> => c = 0)
    OBVIOUS
  <2>3. Few(b, x) <=> /\ Len(x.transfers) + d + c <= n
                      /\ x.debtors = <<>> /\ x.creditors = <<>> => n = 0 \/ Len(x.transfers) < n
    BY DEF Few
  <2> HIDE DEF n, d, c
  <2> QED
    BY <1>7, <2>1, <2>2, <2>3
<1> QED
  BY <1>8, <1>9 DEF x

(* A sum with one value lowered is lower by as much.                       *)
LEMMA SumDrop ==
  ASSUME NEW f, NEW g, NEW S, Summable(f, S), NEW x \in S, NEW k \in Int,
         \A y \in S : g[y] = f[y] - (IF y = x THEN k ELSE 0)
  PROVE  SumFunctionOnSet(g, S) = SumFunctionOnSet(f, S) - k
<1>1. \A y \in S : f[y] \in Int
  BY DEF Summable
<1>2. \A y \in S \ {x} : g[y] = f[y]
  BY <1>1
<1>3. g[x] = f[x] - k
  OBVIOUS
<1>4. \A y \in S : g[y] \in Int
  BY <1>1
<1>5. Summable(g, S) /\ Summable(f, S \ {x})
  BY <1>4, SummableSubset DEF Summable
<1>6. /\ SumFunctionOnSet(f, S) = f[x] + SumFunctionOnSet(f, S \ {x})
      /\ SumFunctionOnSet(g, S) = g[x] + SumFunctionOnSet(g, S \ {x})
  BY <1>5, SumRemove
<1>7. SumFunctionOnSet(g, S \ {x}) = SumFunctionOnSet(f, S \ {x})
  BY <1>2, <1>5, SumSame
<1>8. SumFunctionOnSet(f, S \ {x}) \in Int
  BY <1>5, SumInt
<1> QED
  BY <1>1, <1>3, <1>6, <1>7, <1>8

(* The head of a list is somebody with something left.                     *)
LEMMA HeadIs ==
  ASSUME NEW users, NEW s, Listed(s, users), s # <<>>
  PROVE  Head(s)[1] \in users /\ Head(s)[2] \in Int /\ Head(s)[2] > 0
<1>1. s \in Seq(users \X {n \in Int : n > 0})
  BY DEF Listed
<1>2. Head(s) \in users \X {n \in Int : n > 0}
  BY <1>1
<1> QED
  BY <1>2

(* One list of the loop: a payment to or from its first party.             *)
LEMMA OneSide ==
  ASSUME NEW b, Balanced(b), NEW s, Listed(s, DOMAIN b), s # <<>>,
         NEW pay \in Int, pay > 0, pay <= Head(s)[2],
         NEW r, r = Reduce(s, pay)
  PROVE  /\ Listed(r, DOMAIN b)
         /\ \A u : LeftOf(r, u) = LeftOf(s, u) - (IF u = Head(s)[1] THEN pay ELSE 0)
         /\ SumFunction(Left(r, DOMAIN b)) = SumFunction(Left(s, DOMAIN b)) - pay
         /\ Len(r) = IF Head(s)[2] = pay THEN Len(s) - 1 ELSE Len(s)
<1> DEFINE U == DOMAIN b
           f == Left(s, U)
           g == Left(r, U)
           h == Head(s)[1]
<1>1. /\ Listed(r, U) /\ \A u : LeftOf(r, u) = LeftOf(s, u) - (IF u = h THEN pay ELSE 0)
      /\ Len(r) = IF Head(s)[2] = pay THEN Len(s) - 1 ELSE Len(s)
  BY ReduceIs
<1>2. h \in U
  BY HeadIs
<1>3. Summable(f, U)
  BY LeftSummable
<1>4. /\ SumFunction(f) = SumFunctionOnSet(f, U) /\ SumFunction(g) = SumFunctionOnSet(g, U)
      /\ \A u \in U : f[u] = LeftOf(s, u) /\ g[u] = LeftOf(r, u)
  BY DEF SumFunction, Left
<1>5. \A u \in U : g[u] = f[u] - (IF u = h THEN pay ELSE 0)
  BY <1>1, <1>4
<1> HIDE DEF f, g, h
<1>6. SumFunctionOnSet(g, U) = SumFunctionOnSet(f, U) - pay
  BY <1>2, <1>3, <1>5, SumDrop
<1>7. SumFunction(g) = SumFunction(f) - pay
  BY <1>4, <1>6
<1> QED
  BY <1>1, <1>7 DEF f, g, h

(* An iteration pays what it takes from both heads.                        *)
LEMMA StepKeeps ==
  ASSUME NEW b, Balanced(b), NEW x, SettleInv(b, x), Few(b, x), Running(x)
  PROVE  SettleInv(b, Step(x)) /\ Few(b, Step(x))
<1> DEFINE U == DOMAIN b
           y == Step(x)
           pay == Pay(x)
           from == Head(x.debtors)[1]
           to == Head(x.creditors)[1]
           owed == Head(x.debtors)[2]
           due == Head(x.creditors)[2]
           tr == Transfer(from, to, pay)
<1>1. /\ Listed(x.debtors, U) /\ Listed(x.creditors, U)
      /\ x.transfers \in Seq(Transfers(U))
      /\ x.debtors # <<>> /\ x.creditors # <<>>
  BY DEF SettleInv, Running
<1>2. from \in U /\ owed \in Int /\ owed > 0 /\ to \in U /\ due \in Int /\ due > 0
  BY <1>1, HeadIs
<1>3. pay = IF owed < due THEN owed ELSE due
  BY DEF Pay
<1>4. y.debtors = Reduce(x.debtors, pay) /\ y.creditors = Reduce(x.creditors, pay)
  BY DEF Step
<1>5. y.transfers = IF pay > 0 THEN Append(x.transfers, tr) ELSE x.transfers
  BY DEF Step
<1>6. tr = [from |-> from, to |-> to, amount |-> pay]
  BY DEF Transfer
<1> HIDE DEF y, pay, from, to, owed, due, tr
<1>7. pay \in Int /\ pay > 0 /\ pay <= owed /\ pay <= due /\ (pay = owed \/ pay = due)
  BY <1>2, <1>3
<1>8. tr \in Transfers(U) /\ tr.from = from /\ tr.to = to /\ tr.amount = pay
  BY <1>2, <1>6, <1>7 DEF Transfers
<1>9. /\ Listed(y.debtors, U)
      /\ \A u : LeftOf(y.debtors, u) = LeftOf(x.debtors, u) - (IF u = from THEN pay ELSE 0)
      /\ SumFunction(Left(y.debtors, U)) = SumFunction(Left(x.debtors, U)) - pay
      /\ Len(y.debtors) = IF owed = pay THEN Len(x.debtors) - 1 ELSE Len(x.debtors)
  BY <1>1, <1>4, <1>7, OneSide DEF from, owed
<1>10. /\ Listed(y.creditors, U)
       /\ \A u : LeftOf(y.creditors, u) = LeftOf(x.creditors, u) - (IF u = to THEN pay ELSE 0)
       /\ SumFunction(Left(y.creditors, U)) = SumFunction(Left(x.creditors, U)) - pay
       /\ Len(y.creditors) = IF due = pay THEN Len(x.creditors) - 1 ELSE Len(x.creditors)
  BY <1>1, <1>4, <1>7, OneSide DEF to, due
<1>11. /\ y.transfers \in Seq(Transfers(U)) /\ Len(y.transfers) = Len(x.transfers) + 1
       /\ \A u : PaidIn(y.transfers, u)
                    = PaidIn(x.transfers, u) + (IF from = u THEN pay ELSE 0)
       /\ \A u : ReceivedIn(y.transfers, u)
                    = ReceivedIn(x.transfers, u) + (IF to = u THEN pay ELSE 0)
  <2>1. y.transfers = Append(x.transfers, tr)
    BY <1>5, <1>7
  <2> QED
    BY <1>1, <1>8, <2>1, PaidAppend
<1>12. ASSUME NEW u \in U
       PROVE  b[u] + PaidIn(y.transfers, u) + LeftOf(y.debtors, u)
                  = ReceivedIn(y.transfers, u) + LeftOf(y.creditors, u)
  <2> DEFINE out == IF from = u THEN pay ELSE 0
             in == IF to = u THEN pay ELSE 0
  <2>1. out \in Int /\ in \in Int
    BY <1>7
  <2>2. b[u] + PaidIn(x.transfers, u) + LeftOf(x.debtors, u)
            = ReceivedIn(x.transfers, u) + LeftOf(x.creditors, u)
    BY DEF SettleInv
  <2>3. /\ b[u] \in Int /\ PaidIn(x.transfers, u) \in Int /\ ReceivedIn(x.transfers, u) \in Int
        /\ LeftOf(x.debtors, u) \in Int /\ LeftOf(x.creditors, u) \in Int
    BY <1>1, PaidIsInt, LeftIs DEF Balanced
  <2>4. /\ PaidIn(y.transfers, u) = PaidIn(x.transfers, u) + out
        /\ ReceivedIn(y.transfers, u) = ReceivedIn(x.transfers, u) + in
        /\ LeftOf(y.debtors, u) = LeftOf(x.debtors, u) - out
        /\ LeftOf(y.creditors, u) = LeftOf(x.creditors, u) - in
    <3>1. (IF u = from THEN pay ELSE 0) = out /\ (IF u = to THEN pay ELSE 0) = in
      OBVIOUS
    <3> QED
      BY <1>9, <1>10, <1>11, <3>1
  <2> HIDE DEF out, in
  <2> QED
    BY <2>1, <2>2, <2>3, <2>4
<1>13. SumFunction(Left(y.debtors, U)) = SumFunction(Left(y.creditors, U))
  <2>1. SumFunction(Left(x.debtors, U)) = SumFunction(Left(x.creditors, U))
    BY DEF SettleInv
  <2> QED
    BY <1>9, <1>10, <2>1
<1>14. SettleInv(b, y)
  BY <1>9, <1>10, <1>11, <1>12, <1>13 DEF SettleInv
<1>15. Few(b, y)
  <2> DEFINE n == Cardinality({u \in U : b[u] # 0})
             d == Len(x.debtors)
             c == Len(x.creditors)
             k == Len(x.transfers)
             d2 == Len(y.debtors)
             c2 == Len(y.creditors)
             k2 == Len(y.transfers)
  <2>1. d \in Nat /\ c \in Nat /\ d2 \in Nat /\ c2 \in Nat /\ k \in Nat /\ n \in Int
    <3>1. n \in Nat
      BY FS_Subset, FS_CardinalityType DEF Balanced
    <3>2. d \in Nat /\ c \in Nat
      BY <1>1, ListIsFinite
    <3>3. d2 \in Nat /\ c2 \in Nat
      BY <1>9, <1>10, ListIsFinite
    <3>4. k \in Nat
      BY <1>1
    <3> QED
      BY <3>1, <3>2, <3>3, <3>4
  <2>2. k + d + c <= n
    BY DEF Few
  <2>3. /\ k2 = k + 1
        /\ (owed = pay => d2 = d - 1) /\ (owed # pay => d2 = d)
        /\ (due = pay => c2 = c - 1) /\ (due # pay => c2 = c)
    BY <1>9, <1>10, <1>11
  <2>4. d # 0 /\ c # 0
    BY <1>1, ListIsFinite
  <2>5. (y.debtors = <<>> => d2 = 0) /\ (y.creditors = <<>> => c2 = 0)
    OBVIOUS
  <2>6. Few(b, y) <=> /\ k2 + d2 + c2 <= n
                      /\ y.debtors = <<>> /\ y.creditors = <<>> => n = 0 \/ k2 < n
    BY DEF Few
  <2> HIDE DEF n, d, c, k, d2, c2, k2
  <2>7. k2 + d2 + c2 <= n
    BY <1>7, <2>1, <2>2, <2>3
  <2>8. ASSUME d2 = 0, c2 = 0 PROVE k2 < n
    <3>1. owed = pay /\ due = pay
      BY <2>3, <2>4, <2>8
    <3> QED
      BY <2>1, <2>2, <2>3, <2>8, <3>1
  <2> QED
    BY <2>5, <2>6, <2>7, <2>8
<1> QED
  BY <1>14, <1>15 DEF y

-----------------------------------------------------------------------------
(* When one list runs out so has the other. *)
LEMMA EndSettles ==
  ASSUME NEW b, Balanced(b), NEW x, SettleInv(b, x), ~Running(x)
  PROVE  \A u \in DOMAIN b : /\ LeftOf(x.debtors, u) = 0 /\ LeftOf(x.creditors, u) = 0
                             /\ b[u] + PaidIn(x.transfers, u) = ReceivedIn(x.transfers, u)
<1> DEFINE U == DOMAIN b
           d == Left(x.debtors, U)
           c == Left(x.creditors, U)
<1>1. /\ Listed(x.debtors, U) /\ Listed(x.creditors, U)
      /\ x.transfers \in Seq(Transfers(U))
      /\ SumFunction(d) = SumFunction(c)
      /\ IsFiniteSet(U)
  BY DEF SettleInv, Balanced
<1>2. Summable(d, U) /\ Summable(c, U)
  BY <1>1, LeftSummable
<1>3. \A u \in U : /\ d[u] = LeftOf(x.debtors, u) /\ c[u] = LeftOf(x.creditors, u)
                   /\ d[u] >= 0 /\ c[u] >= 0
  BY <1>1, LeftIs DEF Left
<1>4. SumFunction(d) = SumFunctionOnSet(d, U) /\ SumFunction(c) = SumFunctionOnSet(c, U)
  BY DEF SumFunction, Left
<1>5. \/ \A u \in U : d[u] = 0
      \/ \A u \in U : c[u] = 0
  <2>1. ASSUME NEW s, s = <<>>, NEW u PROVE LeftOf(s, u) = 0
    BY <2>1 DEF LeftOf
  <2> QED
    BY <1>3, <2>1 DEF Running
<1> HIDE DEF d, c
<1>6. SumFunctionOnSet(d, U) = 0 /\ SumFunctionOnSet(c, U) = 0
  BY <1>1, <1>4, <1>5, SumZero
<1>7. \A u \in U : d[u] = 0 /\ c[u] = 0
  BY <1>2, <1>3, <1>6, SumNatZero
<1>8. ASSUME NEW u \in U PROVE b[u] + PaidIn(x.transfers, u) = ReceivedIn(x.transfers, u)
  <2>1. b[u] + PaidIn(x.transfers, u) + LeftOf(x.debtors, u)
            = ReceivedIn(x.transfers, u) + LeftOf(x.creditors, u)
    BY DEF SettleInv
  <2>2. b[u] \in Int /\ PaidIn(x.transfers, u) \in Int /\ ReceivedIn(x.transfers, u) \in Int
    BY <1>1, PaidIsInt DEF Balanced
  <2>3. LeftOf(x.debtors, u) = 0 /\ LeftOf(x.creditors, u) = 0
    BY <1>3, <1>7
  <2> QED
    BY <2>1, <2>2, <2>3
<1> QED
  BY <1>3, <1>7, <1>8

(* There are no more transfers than users who are settled.                 *)
LEMMA FewTransfers ==
  ASSUME NEW b, Balanced(b), NEW x, SettleInv(b, x), Few(b, x)
  PROVE  \/ Len(x.transfers) < Cardinality({u \in DOMAIN b : b[u] # 0})
         \/ {u \in DOMAIN b : b[u] # 0} = {}
<1> DEFINE P == {u \in DOMAIN b : b[u] # 0}
           n == Cardinality(P)
           d == Len(x.debtors)
           c == Len(x.creditors)
           k == Len(x.transfers)
<1>1. IsFiniteSet(P)
  BY FS_Subset DEF Balanced
<1>2. n \in Nat /\ (n = 0 => P = {})
  <2> HIDE DEF P
  <2> QED
    BY <1>1, FS_CardinalityType, FS_EmptySet
<1>3. d \in Nat /\ c \in Nat /\ k \in Nat
  BY ListIsFinite DEF SettleInv
<1>4. (d = 0 => x.debtors = <<>>) /\ (c = 0 => x.creditors = <<>>)
  BY ListIsFinite DEF SettleInv
<1>5. k + d + c <= n /\ (x.debtors = <<>> /\ x.creditors = <<>> => n = 0 \/ k < n)
  BY DEF Few
<1> HIDE DEF n, d, c, k
<1>6. k < n \/ n = 0
  BY <1>2, <1>3, <1>4, <1>5
<1> QED
  BY <1>2, <1>6 DEF n, k

-----------------------------------------------------------------------------
(* simplify_debts as a whole: the loop is given as many iterations as the  *)
(* two lists have parties, and no more can run.                            *)

Rest(x) == Len(x.debtors) + Len(x.creditors)

(* A shortened list has one user less.                                     *)
LEMMA RestIs ==
  ASSUME NEW b, NEW x, SettleInv(b, x)
  PROVE  Rest(x) \in Nat /\ (Rest(x) = 0 => x.debtors = <<>> /\ x.creditors = <<>>)
<1> DEFINE d == Len(x.debtors)
           c == Len(x.creditors)
<1>1. Listed(x.debtors, DOMAIN b) /\ Listed(x.creditors, DOMAIN b)
  BY DEF SettleInv
<1>2. /\ d \in Nat /\ (d = 0 <=> x.debtors = <<>>)
      /\ c \in Nat /\ (c = 0 <=> x.creditors = <<>>)
  BY <1>1, ListIsFinite
<1>3. Rest(x) = d + c
  BY DEF Rest
<1> HIDE DEF d, c
<1> QED
  BY <1>2, <1>3

(* An iteration settles at least one of the two heads.                     *)
LEMMA StepSettlesOne ==
  ASSUME NEW b, Balanced(b), NEW x, SettleInv(b, x), Few(b, x), Running(x)
  PROVE  Rest(Step(x)) < Rest(x)
<1> DEFINE U == DOMAIN b
           y == Step(x)
           pay == Pay(x)
           owed == Head(x.debtors)[2]
           due == Head(x.creditors)[2]
<1>1. /\ Listed(x.debtors, U) /\ Listed(x.creditors, U)
      /\ x.debtors # <<>> /\ x.creditors # <<>>
  BY DEF SettleInv, Running
<1>2. owed \in Int /\ owed > 0 /\ due \in Int /\ due > 0
  BY <1>1, HeadIs
<1>3. pay = IF owed < due THEN owed ELSE due
  BY DEF Pay
<1>4. y.debtors = Reduce(x.debtors, pay) /\ y.creditors = Reduce(x.creditors, pay)
  BY DEF Step
<1> HIDE DEF y, pay, owed, due
<1>5. pay \in Int /\ pay > 0 /\ pay <= owed /\ pay <= due /\ (pay = owed \/ pay = due)
  BY <1>2, <1>3
<1>6. Len(y.debtors) = IF owed = pay THEN Len(x.debtors) - 1 ELSE Len(x.debtors)
  BY <1>1, <1>4, <1>5, OneSide DEF owed
<1>7. Len(y.creditors) = IF due = pay THEN Len(x.creditors) - 1 ELSE Len(x.creditors)
  BY <1>1, <1>4, <1>5, OneSide DEF due
<1>8. Len(x.debtors) \in Nat /\ Len(x.creditors) \in Nat
  BY <1>1, ListIsFinite
<1> DEFINE d == Len(x.debtors)
           c == Len(x.creditors)
           d2 == Len(y.debtors)
           c2 == Len(y.creditors)
<1>9. /\ (owed = pay => d2 = d - 1) /\ (owed # pay => d2 = d)
      /\ (due = pay => c2 = c - 1) /\ (due # pay => c2 = c)
  BY <1>6, <1>7
<1>10. Rest(x) = d + c /\ Rest(y) = d2 + c2
  BY DEF Rest
<1>11. d \in Nat /\ c \in Nat
  BY <1>8
<1> HIDE DEF d, c, d2, c2
<1>12. Rest(y) < Rest(x)
  BY <1>5, <1>9, <1>10, <1>11
<1> QED
  BY <1>12 DEF y

Iteration(x) == IF Running(x) THEN Step(x) ELSE x

Pairs(b) == (DOMAIN b) \X {n \in Int : n > 0}

Runs(b) ==
    {x \in [debtors : Seq(Pairs(b)), creditors : Seq(Pairs(b)), transfers : Seq(Transfers(DOMAIN b))] :
        SettleInv(b, x) /\ Few(b, x)}

(* The start is a state of the loop,                                       *)
LEMMA StartRuns == ASSUME NEW b, Balanced(b) PROVE Start(b) \in Runs(b)
<1>1. SettleInv(b, Start(b)) /\ Few(b, Start(b))
  BY StartKeeps
<1>2. Start(b) = [debtors |-> Start(b).debtors, creditors |-> Start(b).creditors,
                  transfers |-> Start(b).transfers]
  BY DEF Start
<1>3. /\ Start(b).debtors \in Seq(Pairs(b)) /\ Start(b).creditors \in Seq(Pairs(b))
      /\ Start(b).transfers \in Seq(Transfers(DOMAIN b))
  BY <1>1 DEF SettleInv, Listed, Pairs
<1>4. Start(b) \in [debtors : Seq(Pairs(b)), creditors : Seq(Pairs(b)),
                    transfers : Seq(Transfers(DOMAIN b))]
  BY <1>2, <1>3
<1> QED
  BY <1>1, <1>4 DEF Runs

(* and an iteration leads from one to the next.                            *)
LEMMA IterationRuns ==
  ASSUME NEW b, Balanced(b), NEW x \in Runs(b)
  PROVE  Iteration(x) \in Runs(b)
<1>1. CASE ~Running(x)
  BY <1>1 DEF Iteration
<1>2. CASE Running(x)
  <2> DEFINE y == Step(x)
  <2>1. SettleInv(b, y) /\ Few(b, y)
    BY <1>2, StepKeeps DEF Runs
  <2>2. y = [debtors |-> y.debtors, creditors |-> y.creditors, transfers |-> y.transfers]
    BY DEF Step
  <2> HIDE DEF y
  <2>3. /\ y.debtors \in Seq(Pairs(b)) /\ y.creditors \in Seq(Pairs(b))
        /\ y.transfers \in Seq(Transfers(DOMAIN b))
    BY <2>1 DEF SettleInv, Listed, Pairs
  <2>4. y \in [debtors : Seq(Pairs(b)), creditors : Seq(Pairs(b)),
               transfers : Seq(Transfers(DOMAIN b))]
    BY <2>2, <2>3
  <2>5. y \in Runs(b)
    BY <2>1, <2>4 DEF Runs
  <2> QED
    BY <1>2, <2>5 DEF Iteration, y
<1> QED
  BY <1>1, <1>2

(* The greatest of some numbers up to a bound exists.                      *)
LEMMA MaxIsIn ==
  ASSUME NEW n \in Nat, NEW T, T \subseteq 1..n, T # {}
  PROVE  Max(T) \in T
<1> DEFINE leq == {ab \in T \X T : ab[1] <= ab[2]}
<1>1. IsFiniteSet(T)
  <2>1. IsFiniteSet(1..n)
    BY FS_Interval
  <2> QED
    BY <2>1, FS_Subset
<1>2. \A a, b \in T : <<a, b>> \in leq <=> a <= b
  OBVIOUS
<1>3. \A a \in T : a \in Int
  OBVIOUS
<1> HIDE DEF leq
<1>4. TotalOrder(leq, T)
  BY <1>2, <1>3 DEF TotalOrder
<1>5. \E m \in T : \A a \in T : <<a, m>> \in leq
  BY <1>1, <1>4, GreatestExists
<1>6. \E m \in T : \A a \in T : m >= a
  BY <1>2, <1>3, <1>5
<1> QED
  BY <1>6 DEF Max

(* g is the iterations' record, by the set of those that are done.         *)
Iterates(g, b, n) ==
    g = [T \in SUBSET (1..n) |-> IF T = {} THEN Start(b) ELSE Iteration(g[T \ {Max(T)}])]

(* SimplifyDebts iterates the loop; its states are the values of a         *)
(* function,                                                               *)
LEMMA IteratesExist ==
  ASSUME NEW b, Balanced(b), NEW n \in Nat
  PROVE  \E g : Iterates(g, b, n)
<1> DEFINE I == 1..n
           V == Runs(b)
           step == [a \in I \X V |-> Iteration(a[2])]
           pick == [T \in SUBSET I |-> Max(T)]
<1>1. step \in [I \X V -> V]
  BY IterationRuns
<1>2. \A i \in I, x \in V : step[<<i, x>>] = Iteration(x)
  OBVIOUS
<1>3. \A T \in SUBSET I : pick[T] = Max(T)
  OBVIOUS
<1>4. \A T \in SUBSET I : T # {} => pick[T] \in T
  BY <1>3, MaxIsIn
<1>5. IsFiniteSet(I) /\ Start(b) \in V
  BY FS_Interval, StartRuns
<1> HIDE DEF step, pick, V
<1>6. Foldable(I, V, Start(b), step, pick)
  BY <1>1, <1>4, <1>5 DEF Foldable
<1>7. PICK g : IsFold(g, I, V, Start(b), step, pick)
  BY <1>6, FoldExists
<1>8. ASSUME NEW T \in SUBSET I
      PROVE  g[T] = IF T = {} THEN Start(b) ELSE Iteration(g[T \ {Max(T)}])
  <2>1. CASE T = {}
    BY <1>7, <2>1 DEF IsFold
  <2>2. CASE T # {}
    <3>1. g[T] = step[<<pick[T], g[T \ {pick[T]}]>>]
      BY <1>7, <2>2 DEF IsFold
    <3>2. pick[T] \in I /\ pick[T] = Max(T)
      BY <1>3, <1>4, <2>2
    <3>3. g[T \ {pick[T]}] \in V
      BY <1>7 DEF IsFold
    <3> QED
      BY <1>2, <2>2, <3>1, <3>2, <3>3
  <2> QED
    BY <2>1, <2>2
<1>9. g = [T \in SUBSET I |-> g[T]]
  BY <1>7 DEF IsFold
<1>10. Iterates(g, b, n)
  <2> HIDE DEF I
  <2>1. g = [T \in SUBSET I |-> IF T = {} THEN Start(b) ELSE Iteration(g[T \ {Max(T)}])]
    BY <1>8, <1>9
  <2> QED
    BY <2>1 DEF Iterates, I
<1> QED
  BY <1>10

(* After k iterations the loop has ended, or k parties are settled.        *)
Advanced(x, b, n, k) == x \in Runs(b) /\ (~Running(x) \/ Rest(x) + k <= n)

(* each has fewer users left than the one before it,                       *)
LEMMA IterationAdvances ==
  ASSUME NEW b, Balanced(b), NEW n \in Nat, NEW k \in Nat, NEW x, Advanced(x, b, n, k)
  PROVE  Advanced(Iteration(x), b, n, k + 1)
<1>1. x \in Runs(b) /\ Iteration(x) \in Runs(b)
  BY IterationRuns DEF Advanced
<1>2. CASE ~Running(x)
  BY <1>1, <1>2 DEF Iteration, Advanced
<1>3. CASE Running(x)
  <2> DEFINE y == Step(x)
  <2>1. y = Iteration(x)
    BY <1>3 DEF Iteration
  <2>2. Rest(y) < Rest(x)
    BY <1>1, <1>3, StepSettlesOne DEF Runs
  <2>3. Rest(x) + k <= n
    BY <1>3 DEF Advanced
  <2> HIDE DEF y
  <2>4. Rest(x) \in Nat /\ Rest(y) \in Nat
    BY <1>1, <2>1, RestIs DEF Runs
  <2>5. Rest(y) + (k + 1) <= n
    BY <2>2, <2>3, <2>4
  <2> QED
    BY <1>1, <2>1, <2>5 DEF Advanced
<1> QED
  BY <1>2, <1>3

(* so the loop ends, and the last state has an empty list.                 *)
LEMMA IteratesEnd ==
  ASSUME NEW b, Balanced(b), NEW n \in Nat, n = Rest(Start(b)), NEW g, Iterates(g, b, n)
  PROVE  g[1..n] \in Runs(b) /\ ~Running(g[1..n])
<1> DEFINE Q == {k \in Nat : k <= n => Advanced(g[1..k], b, n, k)}
<1>1. \A T \in SUBSET (1..n) : g[T] = IF T = {} THEN Start(b) ELSE Iteration(g[T \ {Max(T)}])
  BY DEF Iterates
<1>2. 0 \in Q
  <2>1. 1..0 = {} /\ {} \in SUBSET (1..n)
    OBVIOUS
  <2>2. g[1..0] = Start(b)
    BY <1>1, <2>1
  <2>3. Rest(Start(b)) + 0 <= n
    OBVIOUS
  <2>4. Advanced(Start(b), b, n, 0)
    BY <2>3, StartRuns DEF Advanced
  <2> QED
    BY <2>2, <2>4
<1>3. ASSUME NEW k \in Nat, k \in Q PROVE k + 1 \in Q
  <2> SUFFICES ASSUME k + 1 <= n PROVE Advanced(g[1..(k + 1)], b, n, k + 1)
    OBVIOUS
  <2> DEFINE T == 1..(k + 1)
  <2>1. k <= n
    OBVIOUS
  <2>2. Advanced(g[1..k], b, n, k)
    BY <1>3, <2>1
  <2>3. T \in SUBSET (1..n) /\ T # {} /\ k + 1 \in T
    <3>1. \A i \in T : i \in 1..n
      OBVIOUS
    <3>2. k + 1 \in T
      OBVIOUS
    <3> QED
      BY <3>1, <3>2
  <2>4. Max(T) = k + 1
    <3>1. \A m \in T : (\A i \in T : m >= i) <=> m = k + 1
      OBVIOUS
    <3> HIDE DEF T
    <3> QED
      BY <2>3, <3>1 DEF Max
  <2>5. T \ {k + 1} = 1..k
    OBVIOUS
  <2>6. g[T] = Iteration(g[1..k])
    <3> HIDE DEF T
    <3> QED
      BY <1>1, <2>3, <2>4, <2>5
  <2>7. Advanced(Iteration(g[1..k]), b, n, k + 1)
    BY <2>2, IterationAdvances
  <2> HIDE DEF T
  <2>8. Advanced(g[T], b, n, k + 1)
    BY <2>6, <2>7
  <2> QED
    BY <2>8 DEF T
<1> HIDE DEF Q
<1>4. n \in Q
  BY <1>2, <1>3, InductionOnNat
<1>5. Advanced(g[1..n], b, n, n)
  BY <1>4 DEF Q
<1> DEFINE x == g[1..n]
<1> HIDE DEF x
<1>6. x \in Runs(b) /\ (~Running(x) \/ Rest(x) + n <= n)
  BY <1>5 DEF Advanced, x
<1>7. Rest(x) \in Nat /\ (Rest(x) = 0 => x.debtors = <<>> /\ x.creditors = <<>>)
  BY <1>6, RestIs DEF Runs
<1>8. ~Running(x)
  BY <1>6, <1>7 DEF Running
<1> QED
  BY <1>6, <1>8 DEF x

(* What SimplifyDebts returns is what the loop has paid in a state where   *)
(* it ends.                                                                *)
LEMMA SimplifiedIs ==
  ASSUME NEW b, Balanced(b)
  PROVE  \E n \in Nat : \E g : /\ n = Rest(Start(b)) /\ Iterates(g, b, n)
                               /\ SimplifyDebts(b) = g[1..n].transfers
<1> DEFINE start == Start(b)
           seq == start.debtors \o start.creditors
           n == Rest(start)
           Is(h) == h = [T \in SUBSET (DOMAIN seq) |->
                           IF T = {} THEN start
                           ELSE IF Running(h[T \ {Max(T)}]) THEN Step(h[T \ {Max(T)}])
                                ELSE h[T \ {Max(T)}]]
<1>1. SimplifyDebts(b) = (CHOOSE h : Is(h))[DOMAIN seq].transfers
  BY DEF SimplifyDebts, FoldLeft, MapThenFoldSet
<1>2. n \in Nat /\ DOMAIN seq = 1..n
  <2>1. Listed(start.debtors, DOMAIN b) /\ Listed(start.creditors, DOMAIN b)
    BY StartKeeps DEF SettleInv
  <2> HIDE DEF start
  <2>2. start.debtors \in Seq(Pairs(b)) /\ start.creditors \in Seq(Pairs(b))
    BY <2>1 DEF Listed, Pairs
  <2>3. ASSUME NEW A, NEW d \in Seq(A), NEW c \in Seq(A)
        PROVE  Len(d) + Len(c) \in Nat /\ DOMAIN (d \o c) = 1..(Len(d) + Len(c))
    OBVIOUS
  <2> QED
    BY <2>2, <2>3 DEF Rest
<1>3. \A h : Is(h) <=> Iterates(h, b, n)
  <2> HIDE DEF n, seq
  <2> QED
    BY <1>2 DEF Iterates, Iteration
<1> HIDE DEF Is, n, seq
<1>4. \E h : Is(h)
  BY <1>2, <1>3, IteratesExist
<1>5. Is(CHOOSE h : Is(h))
  BY <1>4
<1> QED
  BY <1>1, <1>2, <1>3, <1>5 DEF n

(* Every balance is settled by the transfers that simplify_debts returns.  *)
THEOREM SimplifiedSettles ==
  ASSUME NEW b, Balanced(b)
  PROVE  /\ SimplifyDebts(b) \in Seq(Transfers(DOMAIN b))
         /\ \A u \in DOMAIN b :
               b[u] + PaidIn(SimplifyDebts(b), u) = ReceivedIn(SimplifyDebts(b), u)
<1>1. PICK n \in Nat : \E g : /\ n = Rest(Start(b)) /\ Iterates(g, b, n)
                              /\ SimplifyDebts(b) = g[1..n].transfers
  BY SimplifiedIs
<1>2. PICK g : /\ n = Rest(Start(b)) /\ Iterates(g, b, n)
               /\ SimplifyDebts(b) = g[1..n].transfers
  BY <1>1
<1>3. g[1..n] \in Runs(b) /\ ~Running(g[1..n])
  BY <1>2, IteratesEnd
<1> DEFINE x == g[1..n]
<1> HIDE DEF x
<1>4. SettleInv(b, x) /\ ~Running(x) /\ SimplifyDebts(b) = x.transfers
  BY <1>2, <1>3 DEF Runs, x
<1>5. x.transfers \in Seq(Transfers(DOMAIN b))
  BY <1>4 DEF SettleInv
<1>6. \A u \in DOMAIN b : b[u] + PaidIn(x.transfers, u) = ReceivedIn(x.transfers, u)
  BY <1>4, EndSettles
<1> QED
  BY <1>4, <1>5, <1>6

-----------------------------------------------------------------------------
(* The loop on balances that sum to zero.                                  *)
LoopInv == Balanced(balances) /\ SettleInv(balances, st) /\ Few(balances, st)

LEMMA LoopKeeps == ASSUME LoopInv, SettleNext PROVE LoopInv'
BY StepKeeps DEF LoopInv, SettleNext

LEMMA LoopSettles == ASSUME LoopInv PROVE SettlesEverybody
<1>1. \A u : Paid(u) = PaidIn(st.transfers, u) /\ Received(u) = ReceivedIn(st.transfers, u)
  BY DEF Paid, Received, PaidIn, ReceivedIn, AmountIn
<1>2. ~Running(st) => \A u \in DOMAIN balances : balances[u] + Paid(u) = Received(u)
  BY <1>1, EndSettles DEF LoopInv
<1>3. Len(st.transfers) < Cardinality(Parties) \/ Parties = {}
  BY FewTransfers DEF LoopInv, Parties
<1> QED
  BY <1>2, <1>3 DEF SettlesEverybody

(* For any finite balances that sum to zero the loop of simplify_debts     *)
(* ends only when everybody is settled, to the cent and in fewer           *)
(* transfers than there are users.                                         *)
THEOREM SettlesToTheCent == SettleSpec => []SettlesEverybody
<1>1. SettleInit => LoopInv
  BY BalancesAssumption, StartKeeps DEF SettleInit, LoopInv
<1>2. LoopInv /\ [SettleNext]_settleVars => LoopInv'
  <2>1. LoopInv /\ UNCHANGED settleVars => LoopInv'
    BY DEF LoopInv, settleVars
  <2> QED
    BY <2>1, LoopKeeps
<1> QED
  BY <1>1, <1>2, LoopSettles, PTL DEF SettleSpec

-----------------------------------------------------------------------------
(* Adding up lists of amounts. *)

(* Adding from the left gives the sum.                                     *)
LEMMA TotalIsSum ==
  ASSUME NEW n \in Nat, NEW s \in [1..n -> Int]
  PROVE  Total(s) = SumFunctionOnSet(s, 1..n)
<1> DEFINE I == 1..n
           Is(h) == h = [T \in SUBSET I |-> IF T = {} THEN 0 ELSE h[T \ {Max(T)}] + s[Max(T)]]
           g == [T \in SUBSET I |-> SumFunctionOnSet(s, T)]
<1>1. Summable(s, I)
  <2>1. IsFiniteSet(1..n)
    BY FS_Interval
  <2> QED
    BY <2>1 DEF Summable
<1>2. \A T \in SUBSET I : T # {} => Max(T) \in T
  BY MaxIsIn
<1>3. \A T \in SUBSET I : SumFunctionOnSet(s, T) \in Int
  BY <1>1, SummableSubset, SumInt
<1>4. ASSUME NEW T \in SUBSET I, T # {}
      PROVE  SumFunctionOnSet(s, T) = SumFunctionOnSet(s, T \ {Max(T)}) + s[Max(T)]
  <2>1. Max(T) \in T /\ Summable(s, T) /\ T \ {Max(T)} \in SUBSET I
    BY <1>1, <1>2, <1>4, SummableSubset
  <2>2. SumFunctionOnSet(s, T) = s[Max(T)] + SumFunctionOnSet(s, T \ {Max(T)})
    BY <2>1, SumRemove
  <2>3. s[Max(T)] \in Int /\ SumFunctionOnSet(s, T \ {Max(T)}) \in Int
    BY <1>3, <2>1
  <2>4. \A a, b \in Int : a + b = b + a
    OBVIOUS
  <2> QED
    BY <2>2, <2>3, <2>4
<1>5. Is(g)
  <2> DEFINE at(T) == IF T = {} THEN 0 ELSE g[T \ {Max(T)}] + s[Max(T)]
  <2>1. ASSUME NEW T \in SUBSET I PROVE SumFunctionOnSet(s, T) = at(T)
    <3>1. CASE T = {}
      BY <3>1, SumEmpty
    <3>2. CASE T # {}
      BY <1>4, <3>2
    <3> QED
      BY <3>1, <3>2
  <2> HIDE DEF at
  <2>2. g = [T \in SUBSET I |-> at(T)]
    BY <2>1
  <2> QED
    BY <2>2 DEF at
<1>6. Total(s) = (CHOOSE h : Is(h))[I]
  <2>1. DOMAIN s = I
    OBVIOUS
  <2> QED
    BY <2>1 DEF Total, FoldLeft, MapThenFoldSet
<1> DEFINE h == CHOOSE k : Is(k)
<1>7. Is(h)
  <2> HIDE DEF Is, g
  <2> QED
    BY <1>5
<1>8. \A T \in SUBSET I : h[T] = IF T = {} THEN 0 ELSE h[T \ {Max(T)}] + s[Max(T)]
  <2> HIDE DEF h
  <2> QED
    BY <1>7
<1> HIDE DEF h, Is
<1> DEFINE Q == {T \in SUBSET I : h[T] = SumFunctionOnSet(s, T)}
<1>9. ASSUME NEW T \in SUBSET I, \A x \in T : T \ {x} \in Q PROVE T \in Q
  <2>1. CASE T = {}
    BY <1>8, <2>1, SumEmpty
  <2>2. CASE T # {}
    <3>1. T \ {Max(T)} \in Q
      BY <1>2, <1>9, <2>2
    <3>2. h[T] = h[T \ {Max(T)}] + s[Max(T)]
      BY <1>8, <2>2
    <3> QED
      BY <1>4, <2>2, <3>1, <3>2
  <2> QED
    BY <2>1, <2>2
<1>10. {} \in Q
  BY <1>8, SumEmpty
<1> HIDE DEF Q
<1>11. I \in Q
  <2>1. \A T \in SUBSET I : T \in Q
    BY <1>1, <1>9, <1>10, FiniteInduction DEF Summable
  <2> QED
    BY <2>1
<1> QED
  BY <1>6, <1>11 DEF Q, h

(* A sum over a set, in the order of a list of it.                         *)
LEMMA SumOverList ==
  ASSUME NEW U, IsFiniteSet(U), NEW s, Lists(s, U), NEW f, \A u \in U : f[u] \in Int,
         NEW g, \A n \in 1..Cardinality(U) : g[n] = f[s[n]]
  PROVE  SumFunctionOnSet(g, 1..Cardinality(U)) = SumFunctionOnSet(f, U)
<1> DEFINE N == 1..Cardinality(U)
<1>1. IsFiniteSet(N)
  <2>1. Cardinality(U) \in Nat
    BY FS_CardinalityType
  <2> QED
    BY <2>1, FS_Interval
<1>2. Summable(g, N) /\ \A n \in N : s[n] \in U
  BY <1>1 DEF Summable, Lists
<1>3. ASSUME NEW u \in U PROVE f[u] = SumFunctionOnSet(g, Class(s, N, u))
  <2>1. PICK n \in N : s[n] = u
    BY DEF Lists
  <2>2. Class(s, N, u) = {n}
    BY <2>1 DEF Lists, Class
  <2>3. SumFunctionOnSet(g, {n}) = g[n]
    <3>1. IsFiniteSet({n}) /\ n \in {n} /\ g[n] \in Int /\ \A y \in {n} : g[y] = IF y = n THEN g[n] ELSE 0
      BY <1>2, <2>1, FS_Singleton DEF Summable
    <3> QED
      BY <3>1, SumSingle
  <2> QED
    BY <2>1, <2>2, <2>3
<1> HIDE DEF N
<1>4. SumFunctionOnSet(f, U) = SumFunctionOnSet(g, N)
  BY <1>2, <1>3, SumByParts
<1> QED
  BY <1>4 DEF N

(* What maps from users to amounts are.                                    *)
Map(map) ==
    /\ IsFiniteSet(DOMAIN map) /\ Ordered(DOMAIN map)
    /\ \A u \in DOMAIN map : map[u] \in Int

(* The values of a map, in the order of its keys,                          *)
LEMMA ValuesAre ==
  ASSUME NEW map, Map(map)
  PROVE  /\ Cardinality(DOMAIN map) \in Nat
         /\ DOMAIN InIdOrder(DOMAIN map) = 1..Cardinality(DOMAIN map)
         /\ Values(map) \in [1..Cardinality(DOMAIN map) -> Int]
         /\ \A n \in 1..Cardinality(DOMAIN map) : Values(map)[n] = map[InIdOrder(DOMAIN map)[n]]
<1> DEFINE U == DOMAIN map
           ids == InIdOrder(U)
<1>1. Lists(ids, U)
  BY IdsInOrder DEF Map
<1> HIDE DEF U, ids
<1>2. Cardinality(U) \in Nat /\ ids \in [1..Cardinality(U) -> U]
  BY <1>1, FS_CardinalityType DEF Lists, Map, U
<1>3. Values(map) = [n \in DOMAIN ids |-> map[ids[n]]]
  BY DEF Values, ids, U
<1>4. \A u \in U : map[u] \in Int
  BY DEF Map, U
<1> QED
  BY <1>2, <1>3, <1>4 DEF ids, U

(* and their sum.                                                          *)
LEMMA TotalOfValues ==
  ASSUME NEW map, Map(map)
  PROVE  Total(Values(map)) = SumFunctionOnSet(map, DOMAIN map)
<1> DEFINE U == DOMAIN map
           ids == InIdOrder(U)
           N == Cardinality(U)
<1>1. Lists(ids, U) /\ IsFiniteSet(U)
  BY IdsInOrder DEF Map
<1>2. /\ N \in Nat /\ Values(map) \in [1..N -> Int]
      /\ \A n \in 1..N : Values(map)[n] = map[ids[n]]
  BY ValuesAre
<1>3. Total(Values(map)) = SumFunctionOnSet(Values(map), 1..N)
  BY <1>2, TotalIsSum
<1>4. \A u \in U : map[u] \in Int
  BY DEF Map
<1> HIDE DEF ids, N
<1>5. SumFunctionOnSet(Values(map), 1..N) = SumFunctionOnSet(map, U)
  BY <1>1, <1>2, <1>4, SumOverList DEF N
<1> QED
  BY <1>3, <1>5

(* Sums of amounts that are not negative never pass the last one.          *)
LEMMA NeverPasses ==
  ASSUME NEW n \in Nat, NEW s \in [1..n -> Int], \A i \in 1..n : s[i] >= 0, Fits(Total(s))
  PROVE  AddsUp(s)
<1>1. s \in Seq(Int) /\ Len(s) = n
  OBVIOUS
<1> SUFFICES ASSUME NEW k \in 0..n PROVE Fits(Total(SubSeq(s, 1, k)))
  BY <1>1 DEF AddsUp
<1> DEFINE p == SubSeq(s, 1, k)
<1>2. p \in [1..k -> Int] /\ \A i \in 1..k : p[i] = s[i]
  <2>1. /\ p \in Seq(Int) /\ Len(p) = IF 1 <= k THEN k - 1 + 1 ELSE 0
        /\ \A i \in 1..(k - 1 + 1) : p[i] = s[1 + i - 1]
    BY <1>1, SubSeqProperties
  <2> HIDE DEF p
  <2>2. Len(p) = k
    BY <2>1
  <2> QED
    BY <2>1, <2>2
<1>3. k \in Nat /\ 1..k \subseteq 1..n /\ (1..n) = (1..k) \cup ((k + 1)..n)
      /\ (1..k) \cap ((k + 1)..n) = {} /\ (k + 1)..n \subseteq 1..n
  OBVIOUS
<1> HIDE DEF p
<1>4. Total(p) = SumFunctionOnSet(p, 1..k) /\ Total(s) = SumFunctionOnSet(s, 1..n)
  BY <1>2, <1>3, TotalIsSum
<1>5. Summable(s, 1..n) /\ Summable(s, 1..k) /\ Summable(s, (k + 1)..n)
  <2>1. Summable(s, 1..n)
    BY FS_Interval DEF Summable
  <2> QED
    BY <1>3, <2>1, SummableSubset
<1>6. SumFunctionOnSet(p, 1..k) = SumFunctionOnSet(s, 1..k)
  BY <1>2, <1>5, SumSame
<1>7. SumFunctionOnSet(s, 1..n) = SumFunctionOnSet(s, 1..k) + SumFunctionOnSet(s, (k + 1)..n)
  BY <1>3, <1>5, SumUnion
<1> DEFINE a == SumFunctionOnSet(s, 1..k)
           b == SumFunctionOnSet(s, (k + 1)..n)
<1>8. a \in Int /\ b \in Int /\ a >= 0 /\ b >= 0
  <2>1. (\A i \in 1..k : s[i] >= 0) /\ \A i \in (k + 1)..n : s[i] >= 0
    BY <1>3
  <2> QED
    BY <1>5, <2>1, SumInt, SumNat
<1>9. Total(p) = a /\ Total(s) = a + b
  BY <1>4, <1>6, <1>7
<1> HIDE DEF a, b
<1>10. Fits(Total(p))
  BY <1>8, <1>9, MoneyAssumption DEF Fits
<1> QED
  BY <1>10 DEF p

(* The same amount for everyone.                                           *)
LEMMA SumOfSame ==
  ASSUME NEW S, IsFiniteSet(S), NEW c \in Int, NEW f, \A x \in S : f[x] = c
  PROVE  SumFunctionOnSet(f, S) = c * Cardinality(S)
<1> DEFINE Q == {T \in SUBSET S : SumFunctionOnSet(f, T) = c * Cardinality(T)}
<1>1. {} \in Q
  BY SumEmpty, FS_EmptySet
<1>2. ASSUME NEW T \in SUBSET S, NEW x \in S, T \in Q, x \notin T PROVE T \cup {x} \in Q
  <2>1. IsFiniteSet(T) /\ Summable(f, T) /\ f[x] = c
    BY FS_Subset DEF Summable
  <2>2. Cardinality(T) \in Nat /\ Cardinality(T \cup {x}) = Cardinality(T) + 1
    BY <1>2, <2>1, FS_CardinalityType, FS_AddElement
  <2>3. SumFunctionOnSet(f, T \cup {x}) = c + c * Cardinality(T)
    BY <1>2, <2>1, SumInsert
  <2>4. \A n \in Nat : c + c * n = c * (n + 1)
    OBVIOUS
  <2> QED
    BY <2>2, <2>3, <2>4
<1> HIDE DEF Q
<1>3. S \in Q
  BY <1>1, <1>2, InductionByInsert
<1> QED
  BY <1>3 DEF Q

(* Amounts that do not pass a bound.                                       *)
LEMMA SumBelow ==
  ASSUME NEW f, NEW S, Summable(f, S), NEW c \in Int, \A x \in S : f[x] <= c
  PROVE  SumFunctionOnSet(f, S) <= c * Cardinality(S)
<1> DEFINE g == [x \in S |-> c - f[x]]
           h == [x \in S |-> c]
<1>1. \A x \in S : g[x] \in Int /\ g[x] >= 0 /\ h[x] = f[x] + g[x] /\ h[x] = c
  BY DEF Summable
<1> HIDE DEF g, h
<1>2. Summable(g, S) /\ IsFiniteSet(S)
  BY <1>1 DEF Summable
<1>3. SumFunctionOnSet(h, S) = SumFunctionOnSet(f, S) + SumFunctionOnSet(g, S)
  BY <1>1, <1>2, SumAdd
<1>4. SumFunctionOnSet(h, S) = c * Cardinality(S)
  BY <1>1, <1>2, SumOfSame
<1>5. /\ SumFunctionOnSet(f, S) \in Int /\ SumFunctionOnSet(g, S) \in Int
      /\ SumFunctionOnSet(g, S) >= 0
  BY <1>1, <1>2, SumInt, SumNat
<1> QED
  BY <1>3, <1>4, <1>5

(* The first i of some places have a cent each.                            *)
LEMMA FirstOnes ==
  ASSUME NEW n \in Nat, NEW i \in Nat, i <= n, NEW g, \A k \in 1..n : g[k] = IF k <= i THEN 1 ELSE 0
  PROVE  SumFunctionOnSet(g, 1..n) = i
<1>1. /\ Summable(g, 1..n) /\ 1..i \subseteq 1..n /\ \A k \in (1..n) \ (1..i) : g[k] = 0
      /\ \A k \in 1..i : g[k] = 1
  <2>1. IsFiniteSet(1..n)
    BY FS_Interval
  <2>2. \A k \in 1..n : g[k] \in Int /\ (k \in 1..i <=> k <= i)
    OBVIOUS
  <2>3. 1..i \subseteq 1..n
    OBVIOUS
  <2> QED
    BY <2>1, <2>2, <2>3 DEF Summable
<1>2. SumFunctionOnSet(g, 1..i) = SumFunctionOnSet(g, 1..n)
  BY <1>1, SumNonZero
<1>3. IsFiniteSet(1..i) /\ Cardinality(1..i) = i
  BY FS_Interval
<1>4. SumFunctionOnSet(g, 1..i) = 1 * Cardinality(1..i)
  BY <1>1, <1>3, SumOfSame
<1> QED
  BY <1>2, <1>3, <1>4

(* A factor taken out of a sum.                                            *)
LEMMA SumTimes ==
  ASSUME NEW f, NEW S, Summable(f, S), NEW c \in Int, NEW g, \A x \in S : g[x] = c * f[x]
  PROVE  SumFunctionOnSet(g, S) = c * SumFunctionOnSet(f, S)
<1> DEFINE Q == {T \in SUBSET S : SumFunctionOnSet(g, T) = c * SumFunctionOnSet(f, T)}
<1>1. {} \in Q
  BY SumEmpty
<1>2. ASSUME NEW T \in SUBSET S, NEW x \in S, T \in Q, x \notin T PROVE T \cup {x} \in Q
  <2>1. Summable(f, T) /\ f[x] \in Int /\ SumFunctionOnSet(f, T) \in Int
    BY SummableSubset, SumInt DEF Summable
  <2>2. \A n \in Int : c * n \in Int
    OBVIOUS
  <2>3. Summable(g, T) /\ g[x] = c * f[x] /\ g[x] \in Int
    BY <2>1, <2>2 DEF Summable
  <2>4. /\ SumFunctionOnSet(f, T \cup {x}) = f[x] + SumFunctionOnSet(f, T)
        /\ SumFunctionOnSet(g, T \cup {x}) = g[x] + SumFunctionOnSet(g, T)
    BY <1>2, <2>1, <2>3, SumInsert
  <2>5. \A a, b \in Int : c * a + c * b = c * (a + b)
    OBVIOUS
  <2>6. SumFunctionOnSet(g, T) = c * SumFunctionOnSet(f, T)
    BY <1>2
  <2>7. SumFunctionOnSet(g, T \cup {x}) = c * SumFunctionOnSet(f, T \cup {x})
    BY <2>1, <2>3, <2>4, <2>5, <2>6
  <2> QED
    BY <2>7
<1> HIDE DEF Q
<1>3. S \in Q
  BY <1>1, <1>2, InductionByInsert DEF Summable
<1> QED
  BY <1>3 DEF Q

-----------------------------------------------------------------------------
(* split_by_weights: a total n, divided by the weights w.                  *)

Weights(w) ==
    /\ IsFiniteSet(DOMAIN w) /\ Ordered(DOMAIN w)
    /\ \A u \in DOMAIN w : w[u] \in Nat
    /\ TotalWeight(w) > 0

Floors(n, w) == [u \in DOMAIN w |-> (n * w[u]) \div TotalWeight(w)]
Remainders(n, w) == [u \in DOMAIN w |-> (n * w[u]) % TotalWeight(w)]
Uneven(n, w) == {u \in DOMAIN w : Remainders(n, w)[u] > 0}

(* Rounding down: quotient and remainder.                                  *)
LEMMA RoundedDown ==
  ASSUME NEW n \in Nat, NEW w, Weights(w)
  PROVE  /\ TotalWeight(w) \in Nat
         /\ \A u \in DOMAIN w :
               /\ Floors(n, w)[u] \in Nat /\ Remainders(n, w)[u] \in Nat
               /\ Remainders(n, w)[u] < TotalWeight(w)
               /\ n * w[u] = TotalWeight(w) * Floors(n, w)[u] + Remainders(n, w)[u]
<1> DEFINE W == TotalWeight(w)
<1>1. W \in Int /\ W > 0
  <2>1. Summable(w, DOMAIN w)
    BY DEF Weights, Summable
  <2> QED
    BY <2>1, SumInt DEF Weights, TotalWeight, SumFunction
<1> HIDE DEF W
<1>2. \A a \in Nat : /\ a \div W \in Nat /\ a % W \in Nat /\ a % W < W
                     /\ a = W * (a \div W) + (a % W)
  BY <1>1
<1>3. ASSUME NEW u \in DOMAIN w
      PROVE  /\ Floors(n, w)[u] \in Nat /\ Remainders(n, w)[u] \in Nat
             /\ Remainders(n, w)[u] < W
             /\ n * w[u] = W * Floors(n, w)[u] + Remainders(n, w)[u]
  <2> DEFINE a == n * w[u]
  <2>1. a \in Nat
    <3>1. w[u] \in Nat
      BY DEF Weights
    <3> QED
      BY <3>1
  <2>2. Floors(n, w)[u] = a \div W /\ Remainders(n, w)[u] = a % W
    BY DEF Floors, Remainders, W
  <2> HIDE DEF a
  <2>3. /\ Floors(n, w)[u] \in Nat /\ Remainders(n, w)[u] \in Nat
        /\ Remainders(n, w)[u] < W
        /\ a = W * Floors(n, w)[u] + Remainders(n, w)[u]
    BY <1>2, <2>1, <2>2
  <2> QED
    BY <2>3 DEF a
<1> QED
  BY <1>1, <1>3 DEF W

(* Less is left over than there are remainders.                            *)
LEMMA LeftoverIs ==
  ASSUME NEW n \in Nat, NEW w, Weights(w),
         NEW l, l = n - SumFunction(Floors(n, w))
  PROVE  /\ l \in Nat /\ SumFunction(Floors(n, w)) \in Nat
         /\ l = 0 \/ l < Cardinality(Uneven(n, w))
         /\ IsFiniteSet(Uneven(n, w)) /\ Cardinality(Uneven(n, w)) <= Cardinality(DOMAIN w)
<1> DEFINE U == DOMAIN w
           W == TotalWeight(w)
           F == Floors(n, w)
           R == Remainders(n, w)
           P == Uneven(n, w)
           WF == [u \in U |-> W * F[u]]
           nw == [u \in U |-> n * w[u]]
           sF == SumFunctionOnSet(F, U)
           sR == SumFunctionOnSet(R, U)
<1>1. W \in Nat /\ W > 0 /\ IsFiniteSet(U)
  BY RoundedDown DEF Weights
<1>2. \A u \in U : /\ F[u] \in Nat /\ R[u] \in Nat /\ R[u] < W /\ w[u] \in Nat
                   /\ nw[u] = WF[u] + R[u] /\ WF[u] = W * F[u] /\ nw[u] = n * w[u]
                   /\ WF[u] \in Int /\ nw[u] \in Int
  <2>1. \A u \in U : F[u] \in Nat /\ w[u] \in Nat
    BY RoundedDown DEF Weights
  <2>2. \A a, b \in Nat : a * b \in Int
    OBVIOUS
  <2>3. \A u \in U : WF[u] = W * F[u] /\ nw[u] = n * w[u]
    OBVIOUS
  <2> HIDE DEF WF, nw, F, R, W
  <2>4. \A u \in U : WF[u] \in Int /\ nw[u] \in Int
    BY <1>1, <2>1, <2>2, <2>3
  <2> QED
    BY <2>1, <2>3, <2>4, RoundedDown DEF F, R, W
<1>3. P = {u \in U : R[u] > 0} /\ SumFunction(F) = sF /\ W = SumFunctionOnSet(w, U)
  <2>1. DOMAIN F = U
    BY DEF Floors
  <2> QED
    BY <2>1 DEF Uneven, SumFunction, TotalWeight
<1>4. l = n - sF
  BY <1>3
<1> HIDE DEF U, W, F, R, P, WF, nw
<1>5. /\ Summable(w, U) /\ Summable(F, U) /\ Summable(R, U)
      /\ Summable(WF, U) /\ Summable(nw, U)
  BY <1>1, <1>2 DEF Summable
<1>6. SumFunctionOnSet(nw, U) = n * W
  BY <1>2, <1>3, <1>5, SumTimes
<1>7. SumFunctionOnSet(WF, U) = W * sF
  BY <1>1, <1>2, <1>5, SumTimes
<1>8. SumFunctionOnSet(nw, U) = SumFunctionOnSet(WF, U) + sR
  BY <1>2, <1>5, SumAdd
<1>9. sF \in Int /\ sF >= 0 /\ sR \in Int /\ sR >= 0
  <2>1. (\A u \in U : F[u] >= 0) /\ \A u \in U : R[u] >= 0
    BY <1>2
  <2> QED
    BY <1>5, <2>1, SumInt, SumNat
<1>10. IsFiniteSet(P) /\ P \subseteq U /\ Cardinality(P) <= Cardinality(U) /\ Cardinality(P) \in Nat
  BY <1>1, <1>3, FS_Subset, FS_CardinalityType
<1>11. sR <= (W - 1) * Cardinality(P)
  <2>1. SumFunctionOnSet(R, P) = sR
    <3>1. \A u \in U \ P : R[u] = 0
      BY <1>2, <1>3
    <3> QED
      BY <1>5, <1>10, <3>1, SumNonZero
  <2>2. Summable(R, P)
    BY <1>5, <1>10, SummableSubset
  <2>3. W - 1 \in Int /\ \A u \in P : R[u] <= W - 1
    BY <1>1, <1>2, <1>10
  <2>4. SumFunctionOnSet(R, P) <= (W - 1) * Cardinality(P)
    BY <2>2, <2>3, SumBelow
  <2> QED
    BY <2>1, <2>4
<1> DEFINE p == Cardinality(P)
<1>12. n * W = W * sF + sR
  BY <1>6, <1>7, <1>8
<1>13. l \in Int
  BY <1>4, <1>9
<1>14. W * l = sR
  <2> HIDE DEF sF, sR
  <2> QED
    BY <1>1, <1>4, <1>9, <1>12
<1> HIDE DEF sF, sR, p
<1>15. l >= 0
  BY <1>1, <1>9, <1>13, <1>14
<1>16. l = 0 \/ l < p
  <2> SUFFICES ASSUME l # 0, l >= p PROVE FALSE
    BY <1>10, <1>13 DEF p
  <2>1. p \in Nat /\ W * l <= (W - 1) * p
    BY <1>10, <1>11, <1>14 DEF p
  <2>2. W * p <= W * l
    BY <1>1, <1>13, <2>1
  <2>3. (W - 1) * p = W * p - p
    BY <1>1, <2>1
  <2>4. W * p \in Int /\ W * l \in Int
    BY <1>1, <1>13, <2>1
  <2>5. p = 0
    BY <2>1, <2>2, <2>3, <2>4
  <2>6. W * l <= 0
    BY <2>1, <2>5, <1>1
  <2> QED
    BY <1>1, <1>13, <1>15, <2>6
<1> QED
  BY <1>3, <1>9, <1>10, <1>13, <1>15, <1>16 DEF F, P, U, p

(* The order in which the cents left over are given out.                   *)
Before(n, w, u, v) ==
    \/ Remainders(n, w)[u] > Remainders(n, w)[v]
    \/ Remainders(n, w)[u] = Remainders(n, w)[v] /\ UserLeq(u, v)

Queue(n, w) == WeightedStart(n, w).order
Leftover(n, w) == WeightedStart(n, w).leftover

(* The loop starts with the shares rounded down.                           *)
LEMMA WeightedStartIs ==
  ASSUME NEW n, NEW w
  PROVE  WeightedStart(n, w) = [owed |-> Floors(n, w), order |-> Queue(n, w),
                                leftover |-> n - SumFunction(Floors(n, w)), i |-> 0]
BY DEF WeightedStart, Queue, Floors

(* Everybody is in the queue once, the larger remainders first.            *)
LEMMA QueueIs ==
  ASSUME NEW n \in Nat, NEW w, Weights(w)
  PROVE  /\ Lists(Queue(n, w), DOMAIN w)
         /\ \A i, j \in 1..Cardinality(DOMAIN w) :
               i < j => Remainders(n, w)[Queue(n, w)[j]] <= Remainders(n, w)[Queue(n, w)[i]]
<1> DEFINE U == DOMAIN w
           R == {p \in U \X U : Before(n, w, p[1], p[2])}
           N == 1..Cardinality(U)
<1>1. \A u, v \in U : <<u, v>> \in R <=> Before(n, w, u, v)
  OBVIOUS
<1>2. \A u \in U : {v \in U : <<v, u>> \in R} = {v \in U : Before(n, w, v, u)}
  BY <1>1
<1>3. \A u \in U : Remainders(n, w)[u] \in Nat
  BY RoundedDown
<1>4. OrderOn(R, U)
  <2>1. Ordered(U)
    BY DEF Weights
  <2> HIDE DEF R, U
  <2>2. ASSUME NEW u \in U, NEW v \in U
        PROVE  /\ Before(n, w, u, v) \/ Before(n, w, v, u)
               /\ Before(n, w, u, v) /\ Before(n, w, v, u) => u = v
    BY <1>3, <2>1 DEF Ordered, Before
  <2>3. ASSUME NEW u \in U, NEW v \in U, NEW x \in U, Before(n, w, u, v), Before(n, w, v, x)
        PROVE  Before(n, w, u, x)
    BY <1>3, <2>1, <2>3 DEF Ordered, Before
  <2> QED
    BY <1>1, <2>2, <2>3 DEF OrderOn
<1>5. \A u \in U : Remainders(n, w)[u] = (n * w[u]) % TotalWeight(w)
  BY DEF Remainders
<1> DEFINE Ahead(u) == {v \in U : \/ (n * w[v]) % TotalWeight(w) > (n * w[u]) % TotalWeight(w)
                                  \/ (n * w[v]) % TotalWeight(w) = (n * w[u]) % TotalWeight(w)
                                        /\ UserLeq(v, u)}
<1>6. Queue(n, w) = [k \in N |-> CHOOSE u \in U : Cardinality(Ahead(u)) = k]
  BY DEF Queue, WeightedStart, InOrder
<1>7. \A u \in U : Ahead(u) = {v \in U : <<v, u>> \in R}
  BY <1>2, <1>5 DEF Before
<1> HIDE DEF R, Ahead
<1>8. Queue(n, w) = InOrderOf(R, U)
  <2>1. \A k : (CHOOSE u \in U : Cardinality(Ahead(u)) = k)
                  = (CHOOSE u \in U : Cardinality({v \in U : <<v, u>> \in R}) = k)
    BY <1>7
  <2> QED
    BY <1>6, <2>1 DEF InOrderOf
<1>9. /\ Lists(Queue(n, w), U)
      /\ \A i, j \in N : i < j => <<Queue(n, w)[i], Queue(n, w)[j]>> \in R
  <2>1. IsFiniteSet(U)
    BY DEF Weights
  <2> QED
    BY <1>4, <1>8, <2>1, OrderLists
<1>10. ASSUME NEW i \in N, NEW j \in N, i < j
       PROVE  Remainders(n, w)[Queue(n, w)[j]] <= Remainders(n, w)[Queue(n, w)[i]]
  <2>1. Queue(n, w)[i] \in U /\ Queue(n, w)[j] \in U
    BY <1>9 DEF Lists
  <2>2. Before(n, w, Queue(n, w)[i], Queue(n, w)[j])
    BY <1>1, <1>9, <1>10, <2>1
  <2>3. Remainders(n, w)[Queue(n, w)[i]] \in Nat /\ Remainders(n, w)[Queue(n, w)[j]] \in Nat
    BY <1>3, <2>1
  <2> QED
    BY <2>2, <2>3 DEF Before
<1> QED
  BY <1>9, <1>10

(* Those who get a cent have a remainder.                                  *)
LEMMA UnevenFirst ==
  ASSUME NEW n \in Nat, NEW w, Weights(w), NEW k \in 1..Cardinality(Uneven(n, w))
  PROVE  k \in 1..Cardinality(DOMAIN w) /\ Remainders(n, w)[Queue(n, w)[k]] > 0
<1> DEFINE U == DOMAIN w
           P == Uneven(n, w)
           q == Queue(n, w)
           R == Remainders(n, w)
           place == [u \in P |-> CHOOSE m \in 1..Cardinality(U) : q[m] = u]
<1>1. /\ IsFiniteSet(P) /\ Cardinality(P) <= Cardinality(U) /\ Cardinality(P) \in Nat
      /\ Cardinality(U) \in Nat
  BY LeftoverIs, FS_CardinalityType DEF Weights
<1>2. k \in 1..Cardinality(U) /\ k \in Nat
  BY <1>1
<1>3. Lists(q, U) /\ \A i, j \in 1..Cardinality(U) : i < j => R[q[j]] <= R[q[i]]
  BY QueueIs
<1>4. (\A u \in U : R[u] \in Nat) /\ P = {u \in U : R[u] > 0}
  BY RoundedDown DEF Uneven
<1> HIDE DEF U, P, q, R
<1> SUFFICES ASSUME ~(R[q[k]] > 0) PROVE FALSE
  BY <1>2 DEF U, q, R
<1>5. \A u \in P : place[u] \in 1..Cardinality(U) /\ q[place[u]] = u
  <2>1. \A u \in P : \E m \in 1..Cardinality(U) : q[m] = u
    BY <1>3, <1>4 DEF Lists
  <2> QED
    BY <2>1
<1> HIDE DEF place
<1>6. ASSUME NEW u \in P PROVE place[u] \in 1..(k - 1)
  <2>1. R[q[place[u]]] > 0 /\ place[u] \in 1..Cardinality(U)
    BY <1>4, <1>5
  <2>2. q[k] \in U /\ q[place[u]] \in U
    BY <1>2, <1>3, <2>1 DEF Lists
  <2>3. R[q[k]] = 0 /\ R[q[place[u]]] \in Nat
    BY <1>4, <2>2
  <2>4. place[u] # k
    BY <2>1, <2>3
  <2>5. ~(k < place[u])
    BY <1>2, <1>3, <2>1, <2>3
  <2> QED
    BY <1>2, <2>1, <2>4, <2>5
<1>7. place \in Injection(P, 1..(k - 1))
  <2>1. place = [u \in P |-> place[u]]
    BY DEF place
  <2> QED
    BY <1>5, <1>6, <2>1 DEF Injection, IsInjective
<1>8. IsFiniteSet(1..(k - 1)) /\ Cardinality(1..(k - 1)) = k - 1
  <2>1. 1 \in Int /\ k - 1 \in Int /\ k >= 1
    BY <1>2
  <2>2. /\ IsFiniteSet(1..(k - 1))
        /\ Cardinality(1..(k - 1)) = IF 1 > k - 1 THEN 0 ELSE (k - 1) - 1 + 1
    BY <2>1, FS_Interval
  <2> QED
    BY <2>1, <2>2
<1>9. Cardinality(P) <= k - 1
  BY <1>7, <1>8, FS_Injection
<1> QED
  BY <1>1, <1>9 DEF P

(* The state of the loop after i cents are given out.                      *)
Cent(n, w, i, u) == IF \E k \in 1..i : Queue(n, w)[k] = u THEN 1 ELSE 0

Given(n, w, i) ==
    [owed     |-> [u \in DOMAIN w |-> Floors(n, w)[u] + Cent(n, w, i, u)],
     order    |-> Queue(n, w),
     leftover |-> Leftover(n, w) - i,
     i        |-> i]

(* There are at least as many users as cents left over.                    *)
LEMMA LeftoverIn ==
  ASSUME NEW n \in Nat, NEW w, Weights(w)
  PROVE  /\ Leftover(n, w) = n - SumFunction(Floors(n, w))
         /\ Leftover(n, w) \in Nat /\ Leftover(n, w) <= Cardinality(DOMAIN w)
         /\ Leftover(n, w) <= Cardinality(Uneven(n, w)) /\ Cardinality(DOMAIN w) \in Nat
<1>1. Leftover(n, w) = n - SumFunction(Floors(n, w))
  BY WeightedStartIs DEF Leftover
<1>2. /\ Leftover(n, w) \in Nat
      /\ Leftover(n, w) = 0 \/ Leftover(n, w) < Cardinality(Uneven(n, w))
      /\ IsFiniteSet(Uneven(n, w)) /\ Cardinality(Uneven(n, w)) <= Cardinality(DOMAIN w)
  BY <1>1, LeftoverIs
<1>3. Cardinality(Uneven(n, w)) \in Nat /\ Cardinality(DOMAIN w) \in Nat
  BY <1>2, FS_CardinalityType DEF Weights
<1> QED
  BY <1>1, <1>2, <1>3

(* The loop starts with none given out,                                    *)
LEMMA GivenAtFirst ==
  ASSUME NEW n \in Nat, NEW w, Weights(w)
  PROVE  WeightedStart(n, w) = Given(n, w, 0)
<1>1. \A u \in DOMAIN w : Floors(n, w)[u] + Cent(n, w, 0, u) = Floors(n, w)[u]
  <2>1. \A u \in DOMAIN w : Floors(n, w)[u] \in Nat /\ Cent(n, w, 0, u) = 0
    BY RoundedDown DEF Cent
  <2> QED
    BY <2>1
<1>2. Floors(n, w) = [u \in DOMAIN w |-> Floors(n, w)[u] + Cent(n, w, 0, u)]
  BY <1>1 DEF Floors
<1>3. Leftover(n, w) = Leftover(n, w) - 0 /\ Leftover(n, w) = n - SumFunction(Floors(n, w))
  BY LeftoverIn
<1> QED
  BY <1>2, <1>3, WeightedStartIs DEF Given

(* and an iteration gives out one more.                                    *)
LEMMA GivenNext ==
  ASSUME NEW n \in Nat, NEW w, Weights(w), NEW i \in Nat, i < Leftover(n, w)
  PROVE  HandOut(Given(n, w, i)) = Given(n, w, i + 1)
<1> DEFINE U == DOMAIN w
           q == Queue(n, w)
           F == Floors(n, w)
           N == Cardinality(U)
           sp1 == Given(n, w, i)
           u1 == q[i + 1]
<1>1. Lists(q, U) /\ \A u \in U : F[u] \in Nat
  BY QueueIs, RoundedDown
<1>2. N \in Nat /\ i < N /\ i + 1 \in 1..N /\ Leftover(n, w) \in Nat
  BY LeftoverIn
<1>3. Len(q) = N /\ DOMAIN q = 1..N /\ u1 \in U
  BY <1>1, <1>2 DEF Lists
<1>4. Receiver(sp1) = u1
  <2>1. i % N = i
    BY <1>2
  <2>2. sp1.order = q /\ sp1.i = i
    BY DEF Given
  <2> QED
    BY <1>3, <2>1, <2>2 DEF Receiver
<1>5. ASSUME NEW u \in U
      PROVE  F[u] + Cent(n, w, i + 1, u) = IF u = u1 THEN F[u] + Cent(n, w, i, u) + 1
                                           ELSE F[u] + Cent(n, w, i, u)
  <2>1. \A k : k \in 1..(i + 1) <=> k \in 1..i \/ k = i + 1
    OBVIOUS
  <2>2. Cent(n, w, i, u1) = 0
    <3>1. \A k \in 1..i : q[k] # u1
      BY <1>1, <1>2 DEF Lists
    <3> QED
      BY <3>1 DEF Cent
  <2>3. CASE u = u1
    BY <1>1, <2>1, <2>2, <2>3 DEF Cent
  <2>4. CASE u # u1
    <3>1. Cent(n, w, i + 1, u) = Cent(n, w, i, u)
      BY <2>1, <2>4 DEF Cent
    <3> QED
      BY <2>4, <3>1
  <2> QED
    BY <2>3, <2>4
<1> DEFINE owed1 == [u \in U |-> F[u] + Cent(n, w, i, u)]
           owed2 == [u \in U |-> F[u] + Cent(n, w, i + 1, u)]
<1>6. [owed1 EXCEPT ![u1] = @ + 1] = owed2
  <2>1. \A u \in U : owed1[u] = F[u] + Cent(n, w, i, u) /\ owed2[u] = F[u] + Cent(n, w, i + 1, u)
    OBVIOUS
  <2>2. \A u \in U : owed2[u] = IF u = u1 THEN owed1[u] + 1 ELSE owed1[u]
    BY <1>5, <2>1
  <2>3. DOMAIN owed1 = U /\ owed2 = [u \in U |-> owed2[u]]
    OBVIOUS
  <2> HIDE DEF owed1, owed2, u1
  <2> QED
    BY <1>3, <2>2, <2>3
<1>7. sp1 = [owed |-> owed1, order |-> q, leftover |-> Leftover(n, w) - i, i |-> i]
  BY DEF Given
<1>8. HandOut(sp1) = [owed |-> [owed1 EXCEPT ![u1] = @ + 1], order |-> q,
                      leftover |-> Leftover(n, w) - i - 1, i |-> i + 1]
  <2> DEFINE d == Leftover(n, w) - i
  <2>1. HandOut(sp1) = [sp1 EXCEPT !.owed = [sp1.owed EXCEPT ![u1] = @ + 1],
                                   !.leftover = @ - 1, !.i = @ + 1]
    <3> HIDE DEF sp1, u1
    <3> QED
      BY <1>4 DEF HandOut
  <2> HIDE DEF owed1, owed2, u1, q, sp1, d
  <2>2. sp1 = [owed |-> owed1, order |-> q, leftover |-> d, i |-> i]
    BY <1>7 DEF d
  <2>3. HandOut(sp1) = [owed |-> [owed1 EXCEPT ![u1] = @ + 1], order |-> q,
                        leftover |-> d - 1, i |-> i + 1]
    BY <2>1, <2>2
  <2> QED
    BY <2>3 DEF d
<1>9. Leftover(n, w) - i - 1 = Leftover(n, w) - (i + 1)
  BY <1>2
<1> QED
  BY <1>6, <1>8, <1>9 DEF Given

(* What is owed after i cents adds up to i more than the shares rounded    *)
(* down.                                                                   *)
LEMMA GivenSum ==
  ASSUME NEW n \in Nat, NEW w, Weights(w), NEW i \in Nat, i <= Leftover(n, w)
  PROVE  /\ Map(Given(n, w, i).owed) /\ DOMAIN Given(n, w, i).owed = DOMAIN w
         /\ \A u \in DOMAIN w : Given(n, w, i).owed[u] >= 0
         /\ SumFunctionOnSet(Given(n, w, i).owed, DOMAIN w) = SumFunction(Floors(n, w)) + i
<1> DEFINE U == DOMAIN w
           q == Queue(n, w)
           F == Floors(n, w)
           N == Cardinality(U)
           owed == Given(n, w, i).owed
           c == [u \in U |-> Cent(n, w, i, u)]
           g == [k \in 1..N |-> c[q[k]]]
<1>1. Lists(q, U) /\ (\A u \in U : F[u] \in Nat) /\ DOMAIN F = U /\ IsFiniteSet(U) /\ Ordered(U)
  BY QueueIs, RoundedDown DEF Floors, Weights
<1>2. N \in Nat /\ i <= N
  BY LeftoverIn
<1>3. owed = [u \in U |-> F[u] + c[u]] /\ \A u \in U : c[u] \in {0, 1}
  BY DEF Given, Cent
<1>4. \A u \in U : c[u] = IF \E k \in 1..i : q[k] = u THEN 1 ELSE 0
  BY DEF Cent
<1>5. \A k \in 1..N : g[k] = c[q[k]]
  OBVIOUS
<1> HIDE DEF U, q, F, N, owed, c, g
<1>6. \A k \in 1..N : g[k] = IF k <= i THEN 1 ELSE 0
  <2> SUFFICES ASSUME NEW k \in 1..N PROVE g[k] = IF k <= i THEN 1 ELSE 0
    OBVIOUS
  <2>1. q[k] \in U /\ \A j \in 1..N : q[j] = q[k] => j = k
    BY <1>1 DEF Lists, N
  <2>2. k \in Int /\ k >= 1 /\ \A j \in 1..i : j \in 1..N
    BY <1>2
  <2>3. (\E j \in 1..i : q[j] = q[k]) <=> k <= i
    BY <2>1, <2>2
  <2> QED
    BY <1>4, <1>5, <2>1, <2>3
<1>7. SumFunctionOnSet(g, 1..N) = SumFunctionOnSet(c, U)
  <2>1. \A u \in U : c[u] \in Int
    BY <1>3
  <2> QED
    BY <1>1, <1>5, <2>1, SumOverList DEF N
<1>8. SumFunctionOnSet(g, 1..N) = i
  BY <1>2, <1>6, FirstOnes
<1>9. \A u \in U : owed[u] = F[u] + c[u] /\ owed[u] \in Int /\ owed[u] >= 0
  BY <1>1, <1>3
<1>10. SumFunctionOnSet(owed, U) = SumFunctionOnSet(F, U) + SumFunctionOnSet(c, U)
  <2>1. Summable(F, U) /\ Summable(c, U)
    BY <1>1, <1>3 DEF Summable
  <2> QED
    BY <1>9, <2>1, SumAdd
<1>11. SumFunction(F) = SumFunctionOnSet(F, U) /\ DOMAIN owed = U
  BY <1>1, <1>3 DEF SumFunction
<1>12. Map(owed)
  BY <1>1, <1>9, <1>11 DEF Map
<1> QED
  BY <1>7, <1>8, <1>9, <1>10, <1>11, <1>12 DEF owed, F, U

(* All the cents given out: nobody is a cent or more off, and who weighs   *)
(* more owes no less.                                                      *)
LEMMA GivenFairly ==
  ASSUME NEW n \in Nat, n > 0, NEW w, Weights(w), NEW owed, owed = Given(n, w, Leftover(n, w)).owed,
         NEW u \in DOMAIN w
  PROVE  /\ Abs(TotalWeight(w) * owed[u] - n * w[u]) < TotalWeight(w)
         /\ \A v \in DOMAIN w : w[v] < w[u] => owed[v] <= owed[u]
<1> DEFINE U == DOMAIN w
           W == TotalWeight(w)
           F == Floors(n, w)
           R == Remainders(n, w)
           q == Queue(n, w)
           l == Leftover(n, w)
           c == [x \in U |-> Cent(n, w, l, x)]
<1>1. W \in Nat /\ W > 0
  BY RoundedDown DEF Weights
<1>2. \A x \in U : /\ F[x] \in Nat /\ R[x] \in Nat /\ R[x] < W /\ w[x] \in Nat
                   /\ n * w[x] = W * F[x] + R[x]
                   /\ c[x] \in {0, 1} /\ owed[x] = F[x] + c[x]
  <2>1. \A x \in U : c[x] \in {0, 1} /\ owed[x] = F[x] + c[x]
    BY DEF Given, Cent
  <2>2. \A x \in U : w[x] \in Nat
    BY DEF Weights
  <2> HIDE DEF c
  <2> QED
    BY <2>1, <2>2, RoundedDown
<1>3. \A x \in U : c[x] = 1 <=> \E k \in 1..l : q[k] = x
  BY DEF Cent
<1>4. l \in Nat /\ l <= Cardinality(Uneven(n, w)) /\ l <= Cardinality(U) /\ Cardinality(U) \in Nat
      /\ Cardinality(Uneven(n, w)) \in Nat
  BY LeftoverIn, LeftoverIs, FS_CardinalityType
<1>5. Lists(q, U) /\ \A i, j \in 1..Cardinality(U) : i < j => R[q[j]] <= R[q[i]]
  BY QueueIs
<1> HIDE DEF U, W, F, R, q, l, c
<1>6. \A x \in U : c[x] = 1 => R[x] > 0
  <2> SUFFICES ASSUME NEW k \in 1..l PROVE R[q[k]] > 0
    BY <1>3
  <2>1. k \in 1..Cardinality(Uneven(n, w))
    BY <1>4
  <2> QED
    BY <2>1, UnevenFirst DEF R, q
<1>7. Abs(W * owed[u] - n * w[u]) < W
  <2> DEFINE f == F[u]
             r == R[u]
             e == c[u]
             wf == W * f
  <2>1. u \in U
    BY DEF U
  <2>2. /\ f \in Nat /\ r \in Nat /\ r < W /\ e \in {0, 1} /\ (e = 1 => r > 0)
        /\ n * w[u] = W * f + r /\ owed[u] = f + e
    BY <1>2, <1>6, <2>1
  <2> HIDE DEF f, r, e
  <2>3. W * (f + e) = wf + (IF e = 1 THEN W ELSE 0) /\ wf \in Int
    <3>1. \A a, b \in Nat : a * b \in Int /\ a * (b + 0) = a * b /\ a * (b + 1) = a * b + a
      OBVIOUS
    <3> QED
      BY <1>1, <2>2, <3>1
  <2>4. W * owed[u] - n * w[u] = (IF e = 1 THEN W ELSE 0) - r
    <3> DEFINE cent == IF e = 1 THEN W ELSE 0
    <3>1. cent \in Int /\ W * owed[u] = wf + cent /\ n * w[u] = wf + r
      BY <1>1, <2>2, <2>3
    <3>2. \A a, b, d \in Int : (a + b) - (a + d) = b - d
      OBVIOUS
    <3> HIDE DEF cent, wf
    <3> QED
      BY <2>2, <2>3, <3>1, <3>2 DEF cent
  <2>5. CASE e = 1
    BY <1>1, <2>2, <2>4, <2>5 DEF Abs
  <2>6. CASE e = 0
    BY <1>1, <2>2, <2>4, <2>6 DEF Abs
  <2> QED
    BY <2>2, <2>5, <2>6
<1>8. ASSUME NEW v \in U, w[v] < w[u] PROVE owed[v] <= owed[u]
  <2>1. u \in U
    BY DEF U
  <2>2. W * F[v] + R[v] < W * F[u] + R[u]
    <3>1. \A a, b \in Nat : a < b => n * a < n * b
      OBVIOUS
    <3>2. n * w[v] < n * w[u]
      BY <1>2, <1>8, <2>1, <3>1
    <3> QED
      BY <1>2, <2>1, <3>2
  <2>3. F[v] <= F[u]
    <3> SUFFICES ASSUME F[v] >= F[u] + 1 PROVE FALSE
      BY <1>2, <2>1
    <3>1. W * F[v] >= W * (F[u] + 1)
      BY <1>1, <1>2, <2>1
    <3>2. W * (F[u] + 1) = W * F[u] + W /\ W * F[u] \in Int /\ W * F[v] \in Int
      <4>1. \A a, b \in Nat : a * (b + 1) = a * b + a /\ a * b \in Int
        OBVIOUS
      <4> QED
        BY <1>1, <1>2, <2>1, <4>1
    <3> QED
      BY <1>1, <1>2, <2>1, <2>2, <3>1, <3>2
  <2>4. CASE F[v] < F[u]
    BY <1>2, <2>1, <2>4
  <2>5. CASE F[v] = F[u]
    <3>1. R[v] < R[u]
      <4>1. W * F[u] \in Int
        BY <1>1, <1>2, <2>1
      <4> QED
        BY <1>2, <2>1, <2>2, <2>5, <4>1
    <3>2. c[v] = 1 => c[u] = 1
      <4> SUFFICES ASSUME c[v] = 1 PROVE \E k \in 1..l : q[k] = u
        BY <1>3, <2>1
      <4>1. PICK j \in 1..l : q[j] = v
        BY <1>3
      <4>2. PICK k \in 1..Cardinality(U) : q[k] = u
        BY <1>5, <2>1 DEF Lists
      <4>3. j \in 1..Cardinality(U) /\ j \in Int /\ k \in Int /\ j <= l /\ k >= 1
        BY <1>4
      <4>4. ~(j < k)
        BY <1>2, <1>5, <2>1, <3>1, <4>1, <4>2, <4>3
      <4>5. k \in 1..l
        BY <1>4, <4>3, <4>4
      <4> QED
        BY <4>2, <4>5
    <3> QED
      BY <1>2, <2>1, <2>5, <3>2
  <2> QED
    BY <1>2, <2>1, <2>3, <2>4, <2>5
<1> QED
  BY <1>7, <1>8 DEF U, W

-----------------------------------------------------------------------------
(* What is owed in some shares. *)

OwedIn(s) == [i \in DOMAIN s |-> s[i].owed]

(* split_equal: everybody owes the same but for a cent, the first ones     *)
(* never less, and nothing is lost.                                        *)
LEMMA EqualIs ==
  ASSUME NEW n \in Nat, NEW U, NEW users \in Seq(U), users # <<>>, NEW s, s = SplitEqual(n, users)
  PROVE  /\ DOMAIN s = 1..Len(users) /\ Len(users) \in Nat
         /\ OwedIn(s) \in [1..Len(users) -> Nat]
         /\ Total(OwedIn(s)) = n
         /\ \A i, j \in DOMAIN s : i < j => s[i].owed - s[j].owed \in {0, 1}
         /\ \A i \in DOMAIN s : s[i].user = users[i]
<1> DEFINE m == Len(users)
           base == n \div m
           rem == n - base * m
           e == [i \in 1..m |-> Extra(i, rem)]
           b == [i \in 1..m |-> base]
           o == OwedIn(s)
<1>1. m \in Nat /\ m > 0 /\ DOMAIN users = 1..m
  OBVIOUS
<1>2. s = [i \in 1..m |-> [user |-> users[i], owed |-> base + Extra(i, rem)]]
  BY <1>1 DEF SplitEqual, Share
<1>3. base \in Nat /\ rem \in Nat /\ rem < m /\ base * m + rem = n
  <2> HIDE DEF m
  <2>1. base \in Nat /\ base * m <= n /\ n < (base + 1) * m
    BY <1>1
  <2>2. (base + 1) * m = base * m + m /\ base * m \in Int
    <3>1. \A a, c \in Nat : (a + 1) * c = a * c + c /\ a * c \in Int
      OBVIOUS
    <3> QED
      BY <1>1, <2>1, <3>1
  <2> QED
    BY <1>1, <2>1, <2>2
<1> HIDE DEF m, base, rem
<1>4. \A i \in 1..m : e[i] = (IF i <= rem THEN 1 ELSE 0) /\ b[i] = base
  BY DEF Extra
<1>5. \A i \in 1..m : s[i].owed = b[i] + e[i] /\ s[i].user = users[i]
  BY <1>2, <1>4 DEF Extra
<1>6. DOMAIN s = 1..m /\ o = [i \in 1..m |-> s[i].owed]
  BY <1>2 DEF OwedIn
<1> HIDE DEF e, b, o
<1>7. ASSUME NEW i \in 1..m PROVE s[i].owed \in Nat /\ e[i] \in {0, 1}
  BY <1>3, <1>4, <1>5
<1>8. o \in [1..m -> Nat] /\ o \in [1..m -> Int]
  BY <1>6, <1>7
<1>9. Total(o) = SumFunctionOnSet(o, 1..m)
  BY <1>1, <1>8, TotalIsSum
<1>10. SumFunctionOnSet(o, 1..m) = SumFunctionOnSet(b, 1..m) + SumFunctionOnSet(e, 1..m)
  <2>1. Summable(b, 1..m) /\ Summable(e, 1..m)
    <3>1. IsFiniteSet(1..m)
      BY <1>1, FS_Interval
    <3> QED
      BY <1>3, <1>4, <1>7, <3>1 DEF Summable
  <2> DEFINE I == 1..m
  <2>2. \A i \in I : o[i] = b[i] + e[i]
    BY <1>5, <1>6
  <2>3. Summable(b, I) /\ Summable(e, I)
    BY <2>1
  <2> HIDE DEF I
  <2>4. SumFunctionOnSet(o, I) = SumFunctionOnSet(b, I) + SumFunctionOnSet(e, I)
    BY <2>2, <2>3, SumAdd
  <2> QED
    BY <2>4 DEF I
<1>11. SumFunctionOnSet(e, 1..m) = rem
  BY <1>1, <1>3, <1>4, FirstOnes
<1>12. SumFunctionOnSet(b, 1..m) = base * m
  <2> DEFINE I == 1..m
  <2>1. IsFiniteSet(I) /\ Cardinality(I) = m
    BY <1>1, FS_Interval
  <2>2. base \in Int /\ \A i \in I : b[i] = base
    BY <1>3, <1>4
  <2> HIDE DEF I
  <2>3. SumFunctionOnSet(b, I) = base * Cardinality(I)
    BY <2>1, <2>2, SumOfSame
  <2> QED
    BY <2>1, <2>3 DEF I
<1>13. Total(o) = n
  BY <1>3, <1>9, <1>10, <1>11, <1>12
<1>14. ASSUME NEW i \in 1..m, NEW j \in 1..m, i < j PROVE s[i].owed - s[j].owed \in {0, 1}
  <2>1. s[i].owed - s[j].owed = e[i] - e[j]
    BY <1>3, <1>4, <1>5, <1>7
  <2>2. e[j] = 1 => e[i] = 1
    BY <1>3, <1>4, <1>14
  <2> QED
    BY <1>7, <2>1, <2>2
<1> QED
  BY <1>1, <1>5, <1>6, <1>8, <1>13, <1>14 DEF m, o

(* The shares of a map of amounts.                                         *)
LEMMA SharesOfMap ==
  ASSUME NEW map, Map(map), NEW s, s = InShares(map)
  PROVE  /\ OwedIn(s) = Values(map)
         /\ DOMAIN s = 1..Cardinality(DOMAIN map) /\ Cardinality(DOMAIN map) \in Nat
         /\ \A i \in DOMAIN s : s[i].user = InIdOrder(DOMAIN map)[i]
         /\ Total(OwedIn(s)) = SumFunctionOnSet(map, DOMAIN map)
<1> DEFINE ids == InIdOrder(DOMAIN map)
<1>1. s = [i \in DOMAIN ids |-> [user |-> ids[i], owed |-> map[ids[i]]]]
  BY DEF InShares, Share
<1>2. Values(map) = [i \in DOMAIN ids |-> map[ids[i]]]
  BY DEF Values
<1>3. DOMAIN ids = 1..Cardinality(DOMAIN map) /\ Cardinality(DOMAIN map) \in Nat
  BY ValuesAre
<1> HIDE DEF ids
<1>4. OwedIn(s) = Values(map)
  BY <1>1, <1>2 DEF OwedIn
<1> QED
  BY <1>1, <1>3, <1>4, TotalOfValues DEF ids

-----------------------------------------------------------------------------
(* Lists of pairs. *)

(* A list of pairs becomes a map of its entries,                           *)
LEMMA CollectedIs ==
  ASSUME NEW A, NEW pairs \in Seq(UserIds \X A)
  PROVE  /\ IsFiniteSet(DOMAIN Collected(pairs)) /\ Ordered(DOMAIN Collected(pairs))
         /\ DOMAIN Collected(pairs) \subseteq UserIds
         /\ DOMAIN Collected(pairs) = {pairs[i][1] : i \in DOMAIN pairs}
         /\ \A u \in DOMAIN Collected(pairs) :
               \E i \in DOMAIN pairs : pairs[i][1] = u /\ Collected(pairs)[u] = pairs[i][2]
         /\ \A u \in DOMAIN Collected(pairs) : Collected(pairs)[u] \in A
         /\ DOMAIN Collected(pairs) = {} <=> pairs = <<>>
<1> DEFINE D == DOMAIN pairs
           Keys == {pairs[i][1] : i \in D}
           At(u) == {i \in D : pairs[i][1] = u}
           c == Collected(pairs)
<1>1. Len(pairs) \in Nat /\ D = 1..Len(pairs) /\ \A i \in D : pairs[i] \in UserIds \X A
  OBVIOUS
<1>2. c = [u \in Keys |-> pairs[Max(At(u))][2]]
  BY DEF Collected
<1>3. ASSUME NEW u \in Keys PROVE Max(At(u)) \in D /\ pairs[Max(At(u))][1] = u
  <2>1. At(u) \subseteq 1..Len(pairs) /\ At(u) # {}
    BY <1>1
  <2>2. Max(At(u)) \in At(u)
    <3> HIDE DEF At
    <3> QED
      BY <1>1, <2>1, MaxIsIn
  <2> QED
    BY <2>2
<1>4. IsFiniteSet(Keys)
  <2>1. IsFiniteSet(D)
    BY <1>1, FS_Interval
  <2> DEFINE f == [i \in D |-> pairs[i][1]]
  <2>2. Keys = {f[i] : i \in D}
    OBVIOUS
  <2> HIDE DEF f, Keys, D
  <2> QED
    BY <2>1, <2>2, FiniteImage
<1>5. DOMAIN c = Keys /\ Keys \subseteq UserIds
  BY <1>1, <1>2
<1>6. \A u \in Keys : \E i \in D : pairs[i][1] = u /\ c[u] = pairs[i][2]
  <2> HIDE DEF At
  <2> QED
    BY <1>2, <1>3
<1>7. \A u \in Keys : c[u] \in A
  BY <1>1, <1>6
<1>8. Ordered(Keys)
  BY <1>5, EntryAssumption DEF Ordered
<1>9. Keys = {} <=> pairs = <<>>
  <2>1. Keys = {} <=> D = {}
    OBVIOUS
  <2>2. D = {} <=> Len(pairs) = 0
    <3> HIDE DEF D
    <3> QED
      BY <1>1
  <2>3. Len(pairs) = 0 <=> pairs = <<>>
    OBVIOUS
  <2> QED
    BY <2>1, <2>2, <2>3
<1> HIDE DEF c
<1> QED
  BY <1>4, <1>5, <1>6, <1>7, <1>8, <1>9 DEF c

(* whose values are values of the list,                                    *)
LEMMA CollectedFrom ==
  ASSUME NEW A, NEW pairs \in Seq(UserIds \X A)
  PROVE  \A u \in DOMAIN Collected(pairs) :
            /\ Collected(pairs)[u] \in A
            /\ \E i \in DOMAIN pairs : Collected(pairs)[u] = pairs[i][2]
<1>1. ASSUME NEW u \in DOMAIN Collected(pairs)
      PROVE  /\ Collected(pairs)[u] \in A
             /\ \E i \in DOMAIN pairs : pairs[i][1] = u /\ Collected(pairs)[u] = pairs[i][2]
  BY CollectedIs
<1> QED
  BY <1>1

(* and of all of them when each user is there once.                        *)
LEMMA CollectedOnce ==
  ASSUME NEW A, NEW pairs \in Seq(UserIds \X A), Once(pairs), NEW i \in DOMAIN pairs
  PROVE  Collected(pairs)[pairs[i][1]] = pairs[i][2]
<1>1. pairs[i][1] \in DOMAIN Collected(pairs)
  <2>1. DOMAIN Collected(pairs) = {pairs[k][1] : k \in DOMAIN pairs}
    BY CollectedIs
  <2> QED
    BY <2>1
<1>2. PICK j \in DOMAIN pairs : /\ pairs[j][1] = pairs[i][1]
                                /\ Collected(pairs)[pairs[i][1]] = pairs[j][2]
  BY <1>1, CollectedIs
<1> QED
  BY <1>2 DEF Once

-----------------------------------------------------------------------------
(* Integers of 64 bits. *)

(* Wrapping gives a number that fits, and is nothing for one that does.    *)
LEMMA WrapFits ==
  ASSUME NEW x \in Int
  PROVE  Wrap(x) \in Int /\ Fits(Wrap(x)) /\ (Fits(x) => Wrap(x) = x)
<1> DEFINE R == 2 * (MaxAmount + 1)
           y == x + MaxAmount + 1
<1>1. MaxAmount \in Nat /\ R \in Int /\ R > 0 /\ y \in Int
  BY MoneyAssumption
<1>2. \A a \in Int, r \in Int : r > 0 => a % r \in Int /\ 0 <= a % r /\ a % r < r
  OBVIOUS
<1>3. \A a \in Int, r \in Int : 0 <= a /\ a < r => a % r = a
  OBVIOUS
<1>4. y % R \in Int /\ 0 <= y % R /\ y % R < R /\ (0 <= y /\ y < R => y % R = y)
  BY <1>1, <1>2, <1>3
<1>5. Wrap(x) = (y % R) - MaxAmount - 1
  BY DEF Wrap
<1> DEFINE z == y % R
<1> HIDE DEF z
<1>6. z \in Int /\ 0 <= z /\ z < 2 * (MaxAmount + 1) /\ Wrap(x) = z - MaxAmount - 1
      /\ (0 <= x + MaxAmount + 1 /\ x + MaxAmount + 1 < 2 * (MaxAmount + 1) => z = x + MaxAmount + 1)
  BY <1>4, <1>5 DEF z
<1> QED
  BY <1>1, <1>6 DEF Fits

(* Division rounded half away from zero is to the nearest, and no further  *)
(* from zero than a bound that the fraction is within half of.             *)
LEMMA RoundDivIs ==
  ASSUME NEW num \in Int, NEW den \in Nat, den > 0
  PROVE  /\ RoundDiv(num, den) \in Int
         /\ NearestTo(RoundDiv(num, den), num, den)
         /\ \A m \in Nat : 2 * Abs(num) < (2 * m + 1) * den
               => -m <= RoundDiv(num, den) /\ RoundDiv(num, den) <= m
<1> DEFINE a == Abs(num)
           h == den \div 2
           q == (a + h) \div den
           qd == q * den
<1>1. a \in Nat /\ h \in Nat /\ 2 * h <= den /\ den <= 2 * h + 1
  BY DEF Abs
<1> HIDE DEF a, h
<1>2. q \in Nat /\ qd <= a + h /\ a + h < qd + den /\ qd \in Nat
  <2>1. \A b \in Nat : /\ b \div den \in Nat /\ (b \div den) * den \in Nat
                       /\ (b \div den) * den <= b /\ b < (b \div den) * den + den
    <3>1. \A b \in Nat : b \div den \in Nat /\ (b \div den) * den <= b
                         /\ b < ((b \div den) + 1) * den
      OBVIOUS
    <3>2. \A c \in Nat : c * den \in Nat /\ (c + 1) * den = c * den + den
      OBVIOUS
    <3> QED
      BY <3>1, <3>2
  <2>2. a + h \in Nat
    BY <1>1
  <2> QED
    BY <2>1, <2>2
<1>3. RoundDiv(num, den) = IF num >= 0 THEN q ELSE -q
  BY DEF RoundDiv, a, h
<1>4. (-q) * den = -qd
  BY <1>2
<1> HIDE DEF q
<1>5. qd = q * den
  OBVIOUS
<1> HIDE DEF qd
<1>6. 2 * Abs(qd - a) <= den
  BY <1>1, <1>2 DEF Abs
<1>7. NearestTo(RoundDiv(num, den), num, den)
  <2>1. CASE num >= 0
    <3>1. num = a /\ RoundDiv(num, den) = q
      BY <1>3, <2>1 DEF a, Abs
    <3> QED
      BY <1>5, <1>6, <3>1 DEF NearestTo
  <2>2. CASE num < 0
    <3>1. num = -a /\ RoundDiv(num, den) = -q
      BY <1>3, <2>2 DEF a, Abs
    <3>2. RoundDiv(num, den) * den - num = -(qd - a)
      BY <1>1, <1>2, <1>4, <3>1
    <3>3. Abs(-(qd - a)) = Abs(qd - a)
      BY <1>1, <1>2 DEF Abs
    <3> QED
      BY <1>6, <3>2, <3>3 DEF NearestTo
  <2> QED
    BY <2>1, <2>2
<1>8. ASSUME NEW m \in Nat, 2 * a < (2 * m + 1) * den PROVE q <= m
  <2> SUFFICES ASSUME q >= m + 1 PROVE FALSE
    BY <1>2
  <2> DEFINE md == m * den
  <2>1. (m + 1) * den <= q * den /\ (m + 1) * den = md + den /\ (2 * m + 1) * den = 2 * md + den
        /\ md \in Nat
    <3>1. \A b \in Nat : b >= m + 1 => (m + 1) * den <= b * den
      OBVIOUS
    <3>2. (m + 1) * den = md + den /\ (2 * m + 1) * den = 2 * md + den /\ md \in Nat
      OBVIOUS
    <3> HIDE DEF md
    <3> QED
      BY <1>2, <3>1, <3>2
  <2> HIDE DEF md
  <2>2. md + den <= qd /\ 2 * a < 2 * md + den
    BY <1>5, <1>8, <2>1
  <2> QED
    BY <1>1, <1>2, <2>1, <2>2
<1> QED
  BY <1>2, <1>3, <1>7, <1>8 DEF a

(* A converted amount is to the nearest when that fits.                    *)
LEMMA ConvertIs ==
  ASSUME NEW amount \in Int, NEW rate \in Int, NEW from, NEW to,
         NEW num, num = amount * rate * 10^MinorUnits(to),
         NEW den, den = RateScale * 10^MinorUnits(from)
  PROVE  /\ Convert(amount, rate, from, to) \in Int /\ Fits(Convert(amount, rate, from, to))
         /\ 2 * Abs(num) < (2 * MaxAmount + 1) * den
               => NearestTo(Convert(amount, rate, from, to), num, den)
<1>1. ASSUME NEW code PROVE 10^MinorUnits(code) \in Nat /\ 10^MinorUnits(code) > 0
  <2>1. 10^0 = 1 /\ 10^2 = 100 /\ 10^3 = 1000
    OBVIOUS
  <2>2. MinorUnits(code) = 0 \/ MinorUnits(code) = 2 \/ MinorUnits(code) = 3
    BY DEF MinorUnits
  <2>3. 10^MinorUnits(code) = 1 \/ 10^MinorUnits(code) = 100 \/ 10^MinorUnits(code) = 1000
    <3>1. \A k : k = 0 => 10^k = 1
      <4>1. \A k : k = 0 => 10^k = 10^0
        BY Zenon
      <4> QED
        BY <2>1, <4>1
    <3>2. \A k : k = 2 => 10^k = 100
      <4>1. \A k : k = 2 => 10^k = 10^2
        BY Zenon
      <4> QED
        BY <2>1, <4>1
    <3>3. \A k : k = 3 => 10^k = 1000
      <4>1. \A k : k = 3 => 10^k = 10^3
        BY Zenon
      <4> QED
        BY <2>1, <4>1
    <3> QED
      BY <2>2, <3>1, <3>2, <3>3
  <2> DEFINE scale == 10^MinorUnits(code)
  <2> HIDE DEF scale
  <2>4. scale = 1 \/ scale = 100 \/ scale = 1000
    BY <2>3 DEF scale
  <2>5. scale \in Nat /\ scale > 0
    BY <2>4
  <2> QED
    BY <2>5 DEF scale
<1>2. num \in Int /\ den \in Nat /\ den > 0
  <2>1. \A a, b, c \in Int : a * b * c \in Int
    OBVIOUS
  <2>2. \A a, b \in Nat : a > 0 /\ b > 0 => a * b \in Nat /\ a * b > 0
    OBVIOUS
  <2>3. RateScale \in Nat /\ RateScale > 0
    BY MoneyAssumption
  <2> QED
    BY <1>1, <2>1, <2>2, <2>3
<1> DEFINE r == RoundDiv(num, den)
<1>3. Convert(amount, rate, from, to) = Wrap(r)
  BY DEF Convert, Exact
<1>4. /\ r \in Int /\ NearestTo(r, num, den)
      /\ 2 * Abs(num) < (2 * MaxAmount + 1) * den => -MaxAmount <= r /\ r <= MaxAmount
  BY <1>2, RoundDivIs, MoneyAssumption
<1> HIDE DEF r
<1>5. Wrap(r) \in Int /\ Fits(Wrap(r)) /\ (Fits(r) => Wrap(r) = r)
  BY <1>4, WrapFits
<1>6. 2 * Abs(num) < (2 * MaxAmount + 1) * den => Fits(r)
  BY <1>4, MoneyAssumption DEF Fits
<1> QED
  BY <1>3, <1>4, <1>5, <1>6

-----------------------------------------------------------------------------
(* The form entered, and its division. *)

(* The payments of a form.                                                 *)
LEMMA PaidByIs ==
  ASSUME Form(input), total \in Int
  PROVE  Map(PaidBy) /\ DOMAIN PaidBy \subseteq UserIds
<1>1. CASE input.foreign
  <2> DEFINE p == input.payers[1][1]
  <2>1. p \in UserIds
    BY <1>1 DEF Form
  <2>2. PaidBy = [u \in {p} |-> total]
    BY <1>1 DEF PaidBy
  <2>3. IsFiniteSet({p}) /\ Ordered({p})
    BY <2>1, FS_Singleton, EntryAssumption DEF Ordered
  <2> HIDE DEF p
  <2> QED
    BY <2>1, <2>2, <2>3 DEF Map
<1>2. CASE ~input.foreign
  <2>1. PaidBy = Collected(input.payers) /\ input.payers \in Seq(UserIds \X Int)
    BY <1>2 DEF PaidBy, Form
  <2> QED
    BY <2>1, CollectedIs DEF Map
<1> QED
  BY <1>1, <1>2 DEF Form

(* The entries of an exact plan, and the weights of a weighted one.        *)
LEMMA EntriesAre ==
  ASSUME Form(input)
  PROVE  /\ plan.kind \in {"equal", "exact", "weighted"}
         /\ plan.kind = "equal" => Entries \in Seq(UserIds)
         /\ plan.kind = "exact" => Entries \in Seq(UserIds \X Int) /\ Map(Collected(Entries))
         /\ plan.kind = "weighted" =>
               /\ Entries \in Seq(UserIds \X Nat) /\ Map(Collected(Entries))
               /\ \A u \in DOMAIN Collected(Entries) : Collected(Entries)[u] \in Nat
<1>1. /\ plan.kind \in {"equal", "exact", "weighted"}
      /\ plan.kind = "equal" => Entries \in Seq(UserIds)
      /\ plan.kind = "exact" => Entries \in Seq(UserIds \X Int)
      /\ plan.kind = "weighted" => Entries \in Seq(UserIds \X Nat)
  BY DEF Form, plan, Entries
<1>2. ASSUME Entries \in Seq(UserIds \X Int) PROVE Map(Collected(Entries))
  BY <1>2, CollectedIs DEF Map
<1>3. ASSUME Entries \in Seq(UserIds \X Nat)
      PROVE  /\ Map(Collected(Entries))
             /\ \A u \in DOMAIN Collected(Entries) : Collected(Entries)[u] \in Nat
  <2>1. \A u \in DOMAIN Collected(Entries) : Collected(Entries)[u] \in Nat
    BY <1>3, CollectedFrom
  <2>2. IsFiniteSet(DOMAIN Collected(Entries)) /\ Ordered(DOMAIN Collected(Entries))
    BY <1>3, CollectedIs
  <2> QED
    BY <2>1, <2>2 DEF Map
<1> QED
  BY <1>1, <1>2, <1>3

(* A weighted plan that is not refused has weights.                        *)
LEMMA WeightsAre ==
  ASSUME Form(input), PlanOk, plan.kind = "weighted"
  PROVE  Weights(Collected(Entries))
BY EntriesAre DEF Weights, Map, PlanOk

(* How plan says that the total is divided: into the shares s, when z is   *)
(* the state the loop over the cents ends in.                              *)
SharesFor(s, z) ==
    \/ plan.kind = "equal" /\ s = SplitEqual(total, Entries)
    \/ plan.kind = "exact" /\ s = InShares(Collected(Entries))
    \/ /\ plan.kind = "weighted"
       /\ z = Given(total, Collected(Entries), Leftover(total, Collected(Entries)))
       /\ s = InShares(z.owed)

(* The shares add up to the total; those of a valid plan are not negative. *)
LEMMA SharesAddUp ==
  ASSUME Form(input), total \in Nat, PlanOk, NEW s, NEW z, SharesFor(s, z)
  PROVE  /\ Total(OwedIn(s)) = total
         /\ \E k \in Nat : /\ DOMAIN s = 1..k /\ OwedIn(s) \in [1..k -> Int]
                           /\ ValidPlan => \A i \in 1..k : OwedIn(s)[i] >= 0
                           /\ \A i \in 1..k : s[i].user \in UserIds
<1> DEFINE map == Collected(Entries)
<1>1. ASSUME NEW m, Map(m), DOMAIN m \subseteq UserIds, s = InShares(m),
             SumFunctionOnSet(m, DOMAIN m) = total,
             ValidPlan => \A u \in DOMAIN m : m[u] >= 0
      PROVE  /\ Total(OwedIn(s)) = total
             /\ \E k \in Nat : /\ DOMAIN s = 1..k /\ OwedIn(s) \in [1..k -> Int]
                               /\ ValidPlan => \A i \in 1..k : OwedIn(s)[i] >= 0
                               /\ \A i \in 1..k : s[i].user \in UserIds
  <2> DEFINE k == Cardinality(DOMAIN m)
             ids == InIdOrder(DOMAIN m)
  <2>1. /\ OwedIn(s) = Values(m) /\ DOMAIN s = 1..k /\ k \in Nat
        /\ Total(OwedIn(s)) = SumFunctionOnSet(m, DOMAIN m)
        /\ \A i \in 1..k : s[i].user = ids[i]
    BY <1>1, SharesOfMap
  <2>2. Values(m) \in [1..k -> Int] /\ \A n \in 1..k : Values(m)[n] = m[ids[n]]
    BY <1>1, ValuesAre
  <2>3. \A n \in 1..k : ids[n] \in DOMAIN m
    BY <1>1, IdsInOrder DEF Map, Lists
  <2> HIDE DEF k, ids
  <2>4. ValidPlan => \A i \in 1..k : OwedIn(s)[i] >= 0
    BY <1>1, <2>1, <2>2, <2>3
  <2>5. \A i \in 1..k : s[i].user \in UserIds
    BY <1>1, <2>1, <2>3
  <2> QED
    BY <1>1, <2>1, <2>2, <2>4, <2>5
<1>2. CASE plan.kind = "equal"
  <2> DEFINE k == Len(Entries)
  <2>1. Entries \in Seq(UserIds) /\ Entries # <<>> /\ s = SplitEqual(total, Entries)
    BY <1>2, EntriesAre DEF SharesFor, PlanOk
  <2>2. /\ DOMAIN s = 1..k /\ k \in Nat /\ OwedIn(s) \in [1..k -> Nat] /\ Total(OwedIn(s)) = total
        /\ \A i \in DOMAIN s : s[i].user = Entries[i]
    BY <2>1, EqualIs
  <2> HIDE DEF k
  <2>3. OwedIn(s) \in [1..k -> Int] /\ \A i \in 1..k : OwedIn(s)[i] >= 0
    BY <2>2
  <2>4. \A i \in 1..k : s[i].user \in UserIds
    BY <2>1, <2>2 DEF k
  <2> QED
    BY <2>2, <2>3, <2>4
<1>3. CASE plan.kind = "exact"
  <2>1. Entries \in Seq(UserIds \X Int) /\ Map(map) /\ s = InShares(map)
    BY <1>3, EntriesAre DEF SharesFor
  <2>2. /\ DOMAIN map \subseteq UserIds
        /\ \A u \in DOMAIN map : \E i \in DOMAIN Entries : map[u] = Entries[i][2]
    <3>1. \A u \in DOMAIN map : map[u] \in Int /\ \E i \in DOMAIN Entries : map[u] = Entries[i][2]
      BY <2>1, CollectedFrom
    <3>2. DOMAIN map \subseteq UserIds
      BY <2>1, CollectedIs
    <3> QED
      BY <3>1, <3>2
  <2>3. Total(Values(map)) = total
    BY <1>3 DEF PlanOk
  <2>4. SumFunctionOnSet(map, DOMAIN map) = total
    BY <2>1, <2>3, TotalOfValues
  <2>5. ValidPlan => \A u \in DOMAIN map : map[u] >= 0
    <3>1. ValidPlan => \A i \in DOMAIN Entries : Entries[i][2] >= 0
      BY <1>3 DEF ValidPlan
    <3> HIDE DEF map
    <3> QED
      BY <2>2, <3>1
  <2> HIDE DEF map
  <2> QED
    BY <1>1, <2>1, <2>2, <2>4, <2>5
<1>4. CASE plan.kind = "weighted"
  <2> DEFINE l == Leftover(total, map)
             owed == Given(total, map, l).owed
  <2>1. Weights(map) /\ s = InShares(owed)
    BY <1>4, WeightsAre DEF SharesFor
  <2>2. DOMAIN map \subseteq UserIds
    BY <1>4, EntriesAre, CollectedIs
  <2>3. l \in Nat /\ l = total - SumFunction(Floors(total, map))
        /\ SumFunction(Floors(total, map)) \in Nat
    BY <2>1, LeftoverIn, LeftoverIs
  <2>4. /\ Map(owed) /\ DOMAIN owed = DOMAIN map /\ \A u \in DOMAIN map : owed[u] >= 0
        /\ SumFunctionOnSet(owed, DOMAIN map) = SumFunction(Floors(total, map)) + l
    <3>1. l \in Nat /\ l <= Leftover(total, map)
      BY <2>3
    <3> HIDE DEF l, map
    <3> QED
      BY <2>1, <3>1, GivenSum
  <2> HIDE DEF l, owed, map
  <2>5. SumFunctionOnSet(owed, DOMAIN owed) = total
    BY <2>3, <2>4
  <2> QED
    BY <1>1, <2>1, <2>2, <2>4, <2>5
<1> QED
  BY <1>2, <1>3, <1>4, EntriesAre

(* Payments that are valid are accepted, and no sum of them overflows.     *)
LEMMA ValidIsPaid ==
  ASSUME Form(input), total \in Int, Fits(total), ValidPayments
  PROVE  /\ PaymentsOk /\ AddsUp(Values(PaidBy)) /\ Total(Values(PaidBy)) = total
         /\ \A u \in DOMAIN PaidBy : PaidBy[u] > 0
<1> DEFINE U == DOMAIN PaidBy
           k == Cardinality(U)
<1>1. Map(PaidBy) /\ total > 0
  BY PaidByIs DEF ValidPayments
<1>2. /\ Total(Values(PaidBy)) = SumFunctionOnSet(PaidBy, U)
      /\ k \in Nat /\ Values(PaidBy) \in [1..k -> Int]
      /\ \A n \in 1..k : Values(PaidBy)[n] = PaidBy[InIdOrder(U)[n]]
      /\ \A n \in 1..k : InIdOrder(U)[n] \in U
  BY <1>1, TotalOfValues, ValuesAre, IdsInOrder DEF Map, Lists
<1>3. Total(Values(PaidBy)) = total /\ U # {} /\ \A u \in U : PaidBy[u] > 0
  <2>1. CASE input.foreign
    <3> DEFINE p == input.payers[1][1]
    <3>1. PaidBy = [u \in {p} |-> total]
      BY <2>1 DEF PaidBy
    <3>2. IsFiniteSet(U) /\ U = {p} /\ p \in U /\ \A u \in U : PaidBy[u] = IF u = p THEN total ELSE 0
      BY <1>1, <3>1 DEF Map
    <3>3. SumFunctionOnSet(PaidBy, U) = total
      <4> HIDE DEF p, U
      <4> QED
        BY <3>2, SumSingle
    <3>4. \A u \in U : PaidBy[u] = total
      BY <3>1
    <3> QED
      BY <1>1, <1>2, <3>2, <3>3, <3>4
  <2>2. CASE ~input.foreign
    <3>1. /\ PaidBy = Collected(input.payers) /\ input.payers \in Seq(UserIds \X Int)
          /\ \A i \in DOMAIN input.payers : input.payers[i][2] > 0
          /\ Total(Values(PaidBy)) = total
      BY <2>2 DEF PaidBy, Form, ValidPayments
    <3>2. \A u \in U : PaidBy[u] \in Int /\ \E i \in DOMAIN input.payers : PaidBy[u] = input.payers[i][2]
      <4> DEFINE map == Collected(input.payers)
      <4>1. \A u \in DOMAIN map : map[u] \in Int /\ \E i \in DOMAIN input.payers : map[u] = input.payers[i][2]
        BY <3>1, CollectedFrom
      <4>2. PaidBy = map
        BY <3>1
      <4> HIDE DEF map
      <4> QED
        BY <4>1, <4>2
    <3>3. \A u \in U : PaidBy[u] > 0 /\ PaidBy[u] \in Int
      BY <1>1, <3>1, <3>2 DEF Map
    <3>4. U # {}
      <4> SUFFICES ASSUME U = {} PROVE FALSE
        OBVIOUS
      <4>1. SumFunctionOnSet(PaidBy, {}) = 0
        BY SumEmpty
      <4> HIDE DEF U
      <4> QED
        BY <1>1, <1>2, <3>1, <4>1
    <3> QED
      BY <3>1, <3>3, <3>4
  <2> QED
    BY <2>1, <2>2 DEF Form
<1>4. Wrap(Total(Values(PaidBy))) = total
  BY <1>3, WrapFits
<1>5. AddsUp(Values(PaidBy))
  <2>1. \A n \in 1..k : Values(PaidBy)[n] > 0
    BY <1>2, <1>3
  <2> HIDE DEF k
  <2> QED
    BY <1>2, <1>3, <2>1, NeverPasses
<1> QED
  BY <1>1, <1>3, <1>4, <1>5 DEF PaymentsOk, PaymentsMatch

(* A valid plan is not refused, and its sum does not overflow.             *)
LEMMA ValidIsDivided ==
  ASSUME Form(input), total \in Nat, Fits(total), ValidPlan
  PROVE  PlanOk /\ ~PlanPanics
<1> DEFINE map == Collected(Entries)
<1>1. Entries # <<>> /\ (plan.kind = "exact" => Total(Values(map)) = total)
  BY DEF ValidPlan
<1>2. plan.kind = "weighted" => TotalWeight(map) > 0
  <2> SUFFICES ASSUME plan.kind = "weighted" PROVE TotalWeight(map) > 0
    OBVIOUS
  <2>1. /\ Entries \in Seq(UserIds \X Nat) /\ Map(map) /\ \A u \in DOMAIN map : map[u] \in Nat
    BY EntriesAre
  <2>2. PICK i \in DOMAIN Entries : Once(Entries) /\ Entries[i][2] > 0
    BY DEF ValidPlan
  <2>3. map[Entries[i][1]] = Entries[i][2] /\ Entries[i][1] \in DOMAIN map
    <3>1. DOMAIN map = {Entries[j][1] : j \in DOMAIN Entries}
      BY <2>1, CollectedIs
    <3>2. map[Entries[i][1]] = Entries[i][2]
      BY <2>1, <2>2, CollectedOnce
    <3> HIDE DEF map
    <3> QED
      BY <3>1, <3>2
  <2> HIDE DEF map
  <2>4. Summable(map, DOMAIN map) /\ \A u \in DOMAIN map : map[u] >= 0
    BY <2>1 DEF Map, Summable
  <2>5. SumFunctionOnSet(map, DOMAIN map) \in Int /\ SumFunctionOnSet(map, DOMAIN map) >= 0
    BY <2>4, SumInt, SumNat
  <2>6. SumFunctionOnSet(map, DOMAIN map) # 0
    <3>1. map[Entries[i][1]] # 0
      BY <2>1, <2>2, <2>3
    <3> QED
      BY <2>3, <2>4, <3>1, SumNatZero
  <2> QED
    BY <2>5, <2>6 DEF TotalWeight, SumFunction
<1>3. ~PlanPanics
  <2> SUFFICES ASSUME plan.kind = "exact" PROVE AddsUp(Values(map))
    BY DEF PlanPanics
  <2> DEFINE k == Cardinality(DOMAIN map)
  <2>1. Entries \in Seq(UserIds \X Int) /\ Map(map)
    BY EntriesAre
  <2>2. \A u \in DOMAIN map : map[u] \in Int /\ \E i \in DOMAIN Entries : map[u] = Entries[i][2]
    BY <2>1, CollectedFrom
  <2>3. \A i \in DOMAIN Entries : Entries[i][2] >= 0
    BY DEF ValidPlan
  <2>4. /\ k \in Nat /\ Values(map) \in [1..k -> Int]
        /\ \A n \in 1..k : Values(map)[n] = map[InIdOrder(DOMAIN map)[n]]
        /\ \A n \in 1..k : InIdOrder(DOMAIN map)[n] \in DOMAIN map
    BY <2>1, ValuesAre, IdsInOrder DEF Map, Lists
  <2> HIDE DEF map, k
  <2>5. \A n \in 1..k : Values(map)[n] >= 0
    BY <2>2, <2>3, <2>4
  <2> QED
    BY <1>1, <2>4, <2>5, NeverPasses
<1> QED
  BY <1>1, <1>2, <1>3 DEF PlanOk

-----------------------------------------------------------------------------
(* The command that records an expense. *)

Phases == {"idle", "typed", "ready", "dividing", "divided", "accepted", "rejected", "panicked"}

Converted == Convert(input.amount, input.rate, input.from, input.to)

InLoop(z) ==
    /\ plan.kind = "weighted"
    /\ \E i \in Nat : /\ i <= Leftover(total, Collected(Entries))
                      /\ z = Given(total, Collected(Entries), i)

(* Where the command stands: what was validated, how far the division is,  *)
(* and that what was refused was not valid.                                *)
EntryInv ==
    /\ phase \in Phases /\ total \in Int /\ Fits(total)
    /\ phase = "idle" <=> input = NoInput
    /\ phase # "idle" => Form(input)
    /\ phase = "typed" => input.foreign /\ total = 0
    /\ phase \notin {"idle", "typed", "rejected"} /\ input.foreign => total = Converted
    /\ phase \in {"dividing", "divided", "accepted"} => PaymentsOk /\ PlanOk
    /\ phase = "dividing" => InLoop(sp)
    /\ phase \in {"divided", "accepted"} => SharesFor(shares, sp)
    /\ phase \in {"rejected", "panicked"} => ~(ValidPayments /\ ValidPlan)

LEMMA SameForm ==
  ASSUME UNCHANGED <<input, total>>
  PROVE  /\ (PaymentsOk' <=> PaymentsOk) /\ (PlanOk' <=> PlanOk)
         /\ (ValidPayments' <=> ValidPayments) /\ (ValidPlan' <=> ValidPlan)
         /\ plan' = plan /\ Entries' = Entries /\ PaidBy' = PaidBy /\ Converted' = Converted
<1>1. plan' = plan /\ Entries' = Entries /\ PaidBy' = PaidBy /\ Converted' = Converted
  BY DEF plan, Entries, PaidBy, Converted
<1> QED
  BY <1>1 DEF PaymentsOk, PaymentsMatch, PlanOk, ValidPayments, ValidPlan

(* A form is none with the plan of no input.                               *)
LEMMA FormIsInput == ASSUME NEW form, Form(form) PROVE form # NoInput
<1>1. form.plan.kind # "none"
  BY DEF Form
<1> QED
  BY <1>1 DEF NoInput

(* A command starts as it should.                                          *)
LEMMA EntryStarts == ASSUME Init PROVE EntryInv
<1>1. Fits(0)
  BY MoneyAssumption DEF Fits
<1>2. CASE input \in Inputs
  <2>1. Form(input) /\ input # NoInput
    BY <1>2, EntryAssumption, FormIsInput
  <2>2. /\ phase = IF input.foreign THEN "typed" ELSE "ready"
        /\ total = IF input.foreign THEN 0 ELSE input.amount
    BY <2>1 DEF Init
  <2> QED
    BY <1>1, <2>1, <2>2 DEF EntryInv, Form, Phases
<1>3. CASE input \notin Inputs
  BY <1>1, <1>3 DEF Init, EntryInv, Phases
<1> QED
  BY <1>2, <1>3

(* What leaves the form, the total and the phase alone.                    *)
LEMMA EntryRests ==
  ASSUME EntryInv, UNCHANGED <<input, phase, total, sp, shares>>
  PROVE  EntryInv'
BY SameForm DEF EntryInv, InLoop, SharesFor

(* The shares of a command that has divided the total.                     *)
LEMMA DividedIs ==
  ASSUME EntryInv, phase \in {"divided", "accepted"}
  PROVE  /\ Form(input) /\ total \in Nat /\ total > 0 /\ Fits(total) /\ PaymentsOk /\ PlanOk
         /\ Owed = OwedIn(shares) /\ Total(Owed) = total
         /\ \E k \in Nat : /\ DOMAIN shares = 1..k /\ Owed \in [1..k -> Int]
                           /\ ValidPlan => \A i \in 1..k : Owed[i] >= 0
                           /\ \A i \in 1..k : shares[i].user \in UserIds
<1>1. /\ Form(input) /\ total \in Int /\ Fits(total) /\ PaymentsOk /\ PlanOk
      /\ SharesFor(shares, sp)
  BY DEF EntryInv
<1>2. total > 0 /\ total \in Nat
  BY <1>1 DEF PaymentsOk
<1>3. Owed = OwedIn(shares)
  BY DEF Owed, OwedIn
<1> QED
  BY <1>1, <1>2, <1>3, SharesAddUp

(* A valid form passes the last check.                                     *)
LEMMA ValidIsBalanced ==
  ASSUME EntryInv, phase = "divided", ValidPayments, ValidPlan
  PROVE  IsBalanced /\ ~BalancePanics
<1>1. /\ Form(input) /\ total \in Int /\ Fits(total) /\ Total(Owed) = total
  BY DividedIs
<1>2. AddsUp(Values(PaidBy)) /\ Total(Values(PaidBy)) = total
  BY <1>1, ValidIsPaid
<1>3. PICK k \in Nat : Owed \in [1..k -> Int] /\ \A i \in 1..k : Owed[i] >= 0
  BY DividedIs
<1>4. AddsUp(Owed)
  BY <1>1, <1>3, NeverPasses
<1> QED
  BY <1>1, <1>2, <1>4 DEF IsBalanced, BalancePanics

(* The cents are given out one by one.                                     *)
LEMMA GiveCentKeeps == ASSUME EntryInv, GiveCent PROVE EntryInv'
<1> DEFINE w == Collected(Entries)
           l == Leftover(total, w)
<1>1. /\ phase = "dividing" /\ Form(input) /\ total \in Int /\ PaymentsOk /\ PlanOk
      /\ plan.kind = "weighted" /\ \E i \in Nat : i <= l /\ sp = Given(total, w, i)
  BY DEF EntryInv, GiveCent, InLoop
<1>2. Weights(w) /\ total \in Nat
  BY <1>1, WeightsAre DEF PaymentsOk
<1>3. l \in Nat
  BY <1>2, LeftoverIn
<1>4. PICK i \in Nat : i <= l /\ sp = Given(total, w, i)
  BY <1>1
<1>5. i < l
  <2>1. sp.leftover = l - i
    BY <1>4 DEF Given
  <2>2. sp.leftover > 0
    BY DEF GiveCent, Handing
  <2> HIDE DEF l
  <2> QED
    BY <1>3, <2>1, <2>2
<1>6. sp' = Given(total, w, i + 1)
  BY <1>2, <1>4, <1>5, GivenNext DEF GiveCent
<1>7. i + 1 \in Nat /\ i + 1 <= l
  <2> HIDE DEF l
  <2> QED
    BY <1>3, <1>5
<1>8. UNCHANGED <<input, phase, total, shares>>
  BY DEF GiveCent
<1>9. InLoop(sp)'
  <2>1. \E j \in Nat : j <= l /\ sp' = Given(total, w, j)
    BY <1>6, <1>7
  <2>2. plan' = plan /\ Entries' = Entries
    BY <1>8, SameForm
  <2> QED
    BY <1>1, <1>8, <2>1, <2>2 DEF InLoop
<1> QED
  BY <1>1, <1>8, <1>9, SameForm DEF EntryInv

(* Dividing starts.                                                        *)
LEMMA DivideKeeps == ASSUME EntryInv, Divide PROVE EntryInv'
<1> DEFINE w == Collected(Entries)
<1>1. /\ phase = "ready" /\ Form(input) /\ total \in Int /\ PaymentsOk /\ PlanOk /\ Fits(total)
      /\ UNCHANGED <<input, total>> /\ input # NoInput
      /\ input.foreign => total = Converted
  BY DEF EntryInv, Divide
<1>2. plan.kind \in {"equal", "exact", "weighted"} /\ total \in Nat
  BY <1>1, EntriesAre DEF PaymentsOk
<1>3. CASE plan.kind = "weighted"
  <2>1. phase' = "dividing" /\ sp' = WeightedStart(total, w)
    BY <1>3 DEF Divide
  <2>2. Weights(w)
    BY <1>1, <1>3, WeightsAre
  <2>3. sp' = Given(total, w, 0) /\ 0 <= Leftover(total, w)
    BY <1>2, <2>1, <2>2, GivenAtFirst, LeftoverIn
  <2>4. InLoop(sp)'
    <3>1. \E i \in Nat : i <= Leftover(total, w) /\ sp' = Given(total, w, i)
      BY <2>3
    <3> QED
      BY <1>1, <1>3, <3>1, SameForm DEF InLoop
  <2> QED
    BY <1>1, <2>1, <2>4, SameForm DEF EntryInv, Phases
<1>4. CASE plan.kind # "weighted"
  <2>1. phase' = "divided"
    BY <1>4 DEF Divide
  <2>2. shares' = IF plan.kind = "equal" THEN SplitEqual(total, Entries) ELSE InShares(w)
    BY <1>4 DEF Divide
  <2>3. SharesFor(shares, sp)'
    BY <1>1, <1>2, <1>4, <2>2, SameForm DEF SharesFor
  <2> QED
    BY <1>1, <2>1, <2>3, SameForm DEF EntryInv, Phases
<1> QED
  BY <1>3, <1>4

(* Dividing ends.                                                          *)
LEMMA DividedKeeps == ASSUME EntryInv, Divided PROVE EntryInv'
<1> DEFINE w == Collected(Entries)
           l == Leftover(total, w)
<1>1. /\ phase = "dividing" /\ Form(input) /\ total \in Int /\ PaymentsOk /\ PlanOk /\ Fits(total)
      /\ plan.kind = "weighted" /\ \E i \in Nat : i <= l /\ sp = Given(total, w, i)
      /\ input # NoInput /\ (input.foreign => total = Converted)
  BY DEF EntryInv, Divided, InLoop
<1>2. /\ phase' = "divided" /\ shares' = InShares(sp.owed) /\ UNCHANGED <<input, total, sp>>
      /\ ~(sp.leftover > 0)
  BY DEF Divided, Handing
<1>3. l \in Nat
  BY <1>1, WeightsAre, LeftoverIn DEF PaymentsOk
<1>4. PICK i \in Nat : i <= l /\ sp = Given(total, w, i)
  BY <1>1
<1>5. i = l
  <2>1. sp.leftover = l - i
    BY <1>4 DEF Given
  <2> HIDE DEF l
  <2> QED
    BY <1>2, <1>3, <1>4, <2>1
<1>6. SharesFor(shares, sp)'
  <2>1. sp' = Given(total, w, l) /\ shares' = InShares(sp'.owed)
    BY <1>2, <1>4, <1>5
  <2>2. plan' = plan /\ Entries' = Entries /\ total' = total
    BY <1>2, SameForm
  <2> QED
    BY <1>1, <2>1, <2>2 DEF SharesFor
<1> QED
  BY <1>1, <1>2, <1>6, SameForm DEF EntryInv, Phases

(* The conversion gives an amount that fits, or refuses.                   *)
LEMMA ConvertKeeps == ASSUME EntryInv, ConvertAmount PROVE EntryInv'
<1>1. /\ phase = "typed" /\ Form(input) /\ input.foreign /\ total = 0 /\ input # NoInput
      /\ UNCHANGED input
  BY DEF EntryInv, ConvertAmount
<1>2. input.amount \in Int /\ input.rate \in Int
  BY <1>1 DEF Form
<1>3. CASE ValidRate(input.rate)
  <2>1. phase' = "ready" /\ total' = Converted
    BY <1>3 DEF ConvertAmount, Converted
  <2>2. Converted \in Int /\ Fits(Converted)
    BY <1>2, ConvertIs DEF Converted
  <2>3. Converted' = Converted
    BY <1>1 DEF Converted
  <2> QED
    BY <1>1, <2>1, <2>2, <2>3 DEF EntryInv, Phases
<1>4. CASE ~ValidRate(input.rate)
  <2>1. phase' = "rejected" /\ total' = 0
    BY <1>1, <1>4 DEF ConvertAmount
  <2>2. ~ValidPayments'
    BY <2>1 DEF ValidPayments
  <2>3. Fits(0)
    BY MoneyAssumption DEF Fits
  <2> QED
    BY <1>1, <2>1, <2>2, <2>3 DEF EntryInv, Phases
<1> QED
  BY <1>3, <1>4

(* What is refused before it is divided was not valid,                     *)
LEMMA RefusalKeeps == ASSUME EntryInv, Invalid \/ SumPanics PROVE EntryInv'
<1>1. /\ phase = "ready" /\ phase' \in {"rejected", "panicked"} /\ UNCHANGED <<input, total>>
      /\ ~PaymentsOk \/ PlanPanics \/ ~PlanOk
  BY DEF Invalid, SumPanics, Refuse, Panic
<1>2. Form(input) /\ input # NoInput /\ total \in Int /\ Fits(total)
  BY <1>1 DEF EntryInv
<1>3. ~(ValidPayments /\ ValidPlan)
  <2> SUFFICES ASSUME ValidPayments, ValidPlan PROVE FALSE
    OBVIOUS
  <2>1. PaymentsOk
    BY <1>2, ValidIsPaid
  <2>2. total \in Nat
    BY <1>2 DEF ValidPayments
  <2>3. PlanOk /\ ~PlanPanics
    BY <1>2, <2>2, ValidIsDivided
  <2> QED
    BY <1>1, <2>1, <2>3
<1> QED
  BY <1>1, <1>2, <1>3, SameForm DEF EntryInv, Phases

(* nor was what is refused after.                                          *)
LEMMA CheckKeeps == ASSUME EntryInv, BalanceCheckPanics \/ CheckBalance PROVE EntryInv'
<1>1. phase = "divided" /\ UNCHANGED <<input, total, sp, shares>>
  BY DEF BalanceCheckPanics, CheckBalance, Panic
<1>2. /\ Form(input) /\ input # NoInput /\ total \in Int /\ Fits(total) /\ PaymentsOk /\ PlanOk
      /\ SharesFor(shares, sp) /\ (input.foreign => total = Converted)
  BY <1>1 DEF EntryInv
<1>3. CASE phase' = "accepted"
  <2>1. SharesFor(shares, sp)'
    BY <1>1, <1>2, SameForm DEF SharesFor
  <2> QED
    BY <1>1, <1>2, <1>3, <2>1, SameForm DEF EntryInv, Phases
<1>4. CASE phase' # "accepted"
  <2>1. phase' \in {"rejected", "panicked"} /\ (BalancePanics \/ ~IsBalanced)
    BY <1>4 DEF BalanceCheckPanics, CheckBalance, Panic
  <2>2. ~(ValidPayments /\ ValidPlan)
    BY <1>1, <2>1, ValidIsBalanced
  <2> QED
    BY <1>1, <1>2, <2>1, <2>2, SameForm DEF EntryInv, Phases
<1> QED
  BY <1>3, <1>4

-----------------------------------------------------------------------------
(* An expense reopened. *)

(* A map in a list is the map.                                             *)
LEMMA ListOfIs ==
  ASSUME NEW map, Map(map), DOMAIN map \subseteq UserIds, map = [u \in DOMAIN map |-> map[u]]
  PROVE  /\ ListOf(map) \in Seq(UserIds \X Int) /\ Len(ListOf(map)) = Cardinality(DOMAIN map)
         /\ Once(ListOf(map))
         /\ \A n \in DOMAIN ListOf(map) :
               ListOf(map)[n][1] \in DOMAIN map /\ ListOf(map)[n][2] = map[ListOf(map)[n][1]]
         /\ Collected(ListOf(map)) = map
<1> DEFINE U == DOMAIN map
           k == Cardinality(U)
           ids == InIdOrder(U)
           v == Values(map)
           l == ListOf(map)
<1>1. Lists(ids, U) /\ k \in Nat /\ DOMAIN v = 1..k /\ \A n \in 1..k : v[n] = map[ids[n]]
  BY ValuesAre, IdsInOrder DEF Map
<1>2. l = [n \in DOMAIN v |-> <<ids[n], v[n]>>]
  BY DEF ListOf
<1>3. (\A u \in U : map[u] \in Int) /\ U \subseteq UserIds
  BY DEF Map
<1> HIDE DEF U, ids, v, l
<1>4. \A n \in 1..k : l[n] = <<ids[n], map[ids[n]]>> /\ ids[n] \in U
  BY <1>1, <1>2 DEF Lists
<1>5. l = [n \in 1..k |-> <<ids[n], map[ids[n]]>>]
  BY <1>1, <1>2
<1> HIDE DEF k
<1>6. l \in Seq(UserIds \X Int) /\ Len(l) = k /\ DOMAIN l = 1..k
  <2>1. l \in [1..k -> UserIds \X Int]
    BY <1>3, <1>4, <1>5
  <2> QED
    BY <1>1, <2>1
<1>7. Once(l)
  BY <1>1, <1>4, <1>6 DEF Lists, Once, k
<1>8. \A n \in DOMAIN l : l[n][1] \in U /\ l[n][2] = map[l[n][1]]
  BY <1>4, <1>6
<1>9. DOMAIN Collected(l) = U
  <2>1. DOMAIN Collected(l) = {l[n][1] : n \in DOMAIN l}
    BY <1>6, CollectedIs
  <2>2. \A u \in U : \E n \in 1..k : ids[n] = u
    BY <1>1 DEF Lists, k
  <2>3. \A n \in 1..k : l[n][1] = ids[n]
    BY <1>4
  <2>4. {l[n][1] : n \in 1..k} = U
    BY <1>4, <2>2, <2>3
  <2> QED
    BY <1>6, <2>1, <2>4
<1>10. \A u \in U : Collected(l)[u] = map[u]
  <2>1. \A u \in DOMAIN Collected(l) :
           \E i \in DOMAIN l : l[i][1] = u /\ Collected(l)[u] = l[i][2]
    BY <1>6, CollectedIs
  <2> QED
    BY <1>8, <1>9, <2>1
<1>11. Collected(l) = map
  <2> DEFINE c == Collected(l)
  <2>1. c = [u \in DOMAIN c |-> c[u]]
    BY DEF Collected
  <2>2. map = [u \in U |-> map[u]]
    BY DEF U
  <2> HIDE DEF c
  <2> QED
    BY <1>9, <1>10, <2>1, <2>2 DEF c
<1> QED
  BY <1>6, <1>7, <1>8, <1>11 DEF U, k, l

(* The users of the shares s, each once: of as many shares they are the    *)
(* users in order.                                                         *)
Among(p, s, k) ==
    /\ p \in Seq(UserIds) /\ Len(p) <= k
    /\ Len(p) = k => \A i \in 1..k : p[i] = s[i].user
    /\ k > 0 => p # <<>>

LEMMA AddedIs ==
  ASSUME NEW k \in Nat, NEW s, NEW p, Among(p, s, k), s[k + 1].user \in UserIds
  PROVE  Among(Added(p, s[k + 1]), s, k + 1)
<1> DEFINE u == s[k + 1].user
<1>1. p \in Seq(UserIds) /\ Len(p) \in Nat /\ Len(p) <= k
  BY DEF Among
<1>2. CASE Contains(p, u)
  <2>1. Added(p, s[k + 1]) = p
    BY <1>2 DEF Added
  <2>2. p # <<>>
    <3>1. \E i \in 1..Len(p) : p[i] = u
      BY <1>2 DEF Contains
    <3> QED
      BY <1>1, <3>1
  <2>3. Len(p) <= k + 1 /\ Len(p) # k + 1
    BY <1>1
  <2> QED
    BY <1>1, <2>1, <2>2, <2>3 DEF Among
<1>3. CASE ~Contains(p, u)
  <2> DEFINE q == Append(p, u)
  <2>1. Added(p, s[k + 1]) = q
    BY <1>3 DEF Added
  <2>2. /\ q \in Seq(UserIds) /\ Len(q) = Len(p) + 1 /\ q[Len(p) + 1] = u
        /\ \A i \in 1..Len(p) : q[i] = p[i]
    BY <1>1
  <2> HIDE DEF q, u
  <2>3. Len(q) <= k + 1 /\ q # <<>>
    BY <1>1, <2>2
  <2>4. ASSUME Len(q) = k + 1, NEW i \in 1..(k + 1) PROVE q[i] = s[i].user
    <3>1. Len(p) = k
      BY <1>1, <2>2, <2>4
    <3>2. CASE i = k + 1
      BY <2>2, <3>1, <3>2 DEF u
    <3>3. CASE i # k + 1
      <4>1. i \in 1..k
        BY <3>3
      <4> QED
        BY <2>2, <3>1, <4>1 DEF Among
    <3> QED
      BY <3>2, <3>3
  <2> QED
    BY <2>1, <2>2, <2>3, <2>4 DEF Among
<1> QED
  BY <1>2, <1>3

(* g is the list of users, by the set of the shares that are read.         *)
Gathers(g, s, n) ==
    g = [T \in SUBSET (1..n) |-> IF T = {} THEN <<>> ELSE Added(g[T \ {Max(T)}], s[Max(T)])]

LEMMA GathersExist ==
  ASSUME NEW n \in Nat, NEW s, \A i \in 1..n : s[i].user \in UserIds
  PROVE  \E g : Gathers(g, s, n)
<1> DEFINE I == 1..n
           V == Seq(UserIds)
           step == [a \in I \X V |-> Added(a[2], s[a[1]])]
           pick == [T \in SUBSET I |-> Max(T)]
<1>1. \A i \in I, p \in V : Added(p, s[i]) \in V
  BY DEF Added
<1>2. \A i \in I, p \in V : step[<<i, p>>] = Added(p, s[i])
  OBVIOUS
<1>3. step \in [I \X V -> V]
  BY <1>1
<1>4. \A T \in SUBSET I : pick[T] = Max(T)
  OBVIOUS
<1>5. \A T \in SUBSET I : T # {} => pick[T] \in T
  BY <1>4, MaxIsIn
<1>6. IsFiniteSet(I) /\ <<>> \in V
  BY FS_Interval
<1> HIDE DEF step, pick, V
<1>7. Foldable(I, V, <<>>, step, pick)
  BY <1>3, <1>5, <1>6 DEF Foldable
<1>8. PICK g : IsFold(g, I, V, <<>>, step, pick)
  BY <1>7, FoldExists
<1>9. ASSUME NEW T \in SUBSET I
      PROVE  g[T] = IF T = {} THEN <<>> ELSE Added(g[T \ {Max(T)}], s[Max(T)])
  <2>1. CASE T = {}
    BY <1>8, <2>1 DEF IsFold
  <2>2. CASE T # {}
    <3>1. g[T] = step[<<pick[T], g[T \ {pick[T]}]>>]
      BY <1>8, <2>2 DEF IsFold
    <3>2. pick[T] \in I /\ pick[T] = Max(T)
      BY <1>4, <1>5, <2>2
    <3>3. g[T \ {pick[T]}] \in V
      BY <1>8 DEF IsFold
    <3> QED
      BY <1>2, <2>2, <3>1, <3>2, <3>3
  <2> QED
    BY <2>1, <2>2
<1>10. g = [T \in SUBSET I |-> g[T]]
  BY <1>8 DEF IsFold
<1>11. Gathers(g, s, n)
  <2> HIDE DEF I
  <2>1. g = [T \in SUBSET I |-> IF T = {} THEN <<>> ELSE Added(g[T \ {Max(T)}], s[Max(T)])]
    BY <1>9, <1>10
  <2> QED
    BY <2>1 DEF Gathers, I
<1> QED
  BY <1>11

LEMMA GathersAll ==
  ASSUME NEW n \in Nat, NEW s, \A i \in 1..n : s[i].user \in UserIds, NEW g, Gathers(g, s, n)
  PROVE  Among(g[1..n], s, n)
<1> DEFINE Q == {k \in Nat : k <= n => Among(g[1..k], s, k)}
<1>1. \A T \in SUBSET (1..n) :
         g[T] = IF T = {} THEN <<>> ELSE Added(g[T \ {Max(T)}], s[Max(T)])
  BY DEF Gathers
<1>2. 0 \in Q
  <2>1. 1..0 = {} /\ {} \in SUBSET (1..n)
    OBVIOUS
  <2>2. g[1..0] = <<>>
    BY <1>1, <2>1
  <2>3. Among(<<>>, s, 0)
    BY DEF Among
  <2> QED
    BY <2>2, <2>3
<1>3. ASSUME NEW k \in Nat, k \in Q PROVE k + 1 \in Q
  <2> SUFFICES ASSUME k + 1 <= n PROVE Among(g[1..(k + 1)], s, k + 1)
    OBVIOUS
  <2> DEFINE T == 1..(k + 1)
  <2>1. Among(g[1..k], s, k)
    BY <1>3
  <2>2. T \in SUBSET (1..n) /\ T # {} /\ k + 1 \in T
    <3>1. \A i \in T : i \in 1..n
      OBVIOUS
    <3>2. k + 1 \in T
      OBVIOUS
    <3> QED
      BY <3>1, <3>2
  <2>3. Max(T) = k + 1
    <3>1. \A m \in T : (\A i \in T : m >= i) <=> m = k + 1
      OBVIOUS
    <3> HIDE DEF T
    <3> QED
      BY <2>2, <3>1 DEF Max
  <2>4. T \ {k + 1} = 1..k
    OBVIOUS
  <2>5. g[T] = Added(g[1..k], s[k + 1])
    <3> HIDE DEF T
    <3> QED
      BY <1>1, <2>2, <2>3, <2>4
  <2>6. s[k + 1].user \in UserIds
    BY <2>2
  <2> HIDE DEF T
  <2>7. Among(g[T], s, k + 1)
    BY <2>1, <2>5, <2>6, AddedIs
  <2> QED
    BY <2>7 DEF T
<1> HIDE DEF Q
<1>4. n \in Q
  BY <1>2, <1>3, InductionOnNat
<1> QED
  BY <1>4 DEF Q

(* Those among whom the form divides: the users of the shares.             *)
LEMMA ParticipantsAre ==
  ASSUME NEW n \in Nat, NEW s, DOMAIN s = 1..n, \A i \in 1..n : s[i].user \in UserIds
  PROVE  Among(FoldLeft(Added, <<>>, s), s, n)
<1> DEFINE I == 1..n
           Is(h) == h = [T \in SUBSET I |->
                           IF T = {} THEN <<>> ELSE Added(h[T \ {Max(T)}], s[Max(T)])]
<1>1. FoldLeft(Added, <<>>, s) = (CHOOSE h : Is(h))[I]
  BY DEF FoldLeft, MapThenFoldSet
<1>2. \A h : Is(h) <=> Gathers(h, s, n)
  BY DEF Gathers
<1>3. \E h : Gathers(h, s, n)
  BY GathersExist
<1> HIDE DEF Is
<1>4. Is(CHOOSE h : Is(h))
  BY <1>2, <1>3
<1> QED
  BY <1>1, <1>2, <1>4, GathersAll

(* What the form is filled in with, when a version with these payments is  *)
(* reopened.                                                               *)
LEMMA PrefilledIs ==
  ASSUME EntryInv, phase = "accepted", NEW members \in Members,
         NEW form, form = Prefilled(View(Version), members)
  PROVE  /\ Form(form) /\ form.foreign = FALSE /\ form.amount = total /\ form.plan.kind = "equal"
         /\ \E k \in Nat : /\ DOMAIN shares = 1..k /\ k > 0
                           /\ Among(form.plan.participants, shares, k)
         /\ DOMAIN PaidBy \subseteq members /\ (\A u \in DOMAIN PaidBy : PaidBy[u] > 0)
            /\ Total(Values(PaidBy)) = total
               => Once(form.payers) /\ Collected(form.payers) = PaidBy
                  /\ \A i \in DOMAIN form.payers : form.payers[i][2] > 0
<1> DEFINE v == View(Version)
           U == DOMAIN PaidBy
           still == StillPaying(v, members)
           single == SinglePayer(v, members)
<1>1. /\ Form(input) /\ total \in Nat /\ total > 0 /\ Fits(total) /\ PaymentsOk
      /\ Total(Owed) = total
  BY DividedIs
<1>2. /\ Map(PaidBy) /\ U \subseteq UserIds /\ PaidBy = [u \in U |-> PaidBy[u]] /\ U # {}
  <2>1. PaidBy = [u \in U |-> PaidBy[u]]
    <3>1. CASE input.foreign
      BY <3>1 DEF PaidBy
    <3>2. CASE ~input.foreign
      BY <3>2 DEF PaidBy, Collected
    <3> QED
      BY <3>1, <3>2
  <2> QED
    BY <1>1, <2>1, PaidByIs DEF PaymentsOk
<1>3. PICK k \in Nat : /\ DOMAIN shares = 1..k /\ Owed \in [1..k -> Int]
                       /\ \A i \in 1..k : shares[i].user \in UserIds
  BY DividedIs
<1>4. k > 0
  <2> SUFFICES ASSUME k = 0 PROVE FALSE
    BY <1>3
  <2>1. Total(Owed) = SumFunctionOnSet(Owed, 1..0)
    BY <1>3, TotalIsSum
  <2>2. 1..0 = {}
    OBVIOUS
  <2>3. SumFunctionOnSet(Owed, {}) = 0
    BY SumEmpty
  <2> QED
    BY <1>1, <2>1, <2>2, <2>3
<1>5. v = [total |-> total, paid_by |-> ListOf(PaidBy), splits |-> shares]
  BY DEF View, Version
<1>6. /\ v.paid_by \in Seq(UserIds \X Int) /\ Len(v.paid_by) = Cardinality(U)
      /\ Collected(v.paid_by) = PaidBy
      /\ \A n \in DOMAIN v.paid_by : v.paid_by[n][1] \in U
  BY <1>2, <1>5, ListOfIs
<1>7. form = [foreign |-> FALSE, amount |-> total,
              payers |-> IF SeveralPayers(v) THEN ListOf(still) ELSE <<<<single, total>>>>,
              plan |-> [kind |-> "equal", participants |-> FoldLeft(Added, <<>>, shares)]]
  BY <1>5 DEF Prefilled
<1>8. members \subseteq UserIds /\ IsFiniteSet(members)
  BY EntryAssumption
<1> HIDE DEF v
<1>9. /\ Map(still) /\ DOMAIN still \subseteq UserIds /\ still = [u \in DOMAIN still |-> still[u]]
      /\ DOMAIN still = {m \in members \cap U : PaidBy[m] > 0}
      /\ \A u \in DOMAIN still : still[u] = PaidBy[u]
  <2> DEFINE S == {m \in members \cap U : PaidBy[m] > 0}
  <2>1. still = [u \in S |-> PaidBy[u]]
    BY <1>6 DEF StillPaying
  <2>2. IsFiniteSet(S) /\ Ordered(S) /\ \A u \in S : PaidBy[u] \in Int
    <3>1. S \subseteq U
      OBVIOUS
    <3> HIDE DEF S
    <3> QED
      BY <1>2, <3>1, FS_Subset DEF Map, Ordered
  <2>3. S \subseteq UserIds
    BY <1>2
  <2> HIDE DEF S, still
  <2>4. DOMAIN still = S /\ still = [u \in DOMAIN still |-> still[u]]
        /\ \A u \in DOMAIN still : still[u] = PaidBy[u]
    BY <2>1
  <2> QED
    BY <2>2, <2>3, <2>4 DEF Map, S
<1>10. /\ Len(v.paid_by) \in Nat /\ Len(v.paid_by) >= 1 /\ v.paid_by[1][1] \in U
  <2>1. Cardinality(U) \in Nat /\ Cardinality(U) # 0
    BY <1>2, FS_CardinalityType, FS_EmptySet DEF Map
  <2>2. 1 \in DOMAIN v.paid_by
    BY <1>6, <2>1
  <2> QED
    BY <1>6, <2>1, <2>2
<1>11. single \in UserIds
  <2>1. v.paid_by[1][1] \in UserIds
    BY <1>2, <1>10
  <2>2. members # {} => InIdOrder(members)[1] \in members
    <3>1. Ordered(members)
      BY <1>8, EntryAssumption DEF Ordered
    <3>2. Lists(InIdOrder(members), members)
      BY <1>8, <3>1, IdsInOrder
    <3>3. members # {} => Cardinality(members) \in Nat /\ Cardinality(members) # 0
      BY <1>8, FS_CardinalityType, FS_EmptySet
    <3>4. members # {} => 1 \in 1..Cardinality(members)
      BY <3>3
    <3> QED
      BY <3>2, <3>4 DEF Lists
  <2> QED
    BY <1>8, <2>1, <2>2 DEF SinglePayer
<1>12. Among(FoldLeft(Added, <<>>, shares), shares, k)
  BY <1>3, ParticipantsAre
<1>13. /\ ListOf(still) \in Seq(UserIds \X Int) /\ Once(ListOf(still))
       /\ Collected(ListOf(still)) = still
       /\ \A n \in DOMAIN ListOf(still) : /\ ListOf(still)[n][1] \in DOMAIN still
                                          /\ ListOf(still)[n][2] = still[ListOf(still)[n][1]]
  <2> HIDE DEF still
  <2> QED
    BY <1>9, ListOfIs
<1> DEFINE all == /\ U \subseteq members /\ (\A u \in U : PaidBy[u] > 0)
                  /\ Total(Values(PaidBy)) = total
           Good(payers) == /\ payers \in Seq(UserIds \X Int)
                           /\ all => Once(payers) /\ Collected(payers) = PaidBy
                                     /\ \A i \in DOMAIN payers : payers[i][2] > 0
<1>14. Good(ListOf(still))
  <2> HIDE DEF still
  <2>1. all => DOMAIN still = U
    BY <1>9
  <2>2. all => still = PaidBy
    <3>1. all => [u \in DOMAIN still |-> still[u]] = [u \in U |-> PaidBy[u]]
      BY <1>9, <2>1
    <3> HIDE DEF all
    <3> QED
      BY <1>2, <1>9, <3>1
  <2>3. \A n \in DOMAIN ListOf(still) : ListOf(still)[n][2] > 0
    BY <1>9, <1>13
  <2> QED
    BY <1>13, <2>2, <2>3
<1>15. ~SeveralPayers(v) => Good(<<<<single, total>>>>)
  <2> DEFINE one == <<<<single, total>>>>
             p == v.paid_by[1][1]
  <2>1. one \in Seq(UserIds \X Int) /\ DOMAIN one = {1} /\ one[1][1] = single /\ one[1][2] = total
    <3> HIDE DEF single
    <3> QED
      BY <1>1, <1>11
  <2>2. Once(one) /\ \A i \in DOMAIN one : one[i][2] > 0
    <3> HIDE DEF one
    <3> QED
      BY <1>1, <2>1 DEF Once
  <2> SUFFICES ASSUME ~SeveralPayers(v), all PROVE Collected(one) = PaidBy
    BY <2>1, <2>2
  <2>3. p \in U /\ single = p
    BY <1>10 DEF SinglePayer
  <2>4. Cardinality(U) = 1
    BY <1>6, <1>10 DEF SeveralPayers
  <2>5. U = {p}
    <3>1. \E x : U = {x}
      BY <1>2, <2>4, FS_Singleton DEF Map
    <3> QED
      BY <2>3, <3>1
  <2>6. PaidBy[p] = total
    <3>1. Total(Values(PaidBy)) = SumFunctionOnSet(PaidBy, U)
      BY <1>2, TotalOfValues
    <3>2. SumFunctionOnSet(PaidBy, U) = PaidBy[p]
      <4>1. IsFiniteSet(U) /\ p \in U /\ PaidBy[p] \in Int
            /\ \A u \in U : PaidBy[u] = IF u = p THEN PaidBy[p] ELSE 0
        BY <1>2, <2>5 DEF Map
      <4> HIDE DEF U, p
      <4> QED
        BY <4>1, SumSingle
    <3> QED
      BY <3>1, <3>2
  <2>7. /\ DOMAIN Collected(one) = {one[i][1] : i \in DOMAIN one}
        /\ \A u \in DOMAIN Collected(one) :
              \E i \in DOMAIN one : one[i][1] = u /\ Collected(one)[u] = one[i][2]
    <3> HIDE DEF one
    <3> QED
      BY <2>1, CollectedIs
  <2> DEFINE c == Collected(one)
  <2>8. c = [u \in DOMAIN c |-> c[u]]
    BY DEF Collected
  <2> HIDE DEF one, c
  <2>9. DOMAIN c = {p}
    BY <2>1, <2>3, <2>7 DEF c
  <2>10. c[p] = total
    BY <2>1, <2>7, <2>9 DEF c
  <2>11. c = [u \in {p} |-> total]
    BY <2>8, <2>9, <2>10
  <2>12. PaidBy = [u \in {p} |-> total]
    BY <1>2, <2>5, <2>6
  <2> QED
    BY <2>11, <2>12 DEF c
<1> HIDE DEF still, single, Good
<1>16. Good(form.payers) /\ form.foreign = FALSE /\ form.amount = total
       /\ form.plan = [kind |-> "equal", participants |-> FoldLeft(Added, <<>>, shares)]
  BY <1>7, <1>14, <1>15
<1>17. form.plan.kind = "equal" /\ form.plan.participants = FoldLeft(Added, <<>>, shares)
  BY <1>16
<1>18. Form(form)
  <2>1. form.payers \in Seq(UserIds \X Int) /\ form.plan.participants \in Seq(UserIds)
    BY <1>12, <1>16, <1>17 DEF Good, Among
  <2>2. form.foreign \in BOOLEAN /\ ~form.foreign /\ form.amount \in Int /\ Fits(form.amount)
    <3>1. form.foreign = FALSE /\ form.amount = total
      BY <1>16
    <3>2. form.amount \in Int /\ Fits(form.amount)
      BY <1>1, <3>1
    <3>3. form.foreign \in BOOLEAN /\ ~form.foreign
      BY <3>1, Zenon
    <3> QED
      BY <3>2, <3>3, Zenon
  <2> QED
    BY <1>17, <2>1, <2>2 DEF Form
<1> QED
  BY <1>3, <1>4, <1>12, <1>16, <1>17, <1>18 DEF Good

LEMMA SaveKeeps == ASSUME EntryInv, NEW members \in Members, SaveAgain(members) PROVE EntryInv'
<1>1. /\ phase = "accepted" /\ phase' = "ready" /\ total' = total
      /\ input' = Prefilled(View(Version), members)
  BY DEF SaveAgain
<1>2. Form(input') /\ input'.foreign = FALSE
  BY <1>1, PrefilledIs
<1>3. Form(input)' /\ ~(input.foreign)' /\ input' # NoInput
  <2>1. ~(input.foreign)'
    BY <1>2, Zenon
  <2> QED
    BY <1>2, <2>1, FormIsInput DEF Form
<1>4. total \in Int /\ Fits(total)
  BY DEF EntryInv
<1> QED
  BY <1>1, <1>3, <1>4 DEF EntryInv, Phases

(* Every step of the command keeps its invariant.                          *)
LEMMA EntryKeeps == ASSUME EntryInv, [Next]_vars PROVE EntryInv'
<1>1. CASE UNCHANGED vars
  BY <1>1, EntryRests DEF vars, entryVars
<1>2. CASE SettleStep
  BY <1>2, EntryRests DEF SettleStep, entryVars
<1> QED
  BY <1>1, <1>2, ConvertKeeps, RefusalKeeps, DivideKeeps, GiveCentKeeps, DividedKeeps, CheckKeeps,
     SaveKeeps DEF Next

(* The command that saves an untouched expense is the one that recorded    *)
(* it, when that one was valid and those who paid are there.               *)
EditInv ==
    first.honest /\ DOMAIN first.paid_by \subseteq first.members =>
        /\ ValidPayments /\ ValidPlan /\ ~input.foreign /\ plan.kind = "equal"
        /\ total = first.total /\ PaidBy = first.paid_by
        /\ first.plan.kind = "equal" =>
              /\ first.splits = SplitEqual(total, first.plan.participants)
              /\ Len(Entries) = Len(first.splits) => Entries = first.plan.participants

LEMMA EditRests ==
  ASSUME EditInv, UNCHANGED <<input, total, first>>
  PROVE  EditInv'
BY SameForm DEF EditInv

(* Reopening an expense.                                                   *)
LEMMA Reopened == ASSUME EntryInv, NEW members \in Members, SaveAgain(members) PROVE EditInv'
<1>1. /\ phase = "accepted" /\ total' = total /\ input' = Prefilled(View(Version), members)
      /\ first' = [total |-> total, paid_by |-> PaidBy, splits |-> shares, plan |-> plan,
                   members |-> members, honest |-> ValidPayments /\ ValidPlan]
  BY DEF SaveAgain
<1>2. /\ first'.plan = plan /\ first'.members = members
      /\ first'.total = total /\ first'.paid_by = PaidBy /\ first'.splits = shares
  BY <1>1
<1>3. first'.honest <=> ValidPayments /\ ValidPlan
  <2>1. first'.honest = (ValidPayments /\ ValidPlan)
    BY <1>1
  <2> QED
    BY <2>1, Zenon
<1> SUFFICES ASSUME ValidPayments, ValidPlan, DOMAIN PaidBy \subseteq members
             PROVE  /\ ValidPayments' /\ ValidPlan' /\ ~(input.foreign)' /\ plan'.kind = "equal"
                    /\ PaidBy' = PaidBy
                    /\ plan.kind = "equal" =>
                          /\ shares = SplitEqual(total, plan.participants)
                          /\ Len(Entries') = Len(shares) => Entries' = plan.participants
  BY <1>1, <1>2, <1>3 DEF EditInv
<1>4. /\ Form(input) /\ total \in Nat /\ total > 0 /\ Fits(total) /\ PlanOk
      /\ SharesFor(shares, sp)
  BY <1>1, DividedIs DEF EntryInv
<1>5. Total(Values(PaidBy)) = total /\ \A u \in DOMAIN PaidBy : PaidBy[u] > 0
  BY <1>4, ValidIsPaid
<1>6. /\ Form(input') /\ input'.foreign = FALSE /\ input'.plan.kind = "equal"
      /\ Once(input'.payers) /\ Collected(input'.payers) = PaidBy
      /\ \A i \in DOMAIN input'.payers : input'.payers[i][2] > 0
  BY <1>1, <1>5, PrefilledIs
<1>7. PICK k \in Nat : /\ DOMAIN shares = 1..k /\ k > 0
                       /\ Among(input'.plan.participants, shares, k)
  BY <1>1, PrefilledIs
<1>8. ~(input.foreign)'
  BY <1>6, Zenon
<1>9. PaidBy' = PaidBy /\ plan'.kind = "equal" /\ Entries' = input'.plan.participants
  BY <1>6, <1>8 DEF PaidBy, plan, Entries
<1>10. ValidPayments'
  <2>1. Values(PaidBy)' = Values(PaidBy)
    BY <1>9 DEF Values
  <2> QED
    BY <1>1, <1>4, <1>5, <1>6, <2>1 DEF ValidPayments, Once
<1>11. ValidPlan'
  BY <1>7, <1>9 DEF ValidPlan, Among
<1>12. ASSUME plan.kind = "equal"
       PROVE  /\ shares = SplitEqual(total, plan.participants)
              /\ Len(Entries') = Len(shares) => Entries' = plan.participants
  <2> DEFINE p == plan.participants
             q == input'.plan.participants
  <2>1. Entries = p /\ p \in Seq(UserIds) /\ p # <<>>
    BY <1>4, <1>12, EntriesAre DEF Entries, PlanOk
  <2>2. shares = SplitEqual(total, p)
    BY <1>4, <1>12, <2>1 DEF SharesFor
  <2>3. DOMAIN shares = 1..Len(p) /\ Len(p) \in Nat /\ \A i \in DOMAIN shares : shares[i].user = p[i]
    BY <1>4, <2>1, <2>2, EqualIs
  <2>4. Len(shares) = k /\ Len(p) = k
    BY <1>7, <2>3
  <2>5. ASSUME Len(q) = k PROVE q = p
    <3>1. q \in Seq(UserIds) /\ \A i \in 1..k : q[i] = shares[i].user
      BY <1>7, <2>5 DEF Among
    <3> QED
      BY <2>1, <2>3, <2>4, <2>5, <3>1
  <2> QED
    BY <1>9, <2>2, <2>4, <2>5
<1> QED
  BY <1>8, <1>9, <1>10, <1>11, <1>12

-----------------------------------------------------------------------------
(* The balances settled up. *)

(* Those of a balanced expense sum to zero.                                *)
LEMMA NetIsBalanced ==
  ASSUME EntryInv, phase = "divided", IsBalanced
  PROVE  Balanced(Net)
<1> DEFINE U == DOMAIN PaidBy
           I == DOMAIN shares
           who == [i \in I |-> shares[i].user]
           V == {who[i] : i \in I}
           D == U \cup V
           paid == [u \in D |-> IF u \in U THEN PaidBy[u] ELSE 0]
           owed == [u \in D |-> OwedBy(u)]
           net == [u \in D |-> paid[u] - owed[u]]
<1>1. Form(input) /\ total \in Nat
  BY DividedIs
<1>2. Map(PaidBy) /\ U \subseteq UserIds
  BY <1>1, PaidByIs
<1>3. PICK k \in Nat : /\ I = 1..k /\ Owed \in [1..k -> Int]
                       /\ \A i \in 1..k : shares[i].user \in UserIds
  BY DividedIs
<1>4. Summable(Owed, I)
  BY <1>3, FS_Interval DEF Summable
<1>5. Total(Owed) = SumFunctionOnSet(Owed, I)
  BY <1>3, TotalIsSum
<1>6. Total(Values(PaidBy)) = SumFunctionOnSet(PaidBy, U)
  BY <1>2, TotalOfValues
<1>7. V \subseteq UserIds /\ D \subseteq UserIds
  BY <1>2, <1>3
<1>8. \A i \in I : who[i] \in D
  OBVIOUS
<1>9. \A u \in D : owed[u] = SumFunctionOnSet(Owed, Class(who, I, u))
  <2>1. \A u : {i \in I : shares[i].user = u} = Class(who, I, u)
    BY DEF Class
  <2> QED
    BY <2>1 DEF OwedBy
<1>10. IsFiniteSet(D)
  <2>1. IsFiniteSet(I) /\ IsFiniteSet(U)
    BY <1>2, <1>4 DEF Map, Summable
  <2>2. IsFiniteSet(V)
    <3> HIDE DEF I, who
    <3> QED
      BY <2>1, FiniteImage
  <2> HIDE DEF U, V
  <2> QED
    BY <2>1, <2>2, FS_Union
<1>11. \A u \in D : /\ paid[u] = IF u \in U THEN PaidBy[u] ELSE 0
                    /\ net[u] = paid[u] - owed[u]
  OBVIOUS
<1>12. Net = net
  BY DEF Net
<1>13. U \subseteq D /\ DOMAIN net = D
  OBVIOUS
<1>14. \A u \in U : PaidBy[u] \in Int
  BY <1>2 DEF Map
<1> HIDE DEF U, I, who, V, D, paid, owed, net
<1>15. SumFunctionOnSet(owed, D) = SumFunctionOnSet(Owed, I)
  BY <1>4, <1>8, <1>9, <1>10, SumByParts
<1>16. Summable(owed, D) /\ Summable(paid, D)
  <2>1. ASSUME NEW u \in D PROVE owed[u] \in Int
    <3>1. Class(who, I, u) \subseteq I
      BY DEF Class
    <3> QED
      BY <1>4, <1>9, <3>1, SummableSubset, SumInt
  <2> QED
    BY <1>10, <1>11, <1>14, <2>1 DEF Summable
<1>17. SumFunctionOnSet(paid, D) = SumFunctionOnSet(PaidBy, U)
  <2>1. SumFunctionOnSet(paid, U) = SumFunctionOnSet(paid, D)
    BY <1>11, <1>13, <1>16, SumNonZero
  <2>2. Summable(PaidBy, U) /\ \A u \in U : paid[u] = PaidBy[u]
    BY <1>10, <1>11, <1>13, <1>14, FS_Subset DEF Summable
  <2> QED
    BY <2>1, <2>2, SumSame
<1>18. SumFunctionOnSet(net, D) = 0
  <2>1. Summable(net, D) /\ \A u \in D : paid[u] = owed[u] + net[u]
    BY <1>11, <1>16 DEF Summable
  <2>2. SumFunctionOnSet(paid, D) = SumFunctionOnSet(owed, D) + SumFunctionOnSet(net, D)
    BY <1>16, <2>1, SumAdd
  <2>3. SumFunctionOnSet(paid, D) = total /\ SumFunctionOnSet(owed, D) = total
    BY <1>5, <1>6, <1>15, <1>17 DEF IsBalanced
  <2>4. SumFunctionOnSet(net, D) \in Int
    BY <2>1, SumInt
  <2> QED
    BY <1>1, <2>2, <2>3, <2>4
<1>19. Ordered(D) /\ \A u \in D : net[u] \in Int
  BY <1>7, <1>11, <1>16, EntryAssumption DEF Ordered, Summable
<1> QED
  BY <1>10, <1>12, <1>13, <1>18, <1>19 DEF Balanced, SumFunction

(* Nobody has a balance yet.                                               *)
LEMMA NoBalances == Balanced(<<>>)
<1>1. DOMAIN <<>> = {} /\ IsFiniteSet({})
  BY FS_EmptySet
<1>2. SumFunctionOnSet(<<>>, {}) = 0
  BY SumEmpty
<1> QED
  BY <1>1, <1>2 DEF Balanced, Ordered, SumFunction

LEMMA LoopStarts == ASSUME Init PROVE LoopInv
<1>1. Balanced(balances) /\ st = Start(balances)
  BY NoBalances, BalancesAssumption DEF Init, SettleInit
<1> QED
  BY <1>1, StartKeeps DEF LoopInv

LEMMA EntryKeepsLoop == ASSUME EntryInv, LoopInv, [Next]_vars PROVE LoopInv'
<1>1. CASE UNCHANGED settleVars
  BY <1>1 DEF LoopInv, settleVars
<1>2. CASE SettleStep
  BY <1>2, LoopKeeps DEF SettleStep
<1>3. CASE CheckBalance /\ IsBalanced
  <2>1. phase = "divided" /\ balances' = Net /\ st' = Start(Net)
    BY <1>3 DEF CheckBalance
  <2>2. Balanced(Net)
    BY <1>3, <2>1, NetIsBalanced
  <2> QED
    BY <2>1, <2>2, StartKeeps DEF LoopInv
<1>4. CASE CheckBalance /\ ~IsBalanced
  BY <1>1, <1>4 DEF CheckBalance
<1> QED
  BY <1>1, <1>2, <1>3, <1>4 DEF Next, vars, ConvertAmount, Invalid, SumPanics, Refuse, Panic,
     Divide, GiveCent, Divided, BalanceCheckPanics, SaveAgain

(* Whatever is entered, the invariants hold all along.                     *)
LEMMA EntryHolds == Spec => [](EntryInv /\ EditInv /\ LoopInv)
<1>1. Init => EntryInv /\ EditInv /\ LoopInv
  <2>1. Init => EditInv
    BY DEF Init, EditInv, Unopened
  <2> QED
    BY <2>1, EntryStarts, LoopStarts
<1>2. EntryInv /\ EditInv /\ LoopInv /\ [Next]_vars => (EntryInv /\ EditInv /\ LoopInv)'
  <2> SUFFICES ASSUME EntryInv, EditInv, LoopInv, [Next]_vars
               PROVE  EntryInv' /\ EditInv' /\ LoopInv'
    OBVIOUS
  <2>1. EditInv'
    <3>1. CASE UNCHANGED <<input, total, first>>
      BY <3>1, EditRests
    <3>2. CASE ConvertAmount
      <4>1. input.foreign /\ UNCHANGED <<input, first>>
        BY <3>2 DEF ConvertAmount, EntryInv
      <4>2. ~(first.honest /\ DOMAIN first.paid_by \subseteq first.members)
        BY <4>1 DEF EditInv
      <4> QED
        BY <4>1, <4>2 DEF EditInv
    <3>3. CASE \E members \in Members : SaveAgain(members)
      BY <3>3, Reopened
    <3> QED
      BY <3>1, <3>2, <3>3 DEF Next, vars, entryVars, SettleStep, Invalid, SumPanics, Refuse, Panic,
         Divide, GiveCent, Divided, BalanceCheckPanics, CheckBalance
  <2> QED
    BY <2>1, EntryKeeps, EntryKeepsLoop
<1> QED
  BY <1>1, <1>2, PTL DEF Spec

(* split.rs promises "splits that always sum exactly to total": for every  *)
(* plan and every total that SplitPlan::compute is called with, whatever   *)
(* the weights are, no cent is lost and none is made.                      *)
THEOREM DividesExactly == Spec => []DivisionIsExact
<1>1. EntryInv => DivisionIsExact
  BY DividedIs DEF DivisionIsExact
<1> QED
  BY <1>1, EntryHolds, PTL

(* split_equal and split_by_weights are fair: equal shares differ by a     *)
(* cent at most and the first ones are not the smaller, a weighted share   *)
(* is less than a cent away from its exact value, and who weighs more      *)
(* never owes less.                                                        *)
THEOREM DividesFairly == Spec => []SharesAreFair
<1>1. ASSUME EntryInv PROVE SharesAreFair
  <2> SUFFICES ASSUME phase \in {"divided", "accepted"}
               PROVE  /\ plan.kind = "equal" => \A i, j \in DOMAIN shares :
                            i < j => shares[i].owed - shares[j].owed \in {0, 1}
                      /\ plan.kind = "weighted" =>
                            \A u \in DOMAIN Collected(Entries) :
                               /\ Abs(TotalWeight(Collected(Entries)) * sp.owed[u]
                                         - total * Collected(Entries)[u])
                                     < TotalWeight(Collected(Entries))
                               /\ \A v \in DOMAIN Collected(Entries) :
                                     Collected(Entries)[v] < Collected(Entries)[u]
                                        => sp.owed[v] <= sp.owed[u]
    BY DEF SharesAreFair
  <2>1. Form(input) /\ total \in Nat /\ total > 0 /\ PlanOk /\ SharesFor(shares, sp)
    BY <1>1, DividedIs DEF EntryInv
  <2>2. CASE plan.kind = "equal"
    <3>1. Entries \in Seq(UserIds) /\ Entries # <<>> /\ shares = SplitEqual(total, Entries)
      BY <2>1, <2>2, EntriesAre DEF SharesFor, PlanOk
    <3>2. \A i, j \in DOMAIN shares : i < j => shares[i].owed - shares[j].owed \in {0, 1}
      BY <2>1, <3>1, EqualIs
    <3> QED
      BY <2>2, <3>2
  <2>3. CASE plan.kind = "weighted"
    <3> DEFINE w == Collected(Entries)
    <3>1. Weights(w) /\ sp = Given(total, w, Leftover(total, w))
      BY <2>1, <2>3, WeightsAre DEF SharesFor
    <3>2. sp.owed = Given(total, w, Leftover(total, w)).owed
      BY <3>1
    <3> HIDE DEF w
    <3>3. \A u \in DOMAIN w : /\ Abs(TotalWeight(w) * sp.owed[u] - total * w[u]) < TotalWeight(w)
                              /\ \A v \in DOMAIN w : w[v] < w[u] => sp.owed[v] <= sp.owed[u]
      BY <2>1, <3>1, <3>2, GivenFairly
    <3> QED
      BY <2>3, <3>3 DEF w
  <2> QED
    BY <2>2, <2>3
<1> QED
  BY <1>1, EntryHolds, PTL

(* Neither build_fields nor the checks before and after it refuse an       *)
(* expense that adds up, and no checked sum panics on one.                 *)
THEOREM RefusesNothingValid == Spec => []NothingValidRefused
<1>1. EntryInv => NothingValidRefused
  BY DEF EntryInv, NothingValidRefused
<1> QED
  BY <1>1, EntryHolds, PTL

(* convert_currency gives the nearest amount of minor units, at every      *)
(* rate and between any two currencies, as long as there is one.           *)
THEOREM ConvertsToNearest == Spec => []ConvertedToNearest
<1>1. ASSUME EntryInv PROVE ConvertedToNearest
  <2> DEFINE num == input.amount * input.rate * 10^MinorUnits(input.to)
             den == RateScale * 10^MinorUnits(input.from)
  <2> SUFFICES ASSUME input # NoInput, phase \notin {"typed", "rejected"}, input.foreign,
                      2 * Abs(num) < (2 * MaxAmount + 1) * den
               PROVE  NearestTo(total, num, den)
    BY DEF ConvertedToNearest
  <2>1. Form(input) /\ total = Converted
    BY <1>1 DEF EntryInv
  <2>2. input.amount \in Int /\ input.rate \in Int
    BY <2>1 DEF Form
  <2> HIDE DEF num, den
  <2>3. NearestTo(Converted, num, den)
    BY <2>2, ConvertIs DEF Converted, num, den
  <2> QED
    BY <2>1, <2>3
<1> QED
  BY <1>1, EntryHolds, PTL

(* Opening the form of a valid expense and saving it untouched is never    *)
(* refused while those who paid are in the group, and keeps its total,     *)
(* its payers and an equal division, whoever is in the group.              *)
THEOREM EditingKeeps == Spec => []KeptByEditing
<1>1. ASSUME EntryInv, EditInv PROVE KeptByEditing
  <2> SUFFICES ASSUME first.honest, DOMAIN first.paid_by \subseteq first.members
               PROVE  /\ phase \notin {"rejected", "panicked"}
                      /\ phase = "accepted" =>
                            /\ total = first.total /\ PaidBy = first.paid_by
                            /\ first.plan.kind = "equal" /\ Len(shares) = Len(first.splits)
                                  => shares = first.splits
    BY DEF KeptByEditing
  <2>1. /\ ValidPayments /\ ValidPlan /\ plan.kind = "equal"
        /\ total = first.total /\ PaidBy = first.paid_by
        /\ first.plan.kind = "equal" =>
              /\ first.splits = SplitEqual(total, first.plan.participants)
              /\ Len(Entries) = Len(first.splits) => Entries = first.plan.participants
    BY <1>1 DEF EditInv
  <2>2. phase \notin {"rejected", "panicked"}
    BY <1>1, <2>1 DEF EntryInv
  <2>3. ASSUME phase = "accepted", first.plan.kind = "equal", Len(shares) = Len(first.splits)
        PROVE  shares = first.splits
    <3>1. Form(input) /\ total \in Nat /\ PlanOk /\ SharesFor(shares, sp)
      BY <1>1, <2>3, DividedIs DEF EntryInv
    <3>2. Entries \in Seq(UserIds) /\ Entries # <<>> /\ shares = SplitEqual(total, Entries)
      BY <2>1, <3>1, EntriesAre DEF SharesFor, PlanOk
    <3>3. DOMAIN shares = 1..Len(Entries) /\ Len(Entries) \in Nat
      BY <3>1, <3>2, EqualIs
    <3>4. Len(shares) = Len(Entries)
      BY <3>3
    <3> QED
      BY <2>1, <2>3, <3>2, <3>4
  <2> QED
    BY <2>1, <2>2, <2>3
<1> QED
  BY <1>1, EntryHolds, PTL

(* The balances that an expense leaves are settled to the cent.            *)
THEOREM EntriesSettle == Spec => []SettlesEverybody
BY EntryHolds, LoopSettles, PTL
=============================================================================
