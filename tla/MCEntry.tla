------------------------------ MODULE MCEntry ------------------------------
(***************************************************************************)
(* Forms and ledgers for model-checking Entry: payments and plans that are *)
(* right, that do not add up, that name a user twice or overflow, foreign  *)
(* amounts, and all ledgers of five users with small balances.             *)
(***************************************************************************)
EXTENDS Entry

Leq(a, b) == a <= b

People == 1..5

ZeroSum(n, bound) == {b \in [1..n -> -bound..bound] : SumFunction(b) = 0}

FiveUsers == ZeroSum(5, 4)

M == MaxAmount

Payments(a) ==
    {<<>>, <<<<2, a>>>>, <<<<2, a - 3>>, <<1, 3>>>>, <<<<1, 2>>, <<1, a>>>>,
     <<<<1, M>>, <<2, M>>, <<3, a + 2>>>>,     \* wraps to a
     <<<<1, M>>, <<2, a>>, <<3, -M>>>>}        \* passes M on the way to a

Amounts(a) ==
    {<<>>, <<<<1, a>>>>, <<<<2, a - 2>>, <<3, 2>>>>, <<<<1, 3>>, <<2, 4>>>>,
     <<<<1, a>>, <<1, 1>>>>, <<<<1, M>>, <<2, a>>, <<3, -M>>>>}

Weights ==
    {<<>>} \cup {<<<<3, w[3]>>, <<1, w[1]>>, <<2, w[2]>>>> : w \in [1..3 -> 0..4]}

Plans(a) ==
    {[kind |-> "equal", participants |-> users]
        : users \in {<<>>, <<2>>, <<3, 1, 2>>, <<2, 2, 1>>, <<4, 3, 2, 1>>}}
    \cup {[kind |-> "exact", entries |-> e] : e \in Amounts(a)}
    \cup {[kind |-> "weighted", entries |-> e] : e \in Weights}

Local == UNION {{[foreign |-> FALSE, amount |-> a, payers |-> pays, plan |-> plan_]
                    : pays \in Payments(a), plan_ \in Plans(a)} : a \in {0, 1, 5, 11, M}}

Foreign ==
    {[foreign |-> TRUE, amount |-> a, rate |-> r, from |-> c[1], to |-> c[2],
      payers |-> <<<<1, 0>>>>, plan |-> [kind |-> "equal", participants |-> <<1, 2, 3>>]]
        : a \in {1, 3, 8, 25, 85, M}, r \in {-1, 0, 1, 3, 7, 10, 15, 2000},
          c \in {<<"EUR", "USD">>, <<"JPY", "USD">>, <<"USD", "JPY">>, <<"BHD", "USD">>}}

(* All are still in the group, or the first of them has left it, or all.   *)
Remaining == {1..4, 2..4, {}}

Forms == Local \cup Foreign
=============================================================================
