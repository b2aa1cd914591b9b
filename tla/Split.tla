------------------------------- MODULE Split -------------------------------
(***************************************************************************)
(* Dividing a total among participants (splittr-domain/src/split.rs).      *)
(* Totals are positive where these are called (build_fields); a result is  *)
(* a sequence of shares.  WeightedStart and HandOut are the state and the  *)
(* body of split_by_weights' loop, so that Entry can run it.               *)
(***************************************************************************)
EXTENDS Debt

Share(user, owed) == [user |-> user, owed |-> owed]

\* (mutated form: every participant gets a cent of the remainder)
ExtraForAll(i, remainder) == IF remainder > 0 THEN 1 ELSE 0

(* The first participants get a cent of the remainder each.                *)
Extra(i, remainder) == IF i <= remainder THEN 1 ELSE 0

SplitEqual(total, users) ==
    LET base      == total \div Len(users)
        remainder == total - base * Len(users)
    IN  [i \in DOMAIN users |-> Share(users[i], base + Extra(i, remainder))]

-----------------------------------------------------------------------------
(* Weighted shares: rounded down first, then the cents left over are given *)
(* out one by one, to the largest remainder first.                         *)
TotalWeight(weights) == SumFunction(weights)

InIdOrder(U) == InOrder(U, UserLeq)

WeightedStart(total, weights) ==
    LET W    == TotalWeight(weights)
        Floored(u)   == (total * weights[u]) \div W
        Remainder(u) == (total * weights[u]) % W
        Before(u, v) == \/ Remainder(u) > Remainder(v)
                        \/ Remainder(u) = Remainder(v) /\ UserLeq(u, v)
    IN  [owed     |-> [u \in DOMAIN weights |-> Floored(u)],
         order    |-> InOrder(DOMAIN weights, Before),
         leftover |-> total - SumFunction([u \in DOMAIN weights |-> Floored(u)]),
         i        |-> 0]

\* (mutated form: the first in line gets all of them)
KeepGiving(sp) == Head(sp.order)

Receiver(sp) == sp.order[(sp.i % Len(sp.order)) + 1]

\* (mutated form: the last cent is kept)
HandingMost(sp) == sp.leftover > 1

Handing(sp) == sp.leftover > 0

HandOut(sp) ==
    [sp EXCEPT !.owed[Receiver(sp)] = @ + 1, !.leftover = @ - 1, !.i = @ + 1]

InShares(owed) == [i \in DOMAIN InIdOrder(DOMAIN owed) |->
                      Share(InIdOrder(DOMAIN owed)[i], owed[InIdOrder(DOMAIN owed)[i]])]
=============================================================================
