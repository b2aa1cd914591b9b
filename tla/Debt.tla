-------------------------------- MODULE Debt --------------------------------
(***************************************************************************)
(* simplify_debts (splittr-domain/src/debt.rs): who pays whom to settle    *)
(* balances, the largest debtor paying the largest creditor until one side *)
(* runs out.  Start and Step are the loop's state and its body, so that    *)
(* SettleUp can run it and SimplifyDebts can evaluate it.                  *)
(***************************************************************************)
EXTENDS Integers, SequencesExt

CONSTANT UserLeq(_, _)      \* the order of user ids

(* The parties are pairs <<user, what is left of the amount>>.             *)
ByAmountDesc(a, b) == a[2] > b[2] \/ (a[2] = b[2] /\ UserLeq(a[1], b[1]))

Debtors(balances)   == {<<u, -balances[u]>> : u \in {v \in DOMAIN balances : balances[v] < 0}}
Creditors(balances) == {<<u, balances[u]>> : u \in {v \in DOMAIN balances : balances[v] > 0}}

(* A set in order: each element has its place after those before it.       *)
InOrder(S, Before(_, _)) ==
    LET Place(a) == Cardinality({b \in S : Before(b, a)})
    IN  [n \in 1..Cardinality(S) |-> CHOOSE a \in S : Place(a) = n]

Sorted(parties) == InOrder(parties, ByAmountDesc)

Start(balances) ==
    [debtors   |-> Sorted(Debtors(balances)),
     creditors |-> Sorted(Creditors(balances)),
     transfers |-> <<>>]

Running(st) == st.debtors # <<>> /\ st.creditors # <<>>

Transfer(from, to, amount) == [from |-> from, to |-> to, amount |-> amount]

\* (mutated form: one unit at a time)
PayOne(st) == 1

Pay(st) ==
    LET owed == Head(st.debtors)[2]
        due  == Head(st.creditors)[2]
    IN  IF owed < due THEN owed ELSE due

\* (mutated form: the rest of the amount is forgotten)
ForgetRest(parties, pay) == Tail(parties)

\* (mutated form: the amount is not reduced)
KeepAmount(parties, pay) == IF Head(parties)[2] = pay THEN Tail(parties) ELSE parties

\* (mutated form: a settled party stays)
KeepSettled(parties, pay) ==
    <<<<Head(parties)[1], Head(parties)[2] - pay>>>> \o Tail(parties)

(* The first party's amount is reduced; a party settled is passed over.    *)
Reduce(parties, pay) ==
    IF Head(parties)[2] = pay
    THEN Tail(parties)
    ELSE <<<<Head(parties)[1], Head(parties)[2] - pay>>>> \o Tail(parties)

Step(st) ==
    LET pay == Pay(st)
    IN  [debtors   |-> Reduce(st.debtors, pay),
         creditors |-> Reduce(st.creditors, pay),
         transfers |-> IF pay > 0
                       THEN Append(st.transfers,
                                   Transfer(Head(st.debtors)[1], Head(st.creditors)[1], pay))
                       ELSE st.transfers]

(* Each iteration settles a party, so as many iterations as parties do.    *)
SimplifyDebts(balances) ==
    LET Iterate(st, i) == IF Running(st) THEN Step(st) ELSE st
        start == Start(balances)
    IN  FoldLeft(Iterate, start, start.debtors \o start.creditors).transfers
=============================================================================
