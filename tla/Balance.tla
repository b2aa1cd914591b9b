------------------------------ MODULE Balance ------------------------------
(***************************************************************************)
(* Balances derived from a read model p (splittr-crdt/src/balance.rs, and  *)
(* for_group of projection.rs).  Amounts are integers; the code's checked  *)
(* arithmetic only adds a panic on 64-bit overflow.  A map keeps no zero.  *)
(***************************************************************************)
EXTENDS Authority, SequencesExt

D == INSTANCE Debt WITH UserLeq <- SortsAtOrBefore

NonZero(net) == [u \in {v \in DOMAIN net : net[v] # 0} |-> net[u]]

(* The entries of a map of users to amounts that resolve to u, added up.   *)
ShareOf(p, amounts, u) ==
    SumFunctionOnSet(amounts, {v \in DOMAIN amounts : Resolve(p, v) = u})

SumOver(S, amount(_)) == SumFunction([x \in S |-> amount(x)])

(* Drafts do not affect balances.                                          *)
Counted(p) == {e \in DOMAIN p.expenses : p.expenses[e].published}

ExpenseDelta(p, e, u) ==
    ShareOf(p, p.expenses[e].fields.paid_by, u) - ShareOf(p, p.expenses[e].fields.splits, u)

\* (mutated form: the ends of a settlement are not resolved)
RawSettlementDelta(p, s, u) ==
    LET data == p.settlements[s]
    IN  (IF data.from = u THEN data.amount ELSE 0) - (IF data.to = u THEN data.amount ELSE 0)

\* (mutated form: only the payer of a settlement is credited)
CreditOnly(p, s, u) ==
    IF Resolve(p, p.settlements[s].from) = u THEN p.settlements[s].amount ELSE 0

SettlementDelta(p, s, u) ==
    LET data == p.settlements[s]
    IN  (IF Resolve(p, data.from) = u THEN data.amount ELSE 0)
          - (IF Resolve(p, data.to) = u THEN data.amount ELSE 0)

(* Everybody the ledger names, resolved.                                   *)
People(p) ==
    {Resolve(p, u) : u \in
        (UNION {FieldUsers(p.expenses[e].fields) : e \in Counted(p)})
        \cup (UNION {{p.settlements[s].from, p.settlements[s].to} : s \in DOMAIN p.settlements})}

NetBalances(p) ==
    NonZero([u \in People(p) |->
        SumOver(Counted(p), LAMBDA e : ExpenseDelta(p, e, u))
          + SumOver(DOMAIN p.settlements, LAMBDA s : SettlementDelta(p, s, u))])

SettleUp(p) == D!SimplifyDebts(NetBalances(p))

ForGroup(p, group) ==
    [p EXCEPT !.groups = <<>>, !.users = <<>>, !.devices = <<>>, !.friends = <<>>,
              !.expenses = [e \in {x \in DOMAIN @ : @[x].group = group} |-> @[e]],
              !.settlements = [s \in {x \in DOMAIN @ : @[x].group = group} |-> @[s]]]

-----------------------------------------------------------------------------
\* (mutated form: what was received does not count)
PaidOnly(p, s, me) ==
    IF Resolve(p, p.settlements[s].from) = me THEN p.settlements[s].amount ELSE 0

(* What a settlement moves to or from me; a payment to oneself counts as   *)
(* paid.                                                                   *)
MySettlement(p, s, me) ==
    LET data == p.settlements[s]
    IN  IF Resolve(p, data.from) = me THEN data.amount
        ELSE IF Resolve(p, data.to) = me THEN -data.amount ELSE 0

MyNetByGroup(p, user) ==
    LET me == Resolve(p, user)
        InGroup(S, g) == {x \in DOMAIN S : S[x].group = g}
        groups == ({p.expenses[e].group : e \in Counted(p)}
                     \cup {p.settlements[s].group : s \in DOMAIN p.settlements}) \ {NoGroup}
    IN  NonZero([g \in groups |->
            SumOver(InGroup(p.expenses, g) \cap Counted(p), LAMBDA e : ExpenseDelta(p, e, me))
              + SumOver(InGroup(p.settlements, g), LAMBDA s : MySettlement(p, s, me))])

-----------------------------------------------------------------------------
\* (mutated form: an expense is attributed to its first payer alone)
FirstPayerEdge(p, e, me, other) ==
    LET payer == Resolve(p, SmallestUser(DOMAIN p.expenses[e].fields.paid_by))
        owed(u) == ShareOf(p, p.expenses[e].fields.splits, u)
    IN  IF me = payer THEN owed(other) ELSE IF other = payer THEN -owed(me) ELSE 0

(* What one expense makes other owe me: a settle-up of its own.            *)
ExpenseEdge(p, e, me, other) ==
    LET net == NonZero([u \in {Resolve(p, v) : v \in FieldUsers(p.expenses[e].fields)} |->
                           ExpenseDelta(p, e, u)])
        transfers == D!SimplifyDebts(net)
        Moved(from, to) ==
            SumOver({i \in DOMAIN transfers : transfers[i].from = from /\ transfers[i].to = to},
                    LAMBDA i : transfers[i].amount)
    IN  Moved(other, me) - Moved(me, other)

(* What a recorded settlement makes other owe me.                          *)
SettlementEdge(p, s, me, other) ==
    LET data == p.settlements[s]
        from == Resolve(p, data.from)
        to   == Resolve(p, data.to)
    IN  IF to = me THEN (IF from = other THEN -data.amount ELSE 0)
        ELSE IF from = me /\ to = other THEN data.amount ELSE 0

PairwiseWith(p, user) ==
    LET me == Resolve(p, user)
    IN  NonZero([other \in People(p) |->
            SumOver(Counted(p), LAMBDA e : ExpenseEdge(p, e, me, other))
              + SumOver(DOMAIN p.settlements, LAMBDA s : SettlementEdge(p, s, me, other))])
=============================================================================
