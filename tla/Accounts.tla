------------------------------ MODULE Accounts ------------------------------
(***************************************************************************)
(* What the balances owe their readers, on every read model the ledger of  *)
(* Rules can show.                                                         *)
(***************************************************************************)
EXTENDS Rules, Queries

p == view.model

(* What build_fields lets through, whoever issued it: payments and shares  *)
(* are finitely many amounts with the same total.                          *)
InBalance(fields) ==
    /\ IsFiniteSet(FieldUsers(fields))
    /\ \A u \in DOMAIN fields.paid_by : fields.paid_by[u] \in Int
    /\ \A u \in DOMAIN fields.splits : fields.splits[u] \in Int
    /\ SumFunction(fields.paid_by) = SumFunction(fields.splits)

ASSUME AmountsAssumption == \A op \in OpPool :
    /\ op.kind \in {"CreateExpense", "EditExpense"} => InBalance(op.fields)
    /\ op.kind = "RecordSettlement" => op.amount \in Int

NetOf(net, u) == IF u \in DOMAIN net THEN net[u] ELSE 0

(* Money is neither made nor lost: the balances add up to zero, whichever  *)
(* part of the ledger has arrived, and in every group by itself.           *)
ZeroSum ==
    /\ SumFunction(NetBalances(p)) = 0
    /\ \A g \in DOMAIN p.groups : SumFunction(NetBalances(ForGroup(p, g))) = 0

(* The three views of one person's balance agree: the net, what each other *)
(* person owes them, and their net by group.  A claim can make a payment   *)
(* one to oneself, which the net cancels and the other two views do not:   *)
(* what anybody owes themselves is left out, and groups with such a        *)
(* payment.                                                                *)
ToOneself(u) ==
    {s \in DOMAIN p.settlements :
        Resolve(p, p.settlements[s].from) = u /\ Resolve(p, p.settlements[s].to) = u}

PairwiseReconciles ==
    \A u \in People(p) :
        LET owed == PairwiseWith(p, u)
        IN  SumFunctionOnSet(owed, DOMAIN owed \ {u}) = NetOf(NetBalances(p), u)

Proper(u) == {g \in DOMAIN p.groups : \A s \in ToOneself(u) : p.settlements[s].group # g}

GroupsReconcile ==
    \A u \in People(p) : \A g \in Proper(u) :
        NetOf(MyNetByGroup(p, u), g) = NetOf(NetBalances(ForGroup(p, g)), u)

(* The screens tell one story.  For everybody whose id is not merged into  *)
(* another: the list of groups and a group's own screen show one net, and  *)
(* the friends' balances, with those of people without a profile, add up   *)
(* to the overall net.  For everybody who has not claimed a guest, the     *)
(* rows of a group explain the net, and a balance with a friend is         *)
(* explained by a shared expense or a payment.  Friendship is mutual, and  *)
(* the feed announced every expense and settlement there is.               *)
Shown(me)   == Snapshot(p, view.of, me)
Merging(u)  == u \in {p.aliases[v] : v \in DOMAIN p.aliases}
Everybody   == {u \in People(p) \cup DOMAIN p.users : Resolve(p, u) = u}
Unmerged    == {u \in Everybody : ~Merging(u)}

ListShowsScreen(me) ==
    \A g \in Proper(me) : me \in p.groups[g].members =>
        Shown(me).groups[g].my_net = GroupDetail(p, me, g).members[me].net

FriendsAddUp(me) ==
    LET list == Shown(me).friends
        owed == PairwiseWith(p, me)
    IN  SumOver(DOMAIN list, LAMBDA u : list[u].net)
          + SumFunctionOnSet(owed, DOMAIN owed \ (DOMAIN list \cup {me})) = Shown(me).overall_net

RowsExplainNet(me) ==
    \A g \in DOMAIN p.groups : me \in p.groups[g].members =>
        LET screen == GroupDetail(p, me, g)
            rows   == {e \in DOMAIN screen.expenses : screen.expenses[e].published}
            paid   == {s \in DOMAIN screen.settlements : screen.settlements[s].from = me}
            got    == {s \in DOMAIN screen.settlements : screen.settlements[s].to = me}
            amount(s) == screen.settlements[s].amount
        IN  SumOver(rows, LAMBDA e : screen.expenses[e].my_net)
              + SumOver(paid, amount) - SumOver(got, amount) = screen.members[me].net

SharedExplainsDebt(me) ==
    \A u \in DOMAIN Shown(me).friends \cap Unmerged :
        LET screen == FriendDetail(p, me, u)
        IN  screen.net # 0 =>
                \/ DOMAIN screen.shared # {}
                \/ \E s \in DOMAIN p.settlements :
                       {p.settlements[s].from, p.settlements[s].to} = {me, u}

Announced(me) ==
    LET shown(kind) == {entry.of : entry \in {x \in Shown(me).activity : x.kind = kind}}
    IN  /\ DOMAIN p.expenses \subseteq {op.expense : op \in shown("expense")}
        /\ DOMAIN p.settlements \subseteq {op.settlement : op \in shown("settlement")}

ScreensAgree ==
    /\ \A me \in Everybody : ListShowsScreen(me) /\ FriendsAddUp(me) /\ Announced(me)
    /\ \A me \in Unmerged : RowsExplainNet(me) /\ SharedExplainsDebt(me)
    /\ \A u, v \in Everybody : v \in FriendsOfMine(p, u) => u \in FriendsOfMine(p, v)

(* A claim changes attribution only: when nothing but claims and merges    *)
(* arrived since the last read, the balances are the old ones with the     *)
(* merged people added up.                                                 *)
OnlyMerges == \A op \in view'.of \ view.of : op.kind = "AddAlias"

Merged(net, q) ==
    NonZero([u \in {Resolve(q, v) : v \in DOMAIN net} |-> ShareOf(q, net, u)])

SameLedger == /\ view'.model.expenses = view.model.expenses
              /\ view'.model.settlements = view.model.settlements

(* As long as the merge changes nothing about what counts.                 *)
MergesAddUp ==
    [][OnlyMerges /\ SameLedger =>
           NetBalances(view'.model) = Merged(NetBalances(view.model), view'.model)]_view

(* ADR-0001: "a claim changes attribution with zero change to any          *)
(* balance", said here of claims that make nothing new count (an expense   *)
(* of the guest's claimer may have waited for the claim).                  *)
NothingNew == /\ DOMAIN view'.model.expenses \subseteq DOMAIN view.model.expenses
              /\ DOMAIN view'.model.settlements \subseteq DOMAIN view.model.settlements

ClaimKeepsBalances ==
    [][OnlyMerges /\ NothingNew =>
           NetBalances(view'.model) = Merged(NetBalances(view.model), view'.model)]_view
=============================================================================
