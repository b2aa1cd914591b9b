------------------------------ MODULE Queries ------------------------------
(***************************************************************************)
(* What the screens show of a read model p to the user me (the view-models *)
(* of splittr-app/src/query.rs, and of the FFI's DTOs made from them).  A  *)
(* list is a function of the ids of its rows; their order, descriptions    *)
(* and formatting are left out.                                            *)
(***************************************************************************)
EXTENDS Balance, Projection

(* A map's `get' with zero for a missing user.                             *)
AmountOf(map, u) == IF u \in DOMAIN map THEN map[u] ELSE 0

DisplayName(p, u) == IF u \in DOMAIN p.users THEN p.users[u].name ELSE u

MemberAmount(p, u, cents) == [name |-> DisplayName(p, u), cents |-> cents]

MemberAmounts(p, amounts) == [u \in DOMAIN amounts |-> MemberAmount(p, u, amounts[u])]

CurrencyOf(p, g) == IF g \in DOMAIN p.groups THEN p.groups[g].currency ELSE DefaultCurrency

-----------------------------------------------------------------------------
\* (mutated form: who paid for others owes them)
OwedMinusPaid(fields, me) == AmountOf(fields.splits, me) - AmountOf(fields.paid_by, me)

(* My involvement in an expense, by the very id I am looked up with.       *)
Involvement(fields, me) == AmountOf(fields.paid_by, me) - AmountOf(fields.splits, me)

ExpenseView(p, me, e) ==
    LET rec == p.expenses[e]
    IN  [group      |-> rec.group,
         group_name |-> IF rec.group \in DOMAIN p.groups THEN p.groups[rec.group].name ELSE "",
         currency   |-> CurrencyOf(p, rec.group),
         my_net     |-> Involvement(rec.fields, me),
         locked     |-> rec.locked,
         published  |-> rec.published,
         paid_by    |-> MemberAmounts(p, rec.fields.paid_by),
         splits     |-> MemberAmounts(p, rec.fields.splits)]

SettlementView(p, s) ==
    LET data == p.settlements[s]
    IN  [from   |-> data.from, from_name |-> DisplayName(p, data.from),
         to     |-> data.to,   to_name   |-> DisplayName(p, data.to),
         amount |-> data.amount]

OverallNet(p, me) == AmountOf(NetBalances(p), me)

GroupSummary(group, net) ==
    [name |-> group.name, currency |-> group.currency,
     member_count |-> Cardinality(group.members), my_net |-> net]

(* The list of groups, all nets in one pass.                               *)
GroupList(p, me) ==
    LET nets == MyNetByGroup(p, me)
    IN  [g \in DOMAIN p.groups |-> GroupSummary(p.groups[g], AmountOf(nets, g))]

\* (mutated form: the balances of all groups are shown in each)
Unscoped(p, g) == p

(* The ledger of one group.                                                *)
Scoped(p, g) == ForGroup(p, g)

MemberBalance(p, u, net) == [name |-> DisplayName(p, u), net |-> net]

MemberBalances(p, g) ==
    LET net == NetBalances(Scoped(p, g))
    IN  [u \in p.groups[g].members |-> MemberBalance(p, u, AmountOf(net, u))]

GroupDetail(p, me, g) ==
    LET scoped == Scoped(p, g)
    IN  [name        |-> p.groups[g].name,
         currency    |-> p.groups[g].currency,
         members     |-> MemberBalances(p, g),
         expenses    |-> [e \in DOMAIN scoped.expenses |-> ExpenseView(p, me, e)],
         settlements |-> [s \in DOMAIN scoped.settlements |-> SettlementView(p, s)],
         settle_up   |-> SettleUp(scoped)]

-----------------------------------------------------------------------------
Participates(fields, u) == u \in DOMAIN fields.paid_by \cup DOMAIN fields.splits

\* (mutated form: what I owe a friend)
OwedToFriend(p, owed, u) == -AmountOf(owed, u)

FriendNet(p, owed, u) == AmountOf(owed, u)

FriendBalance(p, u, net) == [name |-> DisplayName(p, u), net |-> net]

(* Everybody with a profile.                                               *)
FriendList(p, me) ==
    LET owed == PairwiseWith(p, me)
    IN  [u \in DOMAIN p.users \ {me} |-> FriendBalance(p, u, FriendNet(p, owed, u))]

\* (mutated form: expenses I paid for)
PaidBoth(p, me, friend) ==
    {e \in DOMAIN p.expenses :
        {me, friend} \subseteq DOMAIN p.expenses[e].fields.paid_by}

SharedWith(p, me, friend) ==
    {e \in DOMAIN p.expenses :
        /\ Participates(p.expenses[e].fields, me)
        /\ Participates(p.expenses[e].fields, friend)}

FriendDetail(p, me, friend) ==
    [name   |-> DisplayName(p, friend),
     net    |-> FriendNet(p, PairwiseWith(p, me), friend),
     shared |-> [e \in SharedWith(p, me, friend) |-> ExpenseView(p, me, e)]]

DeviceView(device, this_device) ==
    [site |-> device.site, revoked |-> device.revoked, this_device |-> this_device]

(* The devices of an identity, the running one flagged.                    *)
DeviceViews(p, identity, this_device) ==
    [d \in {x \in DOMAIN p.devices : p.devices[x].identity = identity} |->
        DeviceView(p.devices[d], d = this_device)]

(* App::confirmed_friends: by the id mine is merged into.                  *)
FriendsOfMine(p, me) ==
    LET id == IF me \in DOMAIN p.aliases THEN p.aliases[me] ELSE me
    IN  IF id \in DOMAIN p.friends THEN p.friends[id] ELSE {}

(* The feed: every op of these kinds, whether it counts or not.            *)
FeedKind(op) ==
    CASE op.kind = "CreateGroup"      -> "group"
      [] op.kind = "CreateExpense"    -> "expense"
      [] op.kind = "EditExpense"      -> "edit"
      [] op.kind = "VoidExpense"      -> "delete"
      [] op.kind = "RecordSettlement" -> "settlement"
      [] op.kind = "UpsertProfile"    -> "person"
      [] OTHER                        -> "none"

Feed(S) == {[kind |-> FeedKind(op), of |-> op] : op \in {x \in S : FeedKind(x) # "none"}}

-----------------------------------------------------------------------------
(* What the shell asks for together, after every command: the read model   *)
(* p of the ops S is behind all of it.                                     *)
Snapshot(p, S, me) ==
    [overall_net |-> OverallNet(p, me),
     groups      |-> GroupList(p, me),
     friends     |-> FriendList(p, me),
     activity    |-> Feed(S)]
=============================================================================
