------------------------------ MODULE MCLedger ------------------------------
(***************************************************************************)
(* Histories for model-checking Rules and Accounts: each is the complete   *)
(* log of a small world, of which any part may have arrived, in any order. *)
(***************************************************************************)
EXTENDS Accounts, MCWorld

Guest2 == <<"user", 2>>

(* A group whose founder adds a member and removes him again, a stranger   *)
(* who tries to add herself, and an expense created in two contexts.       *)
GroupPolicy == {
    At(1, Alice, "CreateGroup") @@ [group |-> "g", name |-> "trip"],
    Member(2, Alice, B, TRUE),
    Member(3, Carol, C, TRUE),
    OnExpense(4, Bob, "CreateExpense")
        @@ [group |-> "g", fields |-> Paid(B, 4, A :> 2 @@ B :> 2), draft |-> FALSE],
    OnExpense(5, Carol, "CreateExpense")
        @@ [group |-> NoGroup, fields |-> Paid(C, 3, C :> 3), draft |-> FALSE],
    OnExpense(6, Bob, "EditExpense") @@ [fields |-> Paid(B, 6, A :> 3 @@ B :> 3)],
    Member(7, Alice, B, FALSE),
    OnExpense(8, Bob, "VoidExpense"),
    Member(9, Bob, B, TRUE)}

(* A member voids an expense just after the founder removed him.           *)
LateRemoval == {
    At(1, Alice, "CreateGroup") @@ [group |-> "g", name |-> "trip"],
    Member(2, Alice, B, TRUE),
    OnExpense(3, Bob, "CreateExpense")
        @@ [group |-> "g", fields |-> Paid(B, 4, A :> 2 @@ B :> 2), draft |-> FALSE],
    Member(4, Alice, B, FALSE),
    OnExpense(5, Bob, "VoidExpense")}

(* Two guests that turn out to be one, and then Bob, who also has a phone. *)
PeoplePolicy == {
    At(1, Alice, "UpsertProfile") @@ [user |-> Guest, name |-> "bobby"],
    At(2, Alice, "AddAlias") @@ [alias |-> Guest2, canonical |-> Guest],
    At(3, Bob, "AddAlias") @@ [alias |-> Guest, canonical |-> B],
    Certify(4, Bob, Phone),
    At(5, Phone, "UpsertProfile") @@ [user |-> B, name |-> "bob"],
    At(6, Alice, "DeclareFriend") @@ [other |-> B],
    At(7, Bob, "DeclareFriend") @@ [other |-> A],
    At(8, Phone, "RecordSettlement")
        @@ [settlement |-> "s", group |-> NoGroup, from |-> B, to |-> A, amount |-> 5],
    Revoke(9, Bob, Phone),
    At(10, Bob, "RecordSettlement")
        @@ [settlement |-> "t", group |-> NoGroup, from |-> B, to |-> Guest, amount |-> 3]}

-----------------------------------------------------------------------------
InTrip(fields) == [group |-> "g", fields |-> fields, draft |-> FALSE]

Settled(n, author, s, group, from, to, amount) ==
    At(n, author, "RecordSettlement")
        @@ [settlement |-> s, group |-> group, from |-> from, to |-> to, amount |-> amount]

Trip == {
    At(1, Alice, "CreateGroup") @@ [group |-> "g", name |-> "trip"],
    Member(2, Alice, B, TRUE)}

(* A trip with a guest whom Carol claims, an expense with two payers, an   *)
(* uneven one that she adds as a member, a settlement, and a debt between  *)
(* friends outside the group.                                              *)
SharedTrip == Trip \cup {
    Member(3, Alice, Guest, TRUE),
    OnExpense(4, Alice, "CreateExpense")
        @@ InTrip([paid_by |-> A :> 4 @@ B :> 3, splits |-> A :> 2 @@ B :> 2 @@ Guest :> 3]),
    Settled(5, Bob, "s", "g", Guest, A, 1),
    At(6, Carol, "AddAlias") @@ [alias |-> Guest, canonical |-> C],
    At(7, Carol, "CreateExpense") @@ [expense |-> "f"]
        @@ InTrip(Paid(C, 5, A :> 3 @@ C :> 2)),
    Settled(8, Alice, "t", NoGroup, Guest, A, 2),
    At(9, Alice, "UpsertProfile") @@ [user |-> Guest, name |-> "caro"],
    At(10, Alice, "UpsertProfile") @@ [user |-> A, name |-> "alice"]}

(* Bob joins under his own id while a guest leaves, spends, and claims to  *)
(* have been the guest.                                                    *)
ClaimAfterLeaving == {
    At(1, Alice, "CreateGroup") @@ [group |-> "g", name |-> "trip"],
    Member(2, Alice, Guest, TRUE),
    Member(3, Alice, B, TRUE),
    Member(4, Alice, Guest, FALSE),
    OnExpense(5, Bob, "CreateExpense") @@ InTrip(Paid(B, 4, A :> 2 @@ B :> 2)),
    At(6, Bob, "AddAlias") @@ [alias |-> Guest, canonical |-> B]}

-----------------------------------------------------------------------------
(* A ledger holds the ops of one history.                                  *)
Histories == {GroupPolicy, PeoplePolicy, SharedTrip}

AllOps == UNION Histories

OneHistory == \E H \in Histories : held \subseteq H

MCNext == Next /\ OneHistory'

MCSpec == Init /\ [][MCNext]_<<held, view>>
=============================================================================
