--------------------------- MODULE MCMaterialize ---------------------------
(***************************************************************************)
(* Op pools for model-checking Materialize: each is the complete log of a  *)
(* small world, delivered to the materializer in every order.              *)
(***************************************************************************)
EXTENDS Materialize, MCWorld

(* Two members race on one draft expense; its author is removed later.     *)
ExpenseRace == {
    At(1, Alice, "CreateGroup") @@ [group |-> "g", name |-> "trip"],
    Member(2, Alice, B, TRUE),
    OnExpense(3, Bob, "CreateExpense")
        @@ [group |-> "g", fields |-> Paid(B, 4, A :> 2 @@ B :> 2), draft |-> TRUE],
    OnExpense(4, Alice, "EditExpense") @@ [fields |-> Paid(B, 6, A :> 3 @@ B :> 3)],
    OnExpense(5, Bob, "EditExpense") @@ [fields |-> Paid(B, 8, A :> 4 @@ B :> 4)],
    OnExpense(6, Bob, "PublishExpense"),
    Member(8, Alice, B, FALSE),
    OnExpense(9, Bob, "VoidExpense")}

(* A group founded twice, whose settings are changed by a member who then  *)
(* leaves.                                                                 *)
GroupLife == {
    At(1, Alice, "CreateGroup") @@ [group |-> "g", name |-> "trip"],
    At(2, Bob, "CreateGroup") @@ [group |-> "g", name |-> "mine"],
    Member(4, Alice, B, TRUE),
    At(5, Bob, "SetGroupName") @@ [group |-> "g", name |-> "ski"],
    At(6, Alice, "SetGroupCurrency") @@ [group |-> "g", currency |-> "EUR"],
    At(7, Bob, "SetClosedPeriod") @@ [group |-> "g", until_ms |-> 5],
    Member(8, Bob, B, FALSE)}

(* Friends: an expense and a settlement outside any group, the latter      *)
(* recorded from a second device.                                          *)
FriendLedger == {
    At(1, Alice, "DeclareFriend") @@ [other |-> B],
    At(2, Bob, "DeclareFriend") @@ [other |-> A],
    Certify(3, Bob, Phone),
    At(4, Phone, "RecordSettlement")
        @@ [settlement |-> "s", group |-> NoGroup, from |-> B, to |-> A, amount |-> 5],
    OnExpense(5, Alice, "CreateExpense")
        @@ [group |-> NoGroup, fields |-> Paid(A, 4, A :> 2 @@ B :> 2), draft |-> FALSE],
    OnExpense(6, Phone, "SetExpenseLock") @@ [locked |-> TRUE],
    At(7, Alice, "VoidSettlement") @@ [settlement |-> "s"]}

(* Profiles, a key and a claimed guest; the device that names its owner is *)
(* later revoked.                                                          *)
People == {
    At(1, Alice, "UpsertProfile") @@ [user |-> Guest, name |-> "bobby"],
    At(2, Bob, "UpsertProfile") @@ [user |-> B, name |-> "bob"],
    At(3, Bob, "AddAlias") @@ [alias |-> Guest, canonical |-> B],
    At(6, Bob, "SetAgreementKey") @@ [user |-> B, key |-> "k"],
    Certify(7, Bob, Phone),
    At(8, Phone, "UpsertProfile") @@ [user |-> B, name |-> "bobert"],
    Revoke(9, Bob, Phone)}

-----------------------------------------------------------------------------
(* A materializer holds the ops of one history.                            *)
Histories == {ExpenseRace, GroupLife, FriendLedger, People}

AllOps == UNION Histories

OneHistory == \E H \in Histories : retained \subseteq H

MCNext == Next /\ OneHistory'

MCSpec == Init /\ [][MCNext]_vars
=============================================================================
