------------------------------ MODULE MCEngine ------------------------------
(***************************************************************************)
(* Alice's and Bob's phones and Alice's tablet for model-checking Engine.  *)
(* For each op-set they start from, the kinds of ops and their number are  *)
(* bounded.                                                                *)
(***************************************************************************)
EXTENDS Engine, MCWorld

AlicePhone == 11
BobPhone   == 12
Tablet     == 13

Devices == {AlicePhone, BobPhone, Tablet}
Owners  == AlicePhone :> Alice @@ BobPhone :> Bob @@ Tablet :> Alice

(* Besides the keys of the devices, somebody may enter an identity's.      *)
Entered == Devices \cup {Alice}

Enrol == {Certify(1, Alice, AlicePhone), Certify(2, Bob, BobPhone)}

(* Bob certified Alice's tablet as well, after her.                        *)
Shared == Enrol \cup {Certify(3, Alice, Tablet), Certify(4, Bob, Tablet)}

Group == Enrol \cup {
    At(3, AlicePhone, "CreateGroup") @@ [group |-> <<"group", 0>>, name |-> "trip"],
    At(4, AlicePhone, "SetMembership") @@ [group |-> <<"group", 0>>, user |-> A, member |-> TRUE],
    At(5, AlicePhone, "SetMembership") @@ [group |-> <<"group", 0>>, user |-> B, member |-> TRUE]}

Dated(date_ms, splits) == [paid_by |-> A :> 4, splits |-> splits, date_ms |-> date_ms]

(* A group with a draft of an expense.                                     *)
Draft == Group \cup {
    At(6, AlicePhone, "CreateExpense") @@
        [expense |-> <<"expense", 0>>, group |-> <<"group", 0>>,
         fields |-> Dated(5, A :> 2 @@ B :> 2), draft |-> TRUE]}

(* Alice uses her tablet only, and has a debt with Bob.                    *)
Friends == {
    Certify(1, Alice, Tablet),
    Certify(2, Bob, BobPhone),
    At(3, Tablet, "DeclareFriend") @@ [other |-> B],
    At(4, BobPhone, "DeclareFriend") @@ [other |-> A],
    At(5, BobPhone, "RecordSettlement") @@
        [settlement |-> <<"settlement", 0>>, group |-> NoGroup, from |-> B, to |-> A, amount |-> 5]}

(* For each of them: how many ops are issued and of which kinds, which     *)
(* keys are entered as devices', on which devices the clock moves, and on  *)
(* which Apps and root keys are opened and closed.  Commits fail in the    *)
(* middle of a command, where it matters.  The site of a certificate only  *)
(* decides between certificates of one reading: it is the certifier's.     *)
Nobody == {}

Bounds == Nobody :> [most |-> 5, keys |-> {AlicePhone, Tablet}, clocks |-> {}, launched |-> {AlicePhone}, kinds |->
              {"AuthorizeDevice", "CreateGroup", "SetMembership", "SetGroupCurrency"}]
       @@ Shared :> [most |-> 3, keys |-> {Tablet, BobPhone}, clocks |-> {}, launched |-> {Tablet}, kinds |->
              {"AuthorizeDevice", "CreateGroup", "SetMembership"}]
       @@ Group :> [most |-> 2, keys |-> {}, clocks |-> {BobPhone}, launched |-> {}, kinds |->
              {"SetMembership", "SetGroupName", "CreateExpense", "RecordSettlement"}]
       @@ Draft :> [most |-> 3, keys |-> {}, clocks |-> {}, launched |-> {}, kinds |->
              {"EditExpense", "VoidExpense", "PublishExpense", "SetExpenseLock",
               "SetClosedPeriod"}]
       @@ Friends :> [most |-> 2, keys |-> Entered, clocks |-> {}, launched |-> {Tablet}, kinds |->
              {"AddAlias", "DeclareFriend", "UpsertProfile", "SetAgreementKey",
               "RecordSettlement", "VoidSettlement", "AuthorizeDevice", "RevokeDevice"}]

StartingPoints == DOMAIN Bounds

MostOf(p)  == Bounds[p].most
KindsOf(p) == Bounds[p].kinds

Certifying == {"AuthorizeDevice", "RevokeDevice"}

MCNext ==
    /\ Next
    /\ \A i \in DOMAIN issued' \ DOMAIN issued : issued'[i].kind \in Certifying =>
          /\ issued'[i].device \in Bounds[past].keys
          /\ issued'[i].kind = "AuthorizeDevice" => issued'[i].site = stamped'[i].site
    /\ \A d \in Devices :
          /\ wall[d] # wall'[d] => d \in Bounds[past].clocks \/ open[d] # open'[d]
          /\ <<open[d], root[d]>>' # <<open[d], root[d]>> => d \in Bounds[past].launched
          /\ last[d] # last'[d] /\ stamped = stamped' => ~open'[d] \/ todo[d] # <<>>

MCInit == Init /\ \A d \in Devices \ Bounds[past].clocks : wall[d] = 0

MCSpec == MCInit /\ [][MCNext]_vars

GuestIds == {Guest}

(* Two invites of Alice and one of Bob, and two that were altered: one     *)
(* names another inviter, one expires later.                               *)
Pasted ==
    LET genuine == FriendInvite(Alice, 1, 1)
    IN  {genuine, GroupInvite(Alice, <<"group", 0>>, 2, 1), FriendInvite(Bob, 3, 1),
         [genuine EXCEPT !.inviter = Bob], [FriendInvite(Bob, 4, 0) EXCEPT !.expiry_ms = 2]}

Lists == {<<B>>}

OneForm == {Dated(5, B :> 4)}
=============================================================================
