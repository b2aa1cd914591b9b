------------------------------ MODULE MCWorld ------------------------------
(***************************************************************************)
(* The people, keys and op shorthands the op pools are written with.       *)
(***************************************************************************)
EXTENDS Ops, TLC

(* Keys: three identities and a device of the second.                      *)
Alice == 1
Bob   == 2
Carol == 3
Phone == 4

A == UserIdFor(Alice)
B == UserIdFor(Bob)
C == UserIdFor(Carol)
Guest == <<"user", 1>>

(* Clock readings follow the order the ops are listed in; content ids run  *)
(* the other way, so the two orders disagree.                              *)
At(n, author, kind) == [id |-> 100 - n, hlc |-> n, author |-> author, kind |-> kind]

Paid(payer, amount, splits) ==
    [paid_by |-> payer :> amount, splits |-> splits]

Member(n, author, user, member) ==
    At(n, author, "SetMembership") @@ [group |-> "g", user |-> user, member |-> member]

OnExpense(n, author, kind) == At(n, author, kind) @@ [expense |-> "e"]

(* A device certificate and its revocation, by the identity itself.        *)
Certify(n, identity, device) ==
    At(n, identity, "AuthorizeDevice") @@ [identity |-> identity, device |-> device, site |-> 7]
Revoke(n, identity, device) ==
    At(n, identity, "RevokeDevice") @@ [identity |-> identity, device |-> device]
=============================================================================
