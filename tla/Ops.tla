-------------------------------- MODULE Ops --------------------------------
(***************************************************************************)
(* The vocabulary of the event-sourced core: operations, their total       *)
(* order, and user ids (splittr-crdt: op.rs, clock.rs, identity.rs).       *)
(*                                                                         *)
(* An operation is a record with the fields                                *)
(*    id     - its content address, a positive number (the order of the    *)
(*             hashes is arbitrary, so ids are simply numbered),           *)
(*    hlc    - its hybrid logical clock reading.  Only the total order of  *)
(*             readings (wall, then counter, then site) matters to the     *)
(*             fold, so a reading is its rank, a positive number,          *)
(*    author - the public key that signed it,                              *)
(*    kind   - the name of its OpKind variant,                             *)
(* and the fields of that variant, under the names the code gives them.    *)
(* Content that is only carried along (names, notes, keys) is a value.     *)
(***************************************************************************)
EXTENDS Naturals, FiniteSets

CONSTANT NoGroup           \* the None of an Option<GroupId>

(* The variants of OpKind and their fields.                                *)
OpFields ==
    [CreateGroup |-> {"group", "name"}, SetGroupName |-> {"group", "name"},
     SetGroupCurrency |-> {"group", "currency"}, SetClosedPeriod |-> {"group", "until_ms"},
     SetMembership |-> {"group", "user", "member"},
     CreateExpense |-> {"expense", "group", "fields", "draft"},
     EditExpense |-> {"expense", "fields"}, SetExpenseLock |-> {"expense", "locked"},
     PublishExpense |-> {"expense"}, VoidExpense |-> {"expense"},
     RecordSettlement |-> {"settlement", "group", "from", "to", "amount"},
     VoidSettlement |-> {"settlement"}, AddAlias |-> {"alias", "canonical"},
     DeclareFriend |-> {"other"}, UpsertProfile |-> {"user", "name"},
     SetAgreementKey |-> {"user", "key"},
     AuthorizeDevice |-> {"identity", "device", "site"},
     RevokeDevice |-> {"identity", "device"}]

(* The (HLC, content id) order of authorize.rs: the linearization every    *)
(* authorization decision is made in.                                      *)
OrderOf(op) == <<op.hlc, op.id>>

MinOrder == <<0, 0>>

AtOrBefore(o, p) == \/ o[1] < p[1]
                    \/ o[1] = p[1] /\ o[2] <= p[2]

Earliest(O) == CHOOSE op \in O : \A other \in O : AtOrBefore(OrderOf(op), OrderOf(other))
Latest(O)   == CHOOSE op \in O : \A other \in O : AtOrBefore(OrderOf(other), OrderOf(op))

(* User ids.  A real user's id is its identity key behind the prefix       *)
(* "id:", a guest's is generated behind "user:"; ids compare as strings,   *)
(* so that every real user sorts before every guest.                       *)
UserIdFor(key)      == <<"id", key>>
IsPlaceholder(user) == user[1] = "user"

SortsAtOrBefore(u, v) == \/ u[1] = "id" /\ v[1] = "user"
                         \/ u[1] = v[1] /\ u[2] <= v[2]

SmallestUser(U) == CHOOSE u \in U : \A v \in U : SortsAtOrBefore(u, v)

(* The users an expense version names: its payers and its split users.     *)
FieldUsers(fields) == DOMAIN fields.paid_by \cup DOMAIN fields.splits
=============================================================================
