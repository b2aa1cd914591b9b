----------------------------- MODULE Projection -----------------------------
(***************************************************************************)
(* The read model of an op-set (splittr-crdt/src/materialize.rs), said     *)
(* without an order of visits: project() applies the entitled ops to       *)
(* last-writer-wins registers and grow-only sets (the Folder), so a        *)
(* register ends with the write of the greatest HLC and a set with every   *)
(* contribution, and assemble() reads the model off those.                 *)
(***************************************************************************)
EXTENDS Authority

(* A register map sends each key to a stamped value.                       *)
NoEntries == [k \in {} |-> k]

ValueOr(map, key, default) == IF key \in DOMAIN map THEN map[key].value ELSE default

EmptyFolder ==
    [group_created      |-> {},
     group_name         |-> NoEntries,
     group_currency     |-> NoEntries,
     group_closed_until |-> NoEntries,
     profiles           |-> NoEntries,
     agreement_keys     |-> NoEntries,
     expense_group      |-> NoEntries,
     expense_version    |-> NoEntries,
     expense_locked     |-> NoEntries,
     expense_published  |-> {},
     expense_voided     |-> {},
     settlements        |-> NoEntries,
     settlement_voided  |-> {}]

-----------------------------------------------------------------------------
(* Folder::assemble *)

DefaultCurrency == "USD"

Assemble(f, auth) ==
    [groups |-> [g \in f.group_created |->
        [name            |-> ValueOr(f.group_name, g, ""),
         currency        |-> ValueOr(f.group_currency, g, DefaultCurrency),
         members         |-> CurrentMembers(auth, g),
         closed_until_ms |-> ValueOr(f.group_closed_until, g, 0)]],
     expenses |-> [e \in (DOMAIN f.expense_version \ f.expense_voided)
                            \cap DOMAIN f.expense_group |->
        [group     |-> f.expense_group[e].value,
         fields    |-> f.expense_version[e].value,
         locked    |-> ValueOr(f.expense_locked, e, FALSE),
         published |-> e \in f.expense_published]],
     settlements |-> [s \in DOMAIN f.settlements \ f.settlement_voided |-> f.settlements[s].value],
     users |-> [u \in DOMAIN f.profiles |->
        [name          |-> f.profiles[u].value,
         agreement_pub |-> ValueOr(f.agreement_keys, u, "none")]],
     aliases |-> auth.aliases,
     devices |-> DeviceRecords(auth),
     friends |-> ConfirmedFriends(auth)]

-----------------------------------------------------------------------------
(* What the fold of a set O of entitled ops must leave in the folder, said *)
(* without an order of visits.                                             *)

Write(key, op, value) == [key |-> key, hlc |-> op.hlc, value |-> value]

SettlementData(op) ==
    [group |-> op.group, from |-> op.from, to |-> op.to, amount |-> op.amount]

NameWrites(O)      == {Write(op.group, op, op.name)
                          : op \in OfKind(O, "CreateGroup") \cup OfKind(O, "SetGroupName")}
CurrencyWrites(O)  == {Write(op.group, op, op.currency) : op \in OfKind(O, "SetGroupCurrency")}
ClosedWrites(O)    == {Write(op.group, op, op.until_ms) : op \in OfKind(O, "SetClosedPeriod")}
ProfileWrites(O)   == {Write(op.user, op, op.name) : op \in OfKind(O, "UpsertProfile")}
KeyWrites(O)       == {Write(op.user, op, op.key) : op \in OfKind(O, "SetAgreementKey")}
GroupWrites(O)     == {Write(op.expense, op, op.group) : op \in OfKind(O, "CreateExpense")}
VersionWrites(O)   == {Write(op.expense, op, op.fields)
                          : op \in OfKind(O, "CreateExpense") \cup OfKind(O, "EditExpense")}
LockWrites(O)      == {Write(op.expense, op, op.locked) : op \in OfKind(O, "SetExpenseLock")}
SettlementWrites(O) == {Write(op.settlement, op, SettlementData(op))
                           : op \in OfKind(O, "RecordSettlement")}

Created(O)   == {op.group : op \in OfKind(O, "CreateGroup")}
Published(O) == {op.expense : op \in OfKind(O, "PublishExpense")
                                      \cup {c \in OfKind(O, "CreateExpense") : ~c.draft}}
Voided(O)    == {op.expense : op \in OfKind(O, "VoidExpense")}
VoidedSettlements(O) == {op.settlement : op \in OfKind(O, "VoidSettlement")}

(* map holds, for each key written, a write of W with the greatest HLC.    *)
HoldsLastWrites(map, W) ==
    /\ map = [k \in {w.key : w \in W} |-> map[k]]
    /\ \A k \in DOMAIN map : \E w \in W :
          /\ w.key = k
          /\ map[k] = [hlc |-> w.hlc, value |-> w.value]
          /\ \A x \in W : x.key = k => x.hlc <= w.hlc

LastWrite(W, k) == CHOOSE w \in W : w.key = k /\ \A x \in W : x.key = k => x.hlc <= w.hlc

LastWrites(W) ==
    [k \in {w.key : w \in W} |->
        [hlc |-> LastWrite(W, k).hlc, value |-> LastWrite(W, k).value]]

FolderOf(O) ==
    [group_created      |-> Created(O),
     group_name         |-> LastWrites(NameWrites(O)),
     group_currency     |-> LastWrites(CurrencyWrites(O)),
     group_closed_until |-> LastWrites(ClosedWrites(O)),
     profiles           |-> LastWrites(ProfileWrites(O)),
     agreement_keys     |-> LastWrites(KeyWrites(O)),
     expense_group      |-> LastWrites(GroupWrites(O)),
     expense_version    |-> LastWrites(VersionWrites(O)),
     expense_locked     |-> LastWrites(LockWrites(O)),
     expense_published  |-> Published(O),
     expense_voided     |-> Voided(O),
     settlements        |-> LastWrites(SettlementWrites(O)),
     settlement_voided  |-> VoidedSettlements(O)]

EntitledOps(S, auth) == {op \in S : Entitled(auth, op)}

(* The read model of an op-set.                                            *)
ReadModel(S, auth) == Assemble(FolderOf(EntitledOps(S, auth)), auth)

Project(S) == ReadModel(S, Build(S))
=============================================================================
