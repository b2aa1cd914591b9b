------------------------------- MODULE Rules -------------------------------
(***************************************************************************)
(* What the authorization rules and the conflict rules add up to, stated   *)
(* of the ledger whose projection is materialize.rs's: op-sets that grow   *)
(* in any order, and the read models taken from them along the way.        *)
(***************************************************************************)
EXTENDS Projection, Pool

VARIABLES held, view

INSTANCE Ledger

(* The records of the read model: nothing is in them but what some op of   *)
(* the pool says, and the defaults.                                        *)
Said(field) == {op[field] : op \in {x \in OpPool : field \in DOMAIN x}}

(* Ops are made as their type says; keys and sites are numbers.            *)
ASSUME KindsAssumption == \A op \in OpPool :
    /\ op.kind \in DOMAIN OpFields /\ OpFields[op.kind] \subseteq DOMAIN op
    /\ op.kind = "AuthorizeDevice" => {op.identity, op.site} \subseteq Nat
    /\ op.kind = "SetExpenseLock" => op.locked \in BOOLEAN

(* User ids are compared as strings (see SortsAtOrBefore); the id of a     *)
(* group created is no None.                                               *)
ASSUME IdsAssumption == \A op \in OpPool :
    /\ op.kind = "AddAlias" => {op.alias, op.canonical} \subseteq {"id", "user"} \X Nat
    /\ op.kind \in {"CreateExpense", "EditExpense"} =>
           FieldUsers(op.fields) \subseteq {"id", "user"} \X Nat
    /\ op.kind = "CreateGroup" => op.group # NoGroup

UserIds == {UserIdFor(op.author) : op \in OpPool}
             \cup Said("user") \cup Said("other") \cup Said("alias") \cup Said("canonical")

GroupRecord == [name : Said("name"), currency : Said("currency") \cup {DefaultCurrency},
                members : SUBSET UserIds, closed_until_ms : Said("until_ms") \cup {0}]

UserRecord == [name : Said("name"), agreement_pub : Said("key") \cup {"none"}]

ExpenseRecord == [group : Said("group"), fields : Said("fields"),
                  locked : BOOLEAN, published : BOOLEAN]

SettlementRecord == [group : Said("group"), from : Said("from"), to : Said("to"),
                     amount : Said("amount")]

DeviceRecord == [identity : Said("identity"), site : Said("site"), revoked : BOOLEAN]

IsProjection(model) ==
    /\ \A g \in DOMAIN model.groups : model.groups[g] \in GroupRecord
    /\ \A u \in DOMAIN model.users : model.users[u] \in UserRecord
    /\ \A e \in DOMAIN model.expenses : model.expenses[e] \in ExpenseRecord
    /\ \A s \in DOMAIN model.settlements : model.settlements[s] \in SettlementRecord
    /\ \A d \in DOMAIN model.devices : model.devices[d] \in DeviceRecord
    /\ \A u \in DOMAIN model.friends : model.friends[u] \subseteq UserIds \ {u}

TypeOK ==
    /\ held \subseteq OpPool
    /\ view.of \subseteq held
    /\ IsProjection(view.model)
    /\ DOMAIN view.model.aliases \cap {view.model.aliases[u] : u \in DOMAIN view.model.aliases} = {}

(* The context an expense or settlement is shown in is the one its edits,  *)
(* voids and locks were authorized against: the Folder's registers and the *)
(* Authority's bindings, kept separately, pick the same creating op.       *)
ContextsAgree ==
    LET auth == Build(view.of)
    IN  /\ \A e \in DOMAIN view.model.expenses :
              e \in DOMAIN auth.expenses /\ auth.expenses[e].group = view.model.expenses[e].group
        /\ \A s \in DOMAIN view.model.settlements :
              /\ s \in DOMAIN auth.settlements
              /\ auth.settlements[s].group = view.model.settlements[s].group

(* Nobody admits themselves to a group: a current member other than the    *)
(* founder was admitted by a live op of somebody else.                     *)
NoSelfAdmission ==
    LET auth == Build(view.of)
    IN  \A g \in DOMAIN view.model.groups : \A u \in view.model.groups[g].members :
            \/ u = auth.founders[g]
            \/ \E op \in OfKind(view.of, "SetMembership") :
                  /\ op.group = g /\ op.member /\ Resolve(auth, op.user) = u
                  /\ ~RevokedAt(auth.devices, op)
                  /\ Actor(auth, op) # u

(* A real person's name is their own: once a guest is claimed, whatever    *)
(* friends called the guest before no longer counts, on any device.        *)
OwnersNameThemselves ==
    LET auth == Build(view.of)
        RealUsers == {u \in DOMAIN view.model.users : ~IsPlaceholder(Resolve(auth, u))}
    IN  \A u \in RealUsers : \E op \in OfKind(view.of, "UpsertProfile") :
            /\ op.user = u /\ op.name = view.model.users[u].name
            /\ Actor(auth, op) = Resolve(auth, u)
            /\ ~RevokedAt(auth.devices, op)

(* Removing a member or revoking a device affects later ops only: when all *)
(* that arrived since the last read are removals and revocations later     *)
(* than every op it saw, the ledger stays exactly as it was.               *)
LaterRemoval(op, S) ==
    /\ \/ op.kind = "RevokeDevice"
       \/ op.kind = "SetMembership" /\ ~op.member
    /\ \A p \in S : AtOrBefore(OrderOf(p), OrderOf(op))

RemovalPreservesPast ==
    [][(\A op \in view'.of \ view.of : LaterRemoval(op, view.of)) =>
           /\ view'.model.expenses = view.model.expenses
           /\ view'.model.settlements = view.model.settlements]_view

(* ADR-0001, rule 5: a void once observed is terminal, money never         *)
(* silently resurrects.                                                    *)
ObservedVoids(v) ==
    {op.expense : op \in OfKind(EntitledOps(v.of, Build(v.of)), "VoidExpense")}

VoidIsTerminal ==
    [][\A e \in ObservedVoids(view) : e \notin DOMAIN view'.model.expenses]_view
=============================================================================
