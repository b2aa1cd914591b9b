---------------------------- MODULE Materialize ----------------------------
(***************************************************************************)
(* The value fold (splittr-crdt/src/materialize.rs): a Materializer        *)
(* retains ops and folds them on demand, applying the entitled ones to a   *)
(* set of last-writer-wins registers and grow-only sets and assembling     *)
(* the read model from those.                                              *)
(*                                                                         *)
(* The order of the fold is left open: Materializer::projection visits the *)
(* ops in id order, project() in the order of its slice, which may hold an *)
(* op more than once.  So each step visits any retained op, a visited one  *)
(* included, until every op has been visited.                              *)
(***************************************************************************)
EXTENDS Projection, Pool

VARIABLES
    retained,          \* Materializer.ops
    phase,             \* "idle" | "folding"
    authority,         \* the Authority of the fold under way
    visited,           \* the ops the fold has visited
    folder,            \* the Folder
    view               \* the latest read model, with the op-set it was folded from

vars == <<retained, phase, authority, visited, folder, view>>

-----------------------------------------------------------------------------
(* Registers: a register map sends each key to its stamped value.          *)

Put(map, key, entry) == [k \in DOMAIN map \cup {key} |-> IF k = key THEN entry ELSE map[k]]

\* (mutated form: the latest arrival wins)
LastArrivalWins(map, key, hlc, value) == Put(map, key, [hlc |-> hlc, value |-> value])

(* Last writer wins: the incoming write needs a strictly greater HLC.      *)
Lww(map, key, hlc, value) ==
    IF key \in DOMAIN map /\ map[key].hlc >= hlc
    THEN map
    ELSE Put(map, key, [hlc |-> hlc, value |-> value])

-----------------------------------------------------------------------------
(* The state machine *)

NoAuthority == Build({})

Init ==
    /\ retained = {}
    /\ phase = "idle"
    /\ authority = NoAuthority
    /\ visited = {}
    /\ folder = EmptyFolder
    /\ view = [of |-> {}, model |-> Assemble(EmptyFolder, NoAuthority)]

(* Materializer::apply: keep the op, once.                                 *)
Apply(op) ==
    /\ phase = "idle"
    /\ retained' = retained \cup {op}
    /\ UNCHANGED <<phase, authority, visited, folder, view>>

\* (mutated form: the authority of the previous fold is reused)
StartWithStaleAuthority ==
    /\ phase = "idle"
    /\ phase' = "folding"
    /\ authority' = Build(view.of)
    /\ visited' = {}
    /\ folder' = EmptyFolder
    /\ UNCHANGED <<retained, view>>

(* fold: the Authority pass over the whole op-set comes first.             *)
StartFold ==
    /\ phase = "idle"
    /\ phase' = "folding"
    /\ authority' = Build(retained)
    /\ visited' = {}
    /\ folder' = EmptyFolder
    /\ UNCHANGED <<retained, view>>

(* Folder::apply of an entitled op of one of the given kinds.              *)
Visit(op, kinds) ==
    /\ phase = "folding"
    /\ op.kind \in kinds
    /\ Entitled(authority, op)
    /\ visited' = visited \cup {op}
    /\ UNCHANGED <<retained, phase, authority, view>>

FoldCreateGroup(op) ==
    /\ Visit(op, {"CreateGroup"})
    /\ folder' = [folder EXCEPT !.group_created = @ \cup {op.group},
                                !.group_name = Lww(@, op.group, op.hlc, op.name)]

FoldSetGroupName(op) ==
    /\ Visit(op, {"SetGroupName"})
    /\ folder' = [folder EXCEPT !.group_name = Lww(@, op.group, op.hlc, op.name)]

FoldSetGroupCurrency(op) ==
    /\ Visit(op, {"SetGroupCurrency"})
    /\ folder' = [folder EXCEPT !.group_currency = Lww(@, op.group, op.hlc, op.currency)]

FoldSetClosedPeriod(op) ==
    /\ Visit(op, {"SetClosedPeriod"})
    /\ folder' = [folder EXCEPT !.group_closed_until = Lww(@, op.group, op.hlc, op.until_ms)]

FoldCreateExpense(op) ==
    /\ Visit(op, {"CreateExpense"})
    /\ folder' = [folder EXCEPT
          !.expense_group     = Lww(@, op.expense, op.hlc, op.group),
          !.expense_version   = Lww(@, op.expense, op.hlc, op.fields),
          !.expense_published = IF op.draft THEN @ ELSE @ \cup {op.expense}]

\* (mutated form: editing bypasses the register's order)
EditUnordered(op) ==
    /\ Visit(op, {"EditExpense"})
    /\ folder' = [folder EXCEPT !.expense_version =
                      Put(@, op.expense, [hlc |-> op.hlc, value |-> op.fields])]

FoldEditExpense(op) ==
    /\ Visit(op, {"EditExpense"})
    /\ folder' = [folder EXCEPT !.expense_version = Lww(@, op.expense, op.hlc, op.fields)]

FoldPublishExpense(op) ==
    /\ Visit(op, {"PublishExpense"})
    /\ folder' = [folder EXCEPT !.expense_published = @ \cup {op.expense}]

FoldVoidExpense(op) ==
    /\ Visit(op, {"VoidExpense"})
    /\ folder' = [folder EXCEPT !.expense_voided = @ \cup {op.expense}]

FoldSetExpenseLock(op) ==
    /\ Visit(op, {"SetExpenseLock"})
    /\ folder' = [folder EXCEPT !.expense_locked = Lww(@, op.expense, op.hlc, op.locked)]

FoldRecordSettlement(op) ==
    /\ Visit(op, {"RecordSettlement"})
    /\ folder' = [folder EXCEPT !.settlements = Lww(@, op.settlement, op.hlc, SettlementData(op))]

FoldVoidSettlement(op) ==
    /\ Visit(op, {"VoidSettlement"})
    /\ folder' = [folder EXCEPT !.settlement_voided = @ \cup {op.settlement}]

FoldUpsertProfile(op) ==
    /\ Visit(op, {"UpsertProfile"})
    /\ folder' = [folder EXCEPT !.profiles = Lww(@, op.user, op.hlc, op.name)]

FoldSetAgreementKey(op) ==
    /\ Visit(op, {"SetAgreementKey"})
    /\ folder' = [folder EXCEPT !.agreement_keys = Lww(@, op.user, op.hlc, op.key)]

(* The kinds the Authority owns: entitled or not, they leave the folder    *)
(* alone, as does every op that is not entitled.                           *)
AuthorityKinds ==
    {"SetMembership", "AddAlias", "DeclareFriend", "AuthorizeDevice", "RevokeDevice"}

FoldPass(op) ==
    /\ phase = "folding"
    /\ op.kind \in AuthorityKinds \/ ~Entitled(authority, op)
    /\ visited' = visited \cup {op}
    /\ UNCHANGED <<retained, phase, authority, folder, view>>

\* (mutated form: the accumulator survives into the next fold)
FinishKeepingFolder ==
    /\ phase = "folding"
    /\ visited = retained
    /\ phase' = "idle"
    /\ view' = [of |-> retained, model |-> Assemble(folder, authority)]
    /\ authority' = NoAuthority
    /\ visited' = {}
    /\ UNCHANGED <<retained, folder>>

FinishFold ==
    /\ phase = "folding"
    /\ visited = retained
    /\ phase' = "idle"
    /\ view' = [of |-> retained, model |-> Assemble(folder, authority)]
    /\ authority' = NoAuthority
    /\ visited' = {}
    /\ folder' = EmptyFolder
    /\ UNCHANGED retained

FoldOp(op) ==
    \/ FoldCreateGroup(op)
    \/ FoldSetGroupName(op)
    \/ FoldSetGroupCurrency(op)
    \/ FoldSetClosedPeriod(op)
    \/ FoldCreateExpense(op)
    \/ FoldEditExpense(op)
    \/ FoldPublishExpense(op)
    \/ FoldVoidExpense(op)
    \/ FoldSetExpenseLock(op)
    \/ FoldRecordSettlement(op)
    \/ FoldVoidSettlement(op)
    \/ FoldUpsertProfile(op)
    \/ FoldSetAgreementKey(op)
    \/ FoldPass(op)

Next ==
    \/ \E op \in OpPool : Apply(op)
    \/ StartFold
    \/ \E op \in retained : FoldOp(op)
    \/ FinishFold

Spec == Init /\ [][Next]_vars

-----------------------------------------------------------------------------
(* Properties *)

(* The ops a fold visits were retained, and the read model was folded from *)
(* ops the materializer still holds.                                       *)
TypeOK ==
    /\ retained \subseteq OpPool
    /\ phase \in {"idle", "folding"}
    /\ visited \subseteq retained
    /\ view.of \subseteq retained
    /\ phase = "idle" => visited = {} /\ folder = EmptyFolder

(* Midway through a fold, whatever the order of the visits so far and      *)
(* however often an op was visited, every register holds the greatest      *)
(* write of the entitled ops visited, and every grow-only set their        *)
(* contributions (lww and Folder::apply).                                  *)
RegistersHoldLastWrites ==
    phase = "folding" =>
        LET O == EntitledOps(visited, authority)
        IN  /\ HoldsLastWrites(folder.group_name, NameWrites(O))
            /\ HoldsLastWrites(folder.group_currency, CurrencyWrites(O))
            /\ HoldsLastWrites(folder.group_closed_until, ClosedWrites(O))
            /\ HoldsLastWrites(folder.profiles, ProfileWrites(O))
            /\ HoldsLastWrites(folder.agreement_keys, KeyWrites(O))
            /\ HoldsLastWrites(folder.expense_group, GroupWrites(O))
            /\ HoldsLastWrites(folder.expense_version, VersionWrites(O))
            /\ HoldsLastWrites(folder.expense_locked, LockWrites(O))
            /\ HoldsLastWrites(folder.settlements, SettlementWrites(O))
            /\ folder.group_created = Created(O)
            /\ folder.expense_published = Published(O)
            /\ folder.expense_voided = Voided(O)
            /\ folder.settlement_voided = VoidedSettlements(O)

(* The read model is a function of the op-set alone: it does not depend on *)
(* the order or the multiplicity in which the fold met the ops, nor on the *)
(* folds before it ("Order-independent and idempotent", project).          *)
ViewIsFunctionOfOpSet == view.model = Project(view.of)

(* Whatever the order of its visits, the fold does what the ledger says:   *)
(* every new read model is the projection of the ops held at that moment.  *)
L == INSTANCE Ledger WITH held <- retained

ImplementsLedger == L!Spec
=============================================================================
