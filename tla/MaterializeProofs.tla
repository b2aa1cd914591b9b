------------------------- MODULE MaterializeProofs -------------------------
(***************************************************************************)
(* Theorems about the value fold, for every pool of ops.  The proofs never *)
(* expand Build, Entitled or Assemble: they hold whatever the             *)
(* authorization policy is, as long as it is decided from the op-set       *)
(* before the fold.                                                        *)
(***************************************************************************)
EXTENDS Materialize, TLAPS

-----------------------------------------------------------------------------
(* One last-writer-wins register map *)

(* What a register of key k holds.                                         *)
LEMMA OfKey ==
    ASSUME NEW map, NEW W, HoldsLastWrites(map, W), NEW k \in {w.key : w \in W}
    PROVE  \E w \in W : /\ w.key = k
                        /\ map[k] = [hlc |-> w.hlc, value |-> w.value]
                        /\ \A x \in W : x.key = k => x.hlc <= w.hlc
<1>1. map = [key \in {w.key : w \in W} |-> map[key]]
  BY DEF HoldsLastWrites
<1>2. k \in DOMAIN map
  BY <1>1
<1> QED
  BY <1>2 DEF HoldsLastWrites

(* A write that arrives extends the set of writes the map stands for.      *)
LEMMA LwwStep ==
    ASSUME NEW map, NEW W, NEW new, new.hlc \in Nat,
           HoldsLastWrites(map, W), \A w \in W : w.hlc \in Nat
    PROVE  HoldsLastWrites(Lww(map, new.key, new.hlc, new.value), W \cup {new})
<1> DEFINE IsLast(V, v, k) == v.key = k /\ \A x \in V : x.key = k => x.hlc <= v.hlc
           Entry(v) == [hlc |-> v.hlc, value |-> v.value]
           keys == {w.key : w \in W}
           allKeys == {w.key : w \in W \cup {new}}
<1>1. DOMAIN map = keys /\ map = [k \in keys |-> map[k]]
  BY DEF HoldsLastWrites
<1>2. \A k \in keys : \E w \in W : IsLast(W, w, k) /\ map[k] = Entry(w)
  BY OfKey
<1>3. allKeys = keys \cup {new.key}
  OBVIOUS
<1>4. CASE new.key \in keys /\ map[new.key].hlc >= new.hlc
  <2>1. Lww(map, new.key, new.hlc, new.value) = map
    BY <1>1, <1>4 DEF Lww
  <2>2. allKeys = keys
    BY <1>3, <1>4
  <2>3. ASSUME NEW k \in keys
        PROVE  \E v \in W \cup {new} : IsLast(W \cup {new}, v, k) /\ map[k] = Entry(v)
    <3>1. PICK w \in W : IsLast(W, w, k) /\ map[k] = Entry(w)
      BY <1>2
    <3>2. w.hlc \in Nat /\ map[k].hlc = w.hlc
      BY <3>1
    <3>3. new.key = k => new.hlc <= w.hlc
      BY <1>4, <3>2
    <3> QED BY <3>1, <3>3
  <2>4. map = [k \in allKeys |-> map[k]]
    BY <1>1, <2>2
  <2>5. DOMAIN map = keys
    BY <1>1
  <2>6. HoldsLastWrites(map, W \cup {new})
    BY <2>3, <2>4, <2>5 DEF HoldsLastWrites
  <2> QED BY <2>1, <2>6
<1>5. CASE ~(new.key \in keys /\ map[new.key].hlc >= new.hlc)
  <2> DEFINE put == Put(map, new.key, Entry(new))
  <2>1. Lww(map, new.key, new.hlc, new.value) = put
    BY <1>1, <1>5 DEF Lww
  <2>2. put = [k \in allKeys |-> IF k = new.key THEN Entry(new) ELSE map[k]]
    BY <1>1, <1>3 DEF Put
  <2>3. DOMAIN put = allKeys /\ put = [k \in allKeys |-> put[k]]
    BY <2>2
  <2>4. ASSUME NEW k \in allKeys
        PROVE  \E v \in W \cup {new} : IsLast(W \cup {new}, v, k) /\ put[k] = Entry(v)
    <3>1. CASE k = new.key
      <4>1. put[k] = Entry(new)
        BY <2>2, <3>1
      <4>2. ASSUME NEW x \in W, x.key = k PROVE x.hlc <= new.hlc
        <5>1. k \in keys
          BY <4>2
        <5>2. PICK w \in W : IsLast(W, w, k) /\ map[k] = Entry(w)
          BY <1>2, <5>1
        <5>3. map[k].hlc = w.hlc /\ w.hlc \in Nat /\ x.hlc \in Nat /\ x.hlc <= w.hlc
          BY <4>2, <5>2
        <5>4. ~(map[k].hlc >= new.hlc)
          BY <1>5, <3>1, <5>1
        <5> QED BY <5>3, <5>4
      <4>3. IsLast(W \cup {new}, new, k)
        BY <3>1, <4>2
      <4> QED BY <4>1, <4>3
    <3>2. CASE k # new.key
      <4>1. k \in keys /\ put[k] = map[k]
        BY <1>3, <2>2, <3>2
      <4>2. PICK w \in W : IsLast(W, w, k) /\ map[k] = Entry(w)
        BY <1>2, <4>1
      <4> QED BY <3>2, <4>1, <4>2
    <3> QED BY <3>1, <3>2
  <2> HIDE DEF put
  <2> QED BY <2>1, <2>3, <2>4 DEF HoldsLastWrites
<1> QED BY <1>4, <1>5

(* With distinct clock readings there is only one map that holds the last  *)
(* writes: the order of arrival leaves no trace.                           *)
LEMMA LastWritesUnique ==
    ASSUME NEW map, NEW W, HoldsLastWrites(map, W), \A w \in W : w.hlc \in Nat,
           \A v, w \in W : v.hlc = w.hlc => v = w
    PROVE  map = LastWrites(W)
<1>1. ASSUME NEW k \in {w.key : w \in W}
      PROVE  map[k] = LastWrites(W)[k]
  <2> DEFINE IsLast(w) == w.key = k /\ \A x \in W : x.key = k => x.hlc <= w.hlc
             last == LastWrite(W, k)
  <2>1. PICK w \in W : IsLast(w) /\ map[k] = [hlc |-> w.hlc, value |-> w.value]
    BY <1>1, OfKey
  <2>2. last \in W /\ IsLast(last)
    BY <2>1 DEF LastWrite
  <2>3. w.hlc <= last.hlc /\ last.hlc <= w.hlc /\ w.hlc \in Nat /\ last.hlc \in Nat
    BY <2>1, <2>2
  <2>4. w = last
    BY <2>1, <2>2, <2>3
  <2>5. LastWrites(W)[k] = [hlc |-> last.hlc, value |-> last.value]
    BY <1>1 DEF LastWrites
  <2> QED BY <2>1, <2>4, <2>5
<1> QED BY <1>1 DEF HoldsLastWrites, LastWrites

-----------------------------------------------------------------------------
(* The registers of a fold *)

(* The conjunction RegistersHoldLastWrites states of a folder f and the    *)
(* set O of entitled ops visited.                                          *)
Reflects(f, O) ==
    /\ HoldsLastWrites(f.group_name, NameWrites(O))
    /\ HoldsLastWrites(f.group_currency, CurrencyWrites(O))
    /\ HoldsLastWrites(f.group_closed_until, ClosedWrites(O))
    /\ HoldsLastWrites(f.profiles, ProfileWrites(O))
    /\ HoldsLastWrites(f.agreement_keys, KeyWrites(O))
    /\ HoldsLastWrites(f.expense_group, GroupWrites(O))
    /\ HoldsLastWrites(f.expense_version, VersionWrites(O))
    /\ HoldsLastWrites(f.expense_locked, LockWrites(O))
    /\ HoldsLastWrites(f.settlements, SettlementWrites(O))
    /\ f.group_created = Created(O)
    /\ f.expense_published = Published(O)
    /\ f.expense_voided = Voided(O)
    /\ f.settlement_voided = VoidedSettlements(O)

(* A folder is a record of exactly the thirteen accumulators.              *)
IsFolder(f) ==
    f = [group_created      |-> f.group_created,
         group_name         |-> f.group_name,
         group_currency     |-> f.group_currency,
         group_closed_until |-> f.group_closed_until,
         profiles           |-> f.profiles,
         agreement_keys     |-> f.agreement_keys,
         expense_group      |-> f.expense_group,
         expense_version    |-> f.expense_version,
         expense_locked     |-> f.expense_locked,
         expense_published  |-> f.expense_published,
         expense_voided     |-> f.expense_voided,
         settlements        |-> f.settlements,
         settlement_voided  |-> f.settlement_voided]

(* Before the first visit the registers are empty.                         *)
LEMMA EmptyReflects == Reflects(EmptyFolder, {})
<1>1. \A kind : OfKind({}, kind) = {}
  BY DEF OfKind
<1>2. HoldsLastWrites(NoEntries, {})
  BY DEF HoldsLastWrites, NoEntries
<1>3. /\ NameWrites({}) = {} /\ CurrencyWrites({}) = {} /\ ClosedWrites({}) = {}
      /\ ProfileWrites({}) = {} /\ KeyWrites({}) = {} /\ GroupWrites({}) = {}
      /\ VersionWrites({}) = {} /\ LockWrites({}) = {} /\ SettlementWrites({}) = {}
      /\ Created({}) = {} /\ Published({}) = {} /\ Voided({}) = {}
      /\ VoidedSettlements({}) = {}
  BY <1>1 DEF NameWrites, CurrencyWrites, ClosedWrites, ProfileWrites, KeyWrites, GroupWrites,
              VersionWrites, LockWrites, SettlementWrites, Created, Published, Voided,
              VoidedSettlements
<1> QED BY <1>2, <1>3 DEF Reflects, EmptyFolder

(* Every write carries the reading of an op of the pool; when the ops'      *)
(* readings are distinct, so are those of the writes to one kind of        *)
(* register.                                                               *)
LEMMA WritesStamped ==
    ASSUME NEW O \in SUBSET OpPool,
           NEW W \in {NameWrites(O), CurrencyWrites(O), ClosedWrites(O), ProfileWrites(O),
                      KeyWrites(O), GroupWrites(O), VersionWrites(O), LockWrites(O),
                      SettlementWrites(O)}
    PROVE  /\ \A w \in W : w.hlc \in Nat
           /\ DistinctHlcs => \A v, w \in W : v.hlc = w.hlc => v = w
<1>1. \A kind : OfKind(O, kind) \subseteq OpPool
  BY DEF OfKind
<1> USE <1>1, OpPoolAssumption DEF Write, DistinctHlcs
<1>2. CASE W = NameWrites(O)         BY <1>2 DEF NameWrites
<1>3. CASE W = CurrencyWrites(O)     BY <1>3 DEF CurrencyWrites
<1>4. CASE W = ClosedWrites(O)       BY <1>4 DEF ClosedWrites
<1>5. CASE W = ProfileWrites(O)      BY <1>5 DEF ProfileWrites
<1>6. CASE W = KeyWrites(O)          BY <1>6 DEF KeyWrites
<1>7. CASE W = GroupWrites(O)        BY <1>7 DEF GroupWrites
<1>8. CASE W = VersionWrites(O)      BY <1>8 DEF VersionWrites
<1>9. CASE W = LockWrites(O)         BY <1>9 DEF LockWrites
<1>10. CASE W = SettlementWrites(O)  BY <1>10 DEF SettlementWrites
<1> QED BY <1>2, <1>3, <1>4, <1>5, <1>6, <1>7, <1>8, <1>9, <1>10

(* A folder that reflects the ops is the folder those ops determine.       *)
LEMMA ReflectsDetermines ==
    ASSUME DistinctHlcs, NEW f, NEW O \in SUBSET OpPool, IsFolder(f), Reflects(f, O)
    PROVE  f = FolderOf(O)
<1>1. f.group_name = LastWrites(NameWrites(O))
  BY WritesStamped, LastWritesUnique DEF Reflects
<1>2. f.group_currency = LastWrites(CurrencyWrites(O))
  BY WritesStamped, LastWritesUnique DEF Reflects
<1>3. f.group_closed_until = LastWrites(ClosedWrites(O))
  BY WritesStamped, LastWritesUnique DEF Reflects
<1>4. f.profiles = LastWrites(ProfileWrites(O))
  BY WritesStamped, LastWritesUnique DEF Reflects
<1>5. f.agreement_keys = LastWrites(KeyWrites(O))
  BY WritesStamped, LastWritesUnique DEF Reflects
<1>6. f.expense_group = LastWrites(GroupWrites(O))
  BY WritesStamped, LastWritesUnique DEF Reflects
<1>7. f.expense_version = LastWrites(VersionWrites(O))
  BY WritesStamped, LastWritesUnique DEF Reflects
<1>8. f.expense_locked = LastWrites(LockWrites(O))
  BY WritesStamped, LastWritesUnique DEF Reflects
<1>9. f.settlements = LastWrites(SettlementWrites(O))
  BY WritesStamped, LastWritesUnique DEF Reflects
<1> QED
  BY <1>1, <1>2, <1>3, <1>4, <1>5, <1>6, <1>7, <1>8, <1>9 DEF Reflects, IsFolder, FolderOf

(* What one more op adds to the writes of each register.                   *)
LEMMA WritesGrow ==
    ASSUME NEW O, NEW op
    PROVE  /\ NameWrites(O \cup {op}) =
                 IF op.kind \in {"CreateGroup", "SetGroupName"}
                 THEN NameWrites(O) \cup {Write(op.group, op, op.name)} ELSE NameWrites(O)
           /\ CurrencyWrites(O \cup {op}) =
                 IF op.kind \in {"SetGroupCurrency"}
                 THEN CurrencyWrites(O) \cup {Write(op.group, op, op.currency)} ELSE CurrencyWrites(O)
           /\ ClosedWrites(O \cup {op}) =
                 IF op.kind \in {"SetClosedPeriod"}
                 THEN ClosedWrites(O) \cup {Write(op.group, op, op.until_ms)} ELSE ClosedWrites(O)
           /\ ProfileWrites(O \cup {op}) =
                 IF op.kind \in {"UpsertProfile"}
                 THEN ProfileWrites(O) \cup {Write(op.user, op, op.name)} ELSE ProfileWrites(O)
           /\ KeyWrites(O \cup {op}) =
                 IF op.kind \in {"SetAgreementKey"}
                 THEN KeyWrites(O) \cup {Write(op.user, op, op.key)} ELSE KeyWrites(O)
           /\ GroupWrites(O \cup {op}) =
                 IF op.kind \in {"CreateExpense"}
                 THEN GroupWrites(O) \cup {Write(op.expense, op, op.group)} ELSE GroupWrites(O)
           /\ VersionWrites(O \cup {op}) =
                 IF op.kind \in {"CreateExpense", "EditExpense"}
                 THEN VersionWrites(O) \cup {Write(op.expense, op, op.fields)} ELSE VersionWrites(O)
           /\ LockWrites(O \cup {op}) =
                 IF op.kind \in {"SetExpenseLock"}
                 THEN LockWrites(O) \cup {Write(op.expense, op, op.locked)} ELSE LockWrites(O)
           /\ SettlementWrites(O \cup {op}) =
                 IF op.kind \in {"RecordSettlement"}
                 THEN SettlementWrites(O) \cup {Write(op.settlement, op, SettlementData(op))} ELSE SettlementWrites(O)
           /\ Created(O \cup {op}) =
                 IF op.kind \in {"CreateGroup"}
                 THEN Created(O) \cup {op.group} ELSE Created(O)
           /\ Voided(O \cup {op}) =
                 IF op.kind \in {"VoidExpense"}
                 THEN Voided(O) \cup {op.expense} ELSE Voided(O)
           /\ VoidedSettlements(O \cup {op}) =
                 IF op.kind \in {"VoidSettlement"}
                 THEN VoidedSettlements(O) \cup {op.settlement} ELSE VoidedSettlements(O)
           /\ Published(O \cup {op}) =
                 IF \/ op.kind = "PublishExpense"
                    \/ op.kind = "CreateExpense" /\ ~op.draft
                 THEN Published(O) \cup {op.expense} ELSE Published(O)
<1> USE DEF OfKind
<1>1. NameWrites(O \cup {op}) = IF op.kind \in {"CreateGroup", "SetGroupName"}
            THEN NameWrites(O) \cup {Write(op.group, op, op.name)} ELSE NameWrites(O)
  BY DEF NameWrites
<1>2. CurrencyWrites(O \cup {op}) = IF op.kind \in {"SetGroupCurrency"}
            THEN CurrencyWrites(O) \cup {Write(op.group, op, op.currency)} ELSE CurrencyWrites(O)
  BY DEF CurrencyWrites
<1>3. ClosedWrites(O \cup {op}) = IF op.kind \in {"SetClosedPeriod"}
            THEN ClosedWrites(O) \cup {Write(op.group, op, op.until_ms)} ELSE ClosedWrites(O)
  BY DEF ClosedWrites
<1>4. ProfileWrites(O \cup {op}) = IF op.kind \in {"UpsertProfile"}
            THEN ProfileWrites(O) \cup {Write(op.user, op, op.name)} ELSE ProfileWrites(O)
  BY DEF ProfileWrites
<1>5. KeyWrites(O \cup {op}) = IF op.kind \in {"SetAgreementKey"}
            THEN KeyWrites(O) \cup {Write(op.user, op, op.key)} ELSE KeyWrites(O)
  BY DEF KeyWrites
<1>6. GroupWrites(O \cup {op}) = IF op.kind \in {"CreateExpense"}
            THEN GroupWrites(O) \cup {Write(op.expense, op, op.group)} ELSE GroupWrites(O)
  BY DEF GroupWrites
<1>7. VersionWrites(O \cup {op}) = IF op.kind \in {"CreateExpense", "EditExpense"}
            THEN VersionWrites(O) \cup {Write(op.expense, op, op.fields)} ELSE VersionWrites(O)
  BY DEF VersionWrites
<1>8. LockWrites(O \cup {op}) = IF op.kind \in {"SetExpenseLock"}
            THEN LockWrites(O) \cup {Write(op.expense, op, op.locked)} ELSE LockWrites(O)
  BY DEF LockWrites
<1>9. SettlementWrites(O \cup {op}) = IF op.kind \in {"RecordSettlement"}
            THEN SettlementWrites(O) \cup {Write(op.settlement, op, SettlementData(op))} ELSE SettlementWrites(O)
  BY DEF SettlementWrites
<1>10. Created(O \cup {op}) = IF op.kind \in {"CreateGroup"}
            THEN Created(O) \cup {op.group} ELSE Created(O)
  BY DEF Created
<1>11. Voided(O \cup {op}) = IF op.kind \in {"VoidExpense"}
            THEN Voided(O) \cup {op.expense} ELSE Voided(O)
  BY DEF Voided
<1>12. VoidedSettlements(O \cup {op}) = IF op.kind \in {"VoidSettlement"}
            THEN VoidedSettlements(O) \cup {op.settlement} ELSE VoidedSettlements(O)
  BY DEF VoidedSettlements
<1>13. Published(O \cup {op}) =
          IF \/ op.kind = "PublishExpense"
             \/ op.kind = "CreateExpense" /\ ~op.draft
          THEN Published(O) \cup {op.expense} ELSE Published(O)
  BY DEF Published
<1> QED BY <1>1, <1>2, <1>3, <1>4, <1>5, <1>6, <1>7, <1>8, <1>9, <1>10, <1>11, <1>12, <1>13

-----------------------------------------------------------------------------
(* The inductive invariant *)

(* A fold under way decides with the Authority of everything retained, and *)
(* its folder reflects the entitled ops visited.                           *)
FoldInv ==
    /\ TypeOK
    /\ phase = "folding" => /\ authority = Build(retained)
                            /\ IsFolder(folder)
                            /\ Reflects(folder, EntitledOps(visited, authority))

LEMMA EmptyIsFolder == IsFolder(EmptyFolder)
BY DEF IsFolder, EmptyFolder

LEMMA InitFoldInv == Init => FoldInv
BY DEF Init, TypeOK, FoldInv

(* A write of the op extends what a register holds.                        *)
LEMMA RegisterStep ==
    ASSUME NEW map, NEW W, NEW key, NEW op \in OpPool, NEW value,
           HoldsLastWrites(map, W), \A w \in W : w.hlc \in Nat
    PROVE  HoldsLastWrites(Lww(map, key, op.hlc, value), W \cup {Write(key, op, value)})
<1> DEFINE new == Write(key, op, value)
<1>1. new.key = key /\ new.hlc = op.hlc /\ new.value = value /\ new.hlc \in Nat
  BY OpPoolAssumption DEF Write
<1> HIDE DEF new
<1>2. HoldsLastWrites(Lww(map, new.key, new.hlc, new.value), W \cup {new})
  BY <1>1, LwwStep
<1> QED BY <1>1, <1>2 DEF new

(* A visit of an entitled op moves the folder along with the op-set.       *)
LEMMA VisitReflects ==
    ASSUME FoldInv, NEW op \in retained, FoldOp(op), Entitled(authority, op),
           NEW O, O = EntitledOps(visited, authority)
    PROVE  IsFolder(folder') /\ Reflects(folder', O \cup {op})
<1>1. phase = "folding"
  BY DEF FoldOp, FoldPass, Visit, FoldCreateGroup, FoldSetGroupName, FoldSetGroupCurrency,
         FoldSetClosedPeriod, FoldCreateExpense, FoldEditExpense, FoldPublishExpense,
         FoldVoidExpense, FoldSetExpenseLock, FoldRecordSettlement, FoldVoidSettlement,
         FoldUpsertProfile, FoldSetAgreementKey
<1>2. IsFolder(folder) /\ Reflects(folder, O)
  BY <1>1 DEF FoldInv
<1>3. O \in SUBSET OpPool /\ op \in OpPool
  BY DEF FoldInv, TypeOK, EntitledOps
<1>4. \A W \in {NameWrites(O), CurrencyWrites(O), ClosedWrites(O), ProfileWrites(O), KeyWrites(O),
                GroupWrites(O), VersionWrites(O), LockWrites(O), SettlementWrites(O)} :
         \A w \in W : w.hlc \in Nat
  BY <1>3, WritesStamped
<1>5. CASE FoldCreateGroup(op)
  <2>1. op.kind = "CreateGroup"
    BY <1>5 DEF FoldCreateGroup, Visit
  <2>2. IsFolder(folder')
    BY <1>2, <1>5 DEF FoldCreateGroup, IsFolder
  <2>3. /\ folder'.group_currency = folder.group_currency
        /\ folder'.group_closed_until = folder.group_closed_until
        /\ folder'.profiles = folder.profiles
        /\ folder'.agreement_keys = folder.agreement_keys
        /\ folder'.expense_group = folder.expense_group
        /\ folder'.expense_version = folder.expense_version
        /\ folder'.expense_locked = folder.expense_locked
        /\ folder'.settlements = folder.settlements
        /\ folder'.expense_published = folder.expense_published
        /\ folder'.expense_voided = folder.expense_voided
        /\ folder'.settlement_voided = folder.settlement_voided
    BY <1>2, <1>5 DEF FoldCreateGroup, IsFolder
  <2>4. /\ CurrencyWrites(O \cup {op}) = CurrencyWrites(O)
        /\ ClosedWrites(O \cup {op}) = ClosedWrites(O)
        /\ ProfileWrites(O \cup {op}) = ProfileWrites(O)
        /\ KeyWrites(O \cup {op}) = KeyWrites(O)
        /\ GroupWrites(O \cup {op}) = GroupWrites(O)
        /\ VersionWrites(O \cup {op}) = VersionWrites(O)
        /\ LockWrites(O \cup {op}) = LockWrites(O)
        /\ SettlementWrites(O \cup {op}) = SettlementWrites(O)
        /\ Published(O \cup {op}) = Published(O) /\ Voided(O \cup {op}) = Voided(O)
        /\ VoidedSettlements(O \cup {op}) = VoidedSettlements(O)
    BY <2>1, WritesGrow
  <2>5. HoldsLastWrites(folder'.group_name, NameWrites(O \cup {op}))
    <3>1. folder'.group_name = Lww(folder.group_name, op.group, op.hlc, op.name)
      BY <1>2, <1>5 DEF FoldCreateGroup, IsFolder
    <3>2. NameWrites(O \cup {op}) = NameWrites(O) \cup {Write(op.group, op, op.name)}
      BY <2>1, WritesGrow
    <3>3. HoldsLastWrites(folder.group_name, NameWrites(O)) /\ \A w \in NameWrites(O) : w.hlc \in Nat
      BY <1>2, <1>4 DEF Reflects
    <3>4. HoldsLastWrites(Lww(folder.group_name, op.group, op.hlc, op.name),
                          NameWrites(O) \cup {Write(op.group, op, op.name)})
      BY <1>3, <3>3, RegisterStep
    <3> QED BY <3>1, <3>2, <3>4
  <2>6. folder'.group_created = Created(O \cup {op})
    BY <1>2, <1>5, <2>1, WritesGrow DEF FoldCreateGroup, IsFolder, Reflects
  <2> QED BY <1>2, <2>2, <2>3, <2>4, <2>5, <2>6 DEF Reflects
<1>6. CASE FoldSetGroupName(op)
  <2>1. op.kind = "SetGroupName"
    BY <1>6 DEF FoldSetGroupName, Visit
  <2>2. IsFolder(folder')
    BY <1>2, <1>6 DEF FoldSetGroupName, IsFolder
  <2>3. /\ folder'.group_currency = folder.group_currency
        /\ folder'.group_closed_until = folder.group_closed_until
        /\ folder'.profiles = folder.profiles
        /\ folder'.agreement_keys = folder.agreement_keys
        /\ folder'.expense_group = folder.expense_group
        /\ folder'.expense_version = folder.expense_version
        /\ folder'.expense_locked = folder.expense_locked
        /\ folder'.settlements = folder.settlements
        /\ folder'.group_created = folder.group_created
        /\ folder'.expense_published = folder.expense_published
        /\ folder'.expense_voided = folder.expense_voided
        /\ folder'.settlement_voided = folder.settlement_voided
    BY <1>2, <1>6 DEF FoldSetGroupName, IsFolder
  <2>4. /\ CurrencyWrites(O \cup {op}) = CurrencyWrites(O)
        /\ ClosedWrites(O \cup {op}) = ClosedWrites(O)
        /\ ProfileWrites(O \cup {op}) = ProfileWrites(O)
        /\ KeyWrites(O \cup {op}) = KeyWrites(O)
        /\ GroupWrites(O \cup {op}) = GroupWrites(O)
        /\ VersionWrites(O \cup {op}) = VersionWrites(O)
        /\ LockWrites(O \cup {op}) = LockWrites(O)
        /\ SettlementWrites(O \cup {op}) = SettlementWrites(O)
        /\ Created(O \cup {op}) = Created(O)
        /\ Published(O \cup {op}) = Published(O) /\ Voided(O \cup {op}) = Voided(O)
        /\ VoidedSettlements(O \cup {op}) = VoidedSettlements(O)
    BY <2>1, WritesGrow
  <2>5. HoldsLastWrites(folder'.group_name, NameWrites(O \cup {op}))
    <3>1. folder'.group_name = Lww(folder.group_name, op.group, op.hlc, op.name)
      BY <1>2, <1>6 DEF FoldSetGroupName, IsFolder
    <3>2. NameWrites(O \cup {op}) = NameWrites(O) \cup {Write(op.group, op, op.name)}
      BY <2>1, WritesGrow
    <3>3. HoldsLastWrites(folder.group_name, NameWrites(O)) /\ \A w \in NameWrites(O) : w.hlc \in Nat
      BY <1>2, <1>4 DEF Reflects
    <3>4. HoldsLastWrites(Lww(folder.group_name, op.group, op.hlc, op.name),
                          NameWrites(O) \cup {Write(op.group, op, op.name)})
      BY <1>3, <3>3, RegisterStep
    <3> QED BY <3>1, <3>2, <3>4
  <2> QED BY <1>2, <2>2, <2>3, <2>4, <2>5 DEF Reflects
<1>7. CASE FoldSetGroupCurrency(op)
  <2>1. op.kind = "SetGroupCurrency"
    BY <1>7 DEF FoldSetGroupCurrency, Visit
  <2>2. IsFolder(folder')
    BY <1>2, <1>7 DEF FoldSetGroupCurrency, IsFolder
  <2>3. /\ folder'.group_name = folder.group_name
        /\ folder'.group_closed_until = folder.group_closed_until
        /\ folder'.profiles = folder.profiles
        /\ folder'.agreement_keys = folder.agreement_keys
        /\ folder'.expense_group = folder.expense_group
        /\ folder'.expense_version = folder.expense_version
        /\ folder'.expense_locked = folder.expense_locked
        /\ folder'.settlements = folder.settlements
        /\ folder'.group_created = folder.group_created
        /\ folder'.expense_published = folder.expense_published
        /\ folder'.expense_voided = folder.expense_voided
        /\ folder'.settlement_voided = folder.settlement_voided
    BY <1>2, <1>7 DEF FoldSetGroupCurrency, IsFolder
  <2>4. /\ NameWrites(O \cup {op}) = NameWrites(O)
        /\ ClosedWrites(O \cup {op}) = ClosedWrites(O)
        /\ ProfileWrites(O \cup {op}) = ProfileWrites(O)
        /\ KeyWrites(O \cup {op}) = KeyWrites(O)
        /\ GroupWrites(O \cup {op}) = GroupWrites(O)
        /\ VersionWrites(O \cup {op}) = VersionWrites(O)
        /\ LockWrites(O \cup {op}) = LockWrites(O)
        /\ SettlementWrites(O \cup {op}) = SettlementWrites(O)
        /\ Created(O \cup {op}) = Created(O)
        /\ Published(O \cup {op}) = Published(O) /\ Voided(O \cup {op}) = Voided(O)
        /\ VoidedSettlements(O \cup {op}) = VoidedSettlements(O)
    BY <2>1, WritesGrow
  <2>5. HoldsLastWrites(folder'.group_currency, CurrencyWrites(O \cup {op}))
    <3>1. folder'.group_currency = Lww(folder.group_currency, op.group, op.hlc, op.currency)
      BY <1>2, <1>7 DEF FoldSetGroupCurrency, IsFolder
    <3>2. CurrencyWrites(O \cup {op}) = CurrencyWrites(O) \cup {Write(op.group, op, op.currency)}
      BY <2>1, WritesGrow
    <3>3. HoldsLastWrites(folder.group_currency, CurrencyWrites(O)) /\ \A w \in CurrencyWrites(O) : w.hlc \in Nat
      BY <1>2, <1>4 DEF Reflects
    <3>4. HoldsLastWrites(Lww(folder.group_currency, op.group, op.hlc, op.currency),
                          CurrencyWrites(O) \cup {Write(op.group, op, op.currency)})
      BY <1>3, <3>3, RegisterStep
    <3> QED BY <3>1, <3>2, <3>4
  <2> QED BY <1>2, <2>2, <2>3, <2>4, <2>5 DEF Reflects
<1>8. CASE FoldSetClosedPeriod(op)
  <2>1. op.kind = "SetClosedPeriod"
    BY <1>8 DEF FoldSetClosedPeriod, Visit
  <2>2. IsFolder(folder')
    BY <1>2, <1>8 DEF FoldSetClosedPeriod, IsFolder
  <2>3. /\ folder'.group_name = folder.group_name
        /\ folder'.group_currency = folder.group_currency
        /\ folder'.profiles = folder.profiles
        /\ folder'.agreement_keys = folder.agreement_keys
        /\ folder'.expense_group = folder.expense_group
        /\ folder'.expense_version = folder.expense_version
        /\ folder'.expense_locked = folder.expense_locked
        /\ folder'.settlements = folder.settlements
        /\ folder'.group_created = folder.group_created
        /\ folder'.expense_published = folder.expense_published
        /\ folder'.expense_voided = folder.expense_voided
        /\ folder'.settlement_voided = folder.settlement_voided
    BY <1>2, <1>8 DEF FoldSetClosedPeriod, IsFolder
  <2>4. /\ NameWrites(O \cup {op}) = NameWrites(O)
        /\ CurrencyWrites(O \cup {op}) = CurrencyWrites(O)
        /\ ProfileWrites(O \cup {op}) = ProfileWrites(O)
        /\ KeyWrites(O \cup {op}) = KeyWrites(O)
        /\ GroupWrites(O \cup {op}) = GroupWrites(O)
        /\ VersionWrites(O \cup {op}) = VersionWrites(O)
        /\ LockWrites(O \cup {op}) = LockWrites(O)
        /\ SettlementWrites(O \cup {op}) = SettlementWrites(O)
        /\ Created(O \cup {op}) = Created(O)
        /\ Published(O \cup {op}) = Published(O) /\ Voided(O \cup {op}) = Voided(O)
        /\ VoidedSettlements(O \cup {op}) = VoidedSettlements(O)
    BY <2>1, WritesGrow
  <2>5. HoldsLastWrites(folder'.group_closed_until, ClosedWrites(O \cup {op}))
    <3>1. folder'.group_closed_until = Lww(folder.group_closed_until, op.group, op.hlc, op.until_ms)
      BY <1>2, <1>8 DEF FoldSetClosedPeriod, IsFolder
    <3>2. ClosedWrites(O \cup {op}) = ClosedWrites(O) \cup {Write(op.group, op, op.until_ms)}
      BY <2>1, WritesGrow
    <3>3. HoldsLastWrites(folder.group_closed_until, ClosedWrites(O)) /\ \A w \in ClosedWrites(O) : w.hlc \in Nat
      BY <1>2, <1>4 DEF Reflects
    <3>4. HoldsLastWrites(Lww(folder.group_closed_until, op.group, op.hlc, op.until_ms),
                          ClosedWrites(O) \cup {Write(op.group, op, op.until_ms)})
      BY <1>3, <3>3, RegisterStep
    <3> QED BY <3>1, <3>2, <3>4
  <2> QED BY <1>2, <2>2, <2>3, <2>4, <2>5 DEF Reflects
<1>9. CASE FoldCreateExpense(op)
  <2>1. op.kind = "CreateExpense"
    BY <1>9 DEF FoldCreateExpense, Visit
  <2>2. IsFolder(folder')
    BY <1>2, <1>9 DEF FoldCreateExpense, IsFolder
  <2>3. /\ folder'.group_name = folder.group_name
        /\ folder'.group_currency = folder.group_currency
        /\ folder'.group_closed_until = folder.group_closed_until
        /\ folder'.profiles = folder.profiles
        /\ folder'.agreement_keys = folder.agreement_keys
        /\ folder'.expense_locked = folder.expense_locked
        /\ folder'.settlements = folder.settlements
        /\ folder'.group_created = folder.group_created
        /\ folder'.expense_voided = folder.expense_voided
        /\ folder'.settlement_voided = folder.settlement_voided
    BY <1>2, <1>9 DEF FoldCreateExpense, IsFolder
  <2>4. /\ NameWrites(O \cup {op}) = NameWrites(O)
        /\ CurrencyWrites(O \cup {op}) = CurrencyWrites(O)
        /\ ClosedWrites(O \cup {op}) = ClosedWrites(O)
        /\ ProfileWrites(O \cup {op}) = ProfileWrites(O)
        /\ KeyWrites(O \cup {op}) = KeyWrites(O)
        /\ LockWrites(O \cup {op}) = LockWrites(O)
        /\ SettlementWrites(O \cup {op}) = SettlementWrites(O)
        /\ Created(O \cup {op}) = Created(O) /\ Voided(O \cup {op}) = Voided(O)
        /\ VoidedSettlements(O \cup {op}) = VoidedSettlements(O)
    BY <2>1, WritesGrow
  <2>5. HoldsLastWrites(folder'.expense_group, GroupWrites(O \cup {op}))
    <3>1. folder'.expense_group = Lww(folder.expense_group, op.expense, op.hlc, op.group)
      BY <1>2, <1>9 DEF FoldCreateExpense, IsFolder
    <3>2. GroupWrites(O \cup {op}) = GroupWrites(O) \cup {Write(op.expense, op, op.group)}
      BY <2>1, WritesGrow
    <3>3. HoldsLastWrites(folder.expense_group, GroupWrites(O)) /\ \A w \in GroupWrites(O) : w.hlc \in Nat
      BY <1>2, <1>4 DEF Reflects
    <3>4. HoldsLastWrites(Lww(folder.expense_group, op.expense, op.hlc, op.group),
                          GroupWrites(O) \cup {Write(op.expense, op, op.group)})
      BY <1>3, <3>3, RegisterStep
    <3> QED BY <3>1, <3>2, <3>4
  <2>6. HoldsLastWrites(folder'.expense_version, VersionWrites(O \cup {op}))
    <3>1. folder'.expense_version = Lww(folder.expense_version, op.expense, op.hlc, op.fields)
      BY <1>2, <1>9 DEF FoldCreateExpense, IsFolder
    <3>2. VersionWrites(O \cup {op}) = VersionWrites(O) \cup {Write(op.expense, op, op.fields)}
      BY <2>1, WritesGrow
    <3>3. HoldsLastWrites(folder.expense_version, VersionWrites(O)) /\ \A w \in VersionWrites(O) : w.hlc \in Nat
      BY <1>2, <1>4 DEF Reflects
    <3>4. HoldsLastWrites(Lww(folder.expense_version, op.expense, op.hlc, op.fields),
                          VersionWrites(O) \cup {Write(op.expense, op, op.fields)})
      BY <1>3, <3>3, RegisterStep
    <3> QED BY <3>1, <3>2, <3>4
  <2>7. folder'.expense_published = Published(O \cup {op})
    BY <1>2, <1>9, <2>1, WritesGrow DEF FoldCreateExpense, IsFolder, Reflects
  <2> QED BY <1>2, <2>2, <2>3, <2>4, <2>5, <2>6, <2>7 DEF Reflects
<1>10. CASE FoldEditExpense(op)
  <2>1. op.kind = "EditExpense"
    BY <1>10 DEF FoldEditExpense, Visit
  <2>2. IsFolder(folder')
    BY <1>2, <1>10 DEF FoldEditExpense, IsFolder
  <2>3. /\ folder'.group_name = folder.group_name
        /\ folder'.group_currency = folder.group_currency
        /\ folder'.group_closed_until = folder.group_closed_until
        /\ folder'.profiles = folder.profiles
        /\ folder'.agreement_keys = folder.agreement_keys
        /\ folder'.expense_group = folder.expense_group
        /\ folder'.expense_locked = folder.expense_locked
        /\ folder'.settlements = folder.settlements
        /\ folder'.group_created = folder.group_created
        /\ folder'.expense_published = folder.expense_published
        /\ folder'.expense_voided = folder.expense_voided
        /\ folder'.settlement_voided = folder.settlement_voided
    BY <1>2, <1>10 DEF FoldEditExpense, IsFolder
  <2>4. /\ NameWrites(O \cup {op}) = NameWrites(O)
        /\ CurrencyWrites(O \cup {op}) = CurrencyWrites(O)
        /\ ClosedWrites(O \cup {op}) = ClosedWrites(O)
        /\ ProfileWrites(O \cup {op}) = ProfileWrites(O)
        /\ KeyWrites(O \cup {op}) = KeyWrites(O)
        /\ GroupWrites(O \cup {op}) = GroupWrites(O)
        /\ LockWrites(O \cup {op}) = LockWrites(O)
        /\ SettlementWrites(O \cup {op}) = SettlementWrites(O)
        /\ Created(O \cup {op}) = Created(O)
        /\ Published(O \cup {op}) = Published(O) /\ Voided(O \cup {op}) = Voided(O)
        /\ VoidedSettlements(O \cup {op}) = VoidedSettlements(O)
    BY <2>1, WritesGrow
  <2>5. HoldsLastWrites(folder'.expense_version, VersionWrites(O \cup {op}))
    <3>1. folder'.expense_version = Lww(folder.expense_version, op.expense, op.hlc, op.fields)
      BY <1>2, <1>10 DEF FoldEditExpense, IsFolder
    <3>2. VersionWrites(O \cup {op}) = VersionWrites(O) \cup {Write(op.expense, op, op.fields)}
      BY <2>1, WritesGrow
    <3>3. HoldsLastWrites(folder.expense_version, VersionWrites(O)) /\ \A w \in VersionWrites(O) : w.hlc \in Nat
      BY <1>2, <1>4 DEF Reflects
    <3>4. HoldsLastWrites(Lww(folder.expense_version, op.expense, op.hlc, op.fields),
                          VersionWrites(O) \cup {Write(op.expense, op, op.fields)})
      BY <1>3, <3>3, RegisterStep
    <3> QED BY <3>1, <3>2, <3>4
  <2> QED BY <1>2, <2>2, <2>3, <2>4, <2>5 DEF Reflects
<1>11. CASE FoldPublishExpense(op)
  <2>1. op.kind = "PublishExpense"
    BY <1>11 DEF FoldPublishExpense, Visit
  <2>2. IsFolder(folder')
    BY <1>2, <1>11 DEF FoldPublishExpense, IsFolder
  <2>3. /\ folder'.group_name = folder.group_name
        /\ folder'.group_currency = folder.group_currency
        /\ folder'.group_closed_until = folder.group_closed_until
        /\ folder'.profiles = folder.profiles
        /\ folder'.agreement_keys = folder.agreement_keys
        /\ folder'.expense_group = folder.expense_group
        /\ folder'.expense_version = folder.expense_version
        /\ folder'.expense_locked = folder.expense_locked
        /\ folder'.settlements = folder.settlements
        /\ folder'.group_created = folder.group_created
        /\ folder'.expense_voided = folder.expense_voided
        /\ folder'.settlement_voided = folder.settlement_voided
    BY <1>2, <1>11 DEF FoldPublishExpense, IsFolder
  <2>4. /\ NameWrites(O \cup {op}) = NameWrites(O)
        /\ CurrencyWrites(O \cup {op}) = CurrencyWrites(O)
        /\ ClosedWrites(O \cup {op}) = ClosedWrites(O)
        /\ ProfileWrites(O \cup {op}) = ProfileWrites(O)
        /\ KeyWrites(O \cup {op}) = KeyWrites(O)
        /\ GroupWrites(O \cup {op}) = GroupWrites(O)
        /\ VersionWrites(O \cup {op}) = VersionWrites(O)
        /\ LockWrites(O \cup {op}) = LockWrites(O)
        /\ SettlementWrites(O \cup {op}) = SettlementWrites(O)
        /\ Created(O \cup {op}) = Created(O) /\ Voided(O \cup {op}) = Voided(O)
        /\ VoidedSettlements(O \cup {op}) = VoidedSettlements(O)
    BY <2>1, WritesGrow
  <2>5. folder'.expense_published = Published(O \cup {op})
    <3>1. folder'.expense_published = folder.expense_published \cup {op.expense}
      BY <1>2, <1>11 DEF FoldPublishExpense, IsFolder
    <3>2. Published(O \cup {op}) = Published(O) \cup {op.expense}
      BY <2>1, WritesGrow
    <3>3. folder.expense_published = Published(O)
      BY <1>2 DEF Reflects
    <3> QED BY <3>1, <3>2, <3>3
  <2> QED BY <1>2, <2>2, <2>3, <2>4, <2>5 DEF Reflects
<1>12. CASE FoldVoidExpense(op)
  <2>1. op.kind = "VoidExpense"
    BY <1>12 DEF FoldVoidExpense, Visit
  <2>2. IsFolder(folder')
    BY <1>2, <1>12 DEF FoldVoidExpense, IsFolder
  <2>3. /\ folder'.group_name = folder.group_name
        /\ folder'.group_currency = folder.group_currency
        /\ folder'.group_closed_until = folder.group_closed_until
        /\ folder'.profiles = folder.profiles
        /\ folder'.agreement_keys = folder.agreement_keys
        /\ folder'.expense_group = folder.expense_group
        /\ folder'.expense_version = folder.expense_version
        /\ folder'.expense_locked = folder.expense_locked
        /\ folder'.settlements = folder.settlements
        /\ folder'.group_created = folder.group_created
        /\ folder'.expense_published = folder.expense_published
        /\ folder'.settlement_voided = folder.settlement_voided
    BY <1>2, <1>12 DEF FoldVoidExpense, IsFolder
  <2>4. /\ NameWrites(O \cup {op}) = NameWrites(O)
        /\ CurrencyWrites(O \cup {op}) = CurrencyWrites(O)
        /\ ClosedWrites(O \cup {op}) = ClosedWrites(O)
        /\ ProfileWrites(O \cup {op}) = ProfileWrites(O)
        /\ KeyWrites(O \cup {op}) = KeyWrites(O)
        /\ GroupWrites(O \cup {op}) = GroupWrites(O)
        /\ VersionWrites(O \cup {op}) = VersionWrites(O)
        /\ LockWrites(O \cup {op}) = LockWrites(O)
        /\ SettlementWrites(O \cup {op}) = SettlementWrites(O)
        /\ Created(O \cup {op}) = Created(O)
        /\ Published(O \cup {op}) = Published(O)
        /\ VoidedSettlements(O \cup {op}) = VoidedSettlements(O)
    BY <2>1, WritesGrow
  <2>5. folder'.expense_voided = Voided(O \cup {op})
    BY <1>2, <1>12, <2>1, WritesGrow DEF FoldVoidExpense, IsFolder, Reflects
  <2> QED BY <1>2, <2>2, <2>3, <2>4, <2>5 DEF Reflects
<1>13. CASE FoldSetExpenseLock(op)
  <2>1. op.kind = "SetExpenseLock"
    BY <1>13 DEF FoldSetExpenseLock, Visit
  <2>2. IsFolder(folder')
    BY <1>2, <1>13 DEF FoldSetExpenseLock, IsFolder
  <2>3. /\ folder'.group_name = folder.group_name
        /\ folder'.group_currency = folder.group_currency
        /\ folder'.group_closed_until = folder.group_closed_until
        /\ folder'.profiles = folder.profiles
        /\ folder'.agreement_keys = folder.agreement_keys
        /\ folder'.expense_group = folder.expense_group
        /\ folder'.expense_version = folder.expense_version
        /\ folder'.settlements = folder.settlements
        /\ folder'.group_created = folder.group_created
        /\ folder'.expense_published = folder.expense_published
        /\ folder'.expense_voided = folder.expense_voided
        /\ folder'.settlement_voided = folder.settlement_voided
    BY <1>2, <1>13 DEF FoldSetExpenseLock, IsFolder
  <2>4. /\ NameWrites(O \cup {op}) = NameWrites(O)
        /\ CurrencyWrites(O \cup {op}) = CurrencyWrites(O)
        /\ ClosedWrites(O \cup {op}) = ClosedWrites(O)
        /\ ProfileWrites(O \cup {op}) = ProfileWrites(O)
        /\ KeyWrites(O \cup {op}) = KeyWrites(O)
        /\ GroupWrites(O \cup {op}) = GroupWrites(O)
        /\ VersionWrites(O \cup {op}) = VersionWrites(O)
        /\ SettlementWrites(O \cup {op}) = SettlementWrites(O)
        /\ Created(O \cup {op}) = Created(O)
        /\ Published(O \cup {op}) = Published(O) /\ Voided(O \cup {op}) = Voided(O)
        /\ VoidedSettlements(O \cup {op}) = VoidedSettlements(O)
    BY <2>1, WritesGrow
  <2>5. HoldsLastWrites(folder'.expense_locked, LockWrites(O \cup {op}))
    <3>1. folder'.expense_locked = Lww(folder.expense_locked, op.expense, op.hlc, op.locked)
      BY <1>2, <1>13 DEF FoldSetExpenseLock, IsFolder
    <3>2. LockWrites(O \cup {op}) = LockWrites(O) \cup {Write(op.expense, op, op.locked)}
      BY <2>1, WritesGrow
    <3>3. HoldsLastWrites(folder.expense_locked, LockWrites(O)) /\ \A w \in LockWrites(O) : w.hlc \in Nat
      BY <1>2, <1>4 DEF Reflects
    <3>4. HoldsLastWrites(Lww(folder.expense_locked, op.expense, op.hlc, op.locked),
                          LockWrites(O) \cup {Write(op.expense, op, op.locked)})
      BY <1>3, <3>3, RegisterStep
    <3> QED BY <3>1, <3>2, <3>4
  <2> QED BY <1>2, <2>2, <2>3, <2>4, <2>5 DEF Reflects
<1>14. CASE FoldRecordSettlement(op)
  <2>1. op.kind = "RecordSettlement"
    BY <1>14 DEF FoldRecordSettlement, Visit
  <2>2. IsFolder(folder')
    BY <1>2, <1>14 DEF FoldRecordSettlement, IsFolder
  <2>3. /\ folder'.group_name = folder.group_name
        /\ folder'.group_currency = folder.group_currency
        /\ folder'.group_closed_until = folder.group_closed_until
        /\ folder'.profiles = folder.profiles
        /\ folder'.agreement_keys = folder.agreement_keys
        /\ folder'.expense_group = folder.expense_group
        /\ folder'.expense_version = folder.expense_version
        /\ folder'.expense_locked = folder.expense_locked
        /\ folder'.group_created = folder.group_created
        /\ folder'.expense_published = folder.expense_published
        /\ folder'.expense_voided = folder.expense_voided
        /\ folder'.settlement_voided = folder.settlement_voided
    BY <1>2, <1>14 DEF FoldRecordSettlement, IsFolder
  <2>4. /\ NameWrites(O \cup {op}) = NameWrites(O)
        /\ CurrencyWrites(O \cup {op}) = CurrencyWrites(O)
        /\ ClosedWrites(O \cup {op}) = ClosedWrites(O)
        /\ ProfileWrites(O \cup {op}) = ProfileWrites(O)
        /\ KeyWrites(O \cup {op}) = KeyWrites(O)
        /\ GroupWrites(O \cup {op}) = GroupWrites(O)
        /\ VersionWrites(O \cup {op}) = VersionWrites(O)
        /\ LockWrites(O \cup {op}) = LockWrites(O)
        /\ Created(O \cup {op}) = Created(O)
        /\ Published(O \cup {op}) = Published(O) /\ Voided(O \cup {op}) = Voided(O)
        /\ VoidedSettlements(O \cup {op}) = VoidedSettlements(O)
    BY <2>1, WritesGrow
  <2>5. HoldsLastWrites(folder'.settlements, SettlementWrites(O \cup {op}))
    <3>1. folder'.settlements = Lww(folder.settlements, op.settlement, op.hlc, SettlementData(op))
      BY <1>2, <1>14 DEF FoldRecordSettlement, IsFolder
    <3>2. SettlementWrites(O \cup {op}) = SettlementWrites(O) \cup {Write(op.settlement, op, SettlementData(op))}
      BY <2>1, WritesGrow
    <3>3. HoldsLastWrites(folder.settlements, SettlementWrites(O)) /\ \A w \in SettlementWrites(O) : w.hlc \in Nat
      BY <1>2, <1>4 DEF Reflects
    <3>4. HoldsLastWrites(Lww(folder.settlements, op.settlement, op.hlc, SettlementData(op)),
                          SettlementWrites(O) \cup {Write(op.settlement, op, SettlementData(op))})
      BY <1>3, <3>3, RegisterStep
    <3> QED BY <3>1, <3>2, <3>4
  <2> QED BY <1>2, <2>2, <2>3, <2>4, <2>5 DEF Reflects
<1>15. CASE FoldVoidSettlement(op)
  <2>1. op.kind = "VoidSettlement"
    BY <1>15 DEF FoldVoidSettlement, Visit
  <2>2. IsFolder(folder')
    BY <1>2, <1>15 DEF FoldVoidSettlement, IsFolder
  <2>3. /\ folder'.group_name = folder.group_name
        /\ folder'.group_currency = folder.group_currency
        /\ folder'.group_closed_until = folder.group_closed_until
        /\ folder'.profiles = folder.profiles
        /\ folder'.agreement_keys = folder.agreement_keys
        /\ folder'.expense_group = folder.expense_group
        /\ folder'.expense_version = folder.expense_version
        /\ folder'.expense_locked = folder.expense_locked
        /\ folder'.settlements = folder.settlements
        /\ folder'.group_created = folder.group_created
        /\ folder'.expense_published = folder.expense_published
        /\ folder'.expense_voided = folder.expense_voided
    BY <1>2, <1>15 DEF FoldVoidSettlement, IsFolder
  <2>4. /\ NameWrites(O \cup {op}) = NameWrites(O)
        /\ CurrencyWrites(O \cup {op}) = CurrencyWrites(O)
        /\ ClosedWrites(O \cup {op}) = ClosedWrites(O)
        /\ ProfileWrites(O \cup {op}) = ProfileWrites(O)
        /\ KeyWrites(O \cup {op}) = KeyWrites(O)
        /\ GroupWrites(O \cup {op}) = GroupWrites(O)
        /\ VersionWrites(O \cup {op}) = VersionWrites(O)
        /\ LockWrites(O \cup {op}) = LockWrites(O)
        /\ SettlementWrites(O \cup {op}) = SettlementWrites(O)
        /\ Created(O \cup {op}) = Created(O)
        /\ Published(O \cup {op}) = Published(O) /\ Voided(O \cup {op}) = Voided(O)
    BY <2>1, WritesGrow
  <2>5. folder'.settlement_voided = VoidedSettlements(O \cup {op})
    BY <1>2, <1>15, <2>1, WritesGrow DEF FoldVoidSettlement, IsFolder, Reflects
  <2> QED BY <1>2, <2>2, <2>3, <2>4, <2>5 DEF Reflects
<1>16. CASE FoldUpsertProfile(op)
  <2>1. op.kind = "UpsertProfile"
    BY <1>16 DEF FoldUpsertProfile, Visit
  <2>2. IsFolder(folder')
    BY <1>2, <1>16 DEF FoldUpsertProfile, IsFolder
  <2>3. /\ folder'.group_name = folder.group_name
        /\ folder'.group_currency = folder.group_currency
        /\ folder'.group_closed_until = folder.group_closed_until
        /\ folder'.agreement_keys = folder.agreement_keys
        /\ folder'.expense_group = folder.expense_group
        /\ folder'.expense_version = folder.expense_version
        /\ folder'.expense_locked = folder.expense_locked
        /\ folder'.settlements = folder.settlements
        /\ folder'.group_created = folder.group_created
        /\ folder'.expense_published = folder.expense_published
        /\ folder'.expense_voided = folder.expense_voided
        /\ folder'.settlement_voided = folder.settlement_voided
    BY <1>2, <1>16 DEF FoldUpsertProfile, IsFolder
  <2>4. /\ NameWrites(O \cup {op}) = NameWrites(O)
        /\ CurrencyWrites(O \cup {op}) = CurrencyWrites(O)
        /\ ClosedWrites(O \cup {op}) = ClosedWrites(O)
        /\ KeyWrites(O \cup {op}) = KeyWrites(O)
        /\ GroupWrites(O \cup {op}) = GroupWrites(O)
        /\ VersionWrites(O \cup {op}) = VersionWrites(O)
        /\ LockWrites(O \cup {op}) = LockWrites(O)
        /\ SettlementWrites(O \cup {op}) = SettlementWrites(O)
        /\ Created(O \cup {op}) = Created(O)
        /\ Published(O \cup {op}) = Published(O) /\ Voided(O \cup {op}) = Voided(O)
        /\ VoidedSettlements(O \cup {op}) = VoidedSettlements(O)
    BY <2>1, WritesGrow
  <2>5. HoldsLastWrites(folder'.profiles, ProfileWrites(O \cup {op}))
    <3>1. folder'.profiles = Lww(folder.profiles, op.user, op.hlc, op.name)
      BY <1>2, <1>16 DEF FoldUpsertProfile, IsFolder
    <3>2. ProfileWrites(O \cup {op}) = ProfileWrites(O) \cup {Write(op.user, op, op.name)}
      BY <2>1, WritesGrow
    <3>3. HoldsLastWrites(folder.profiles, ProfileWrites(O)) /\ \A w \in ProfileWrites(O) : w.hlc \in Nat
      BY <1>2, <1>4 DEF Reflects
    <3>4. HoldsLastWrites(Lww(folder.profiles, op.user, op.hlc, op.name),
                          ProfileWrites(O) \cup {Write(op.user, op, op.name)})
      BY <1>3, <3>3, RegisterStep
    <3> QED BY <3>1, <3>2, <3>4
  <2> QED BY <1>2, <2>2, <2>3, <2>4, <2>5 DEF Reflects
<1>17. CASE FoldSetAgreementKey(op)
  <2>1. op.kind = "SetAgreementKey"
    BY <1>17 DEF FoldSetAgreementKey, Visit
  <2>2. IsFolder(folder')
    BY <1>2, <1>17 DEF FoldSetAgreementKey, IsFolder
  <2>3. /\ folder'.group_name = folder.group_name
        /\ folder'.group_currency = folder.group_currency
        /\ folder'.group_closed_until = folder.group_closed_until
        /\ folder'.profiles = folder.profiles
        /\ folder'.expense_group = folder.expense_group
        /\ folder'.expense_version = folder.expense_version
        /\ folder'.expense_locked = folder.expense_locked
        /\ folder'.settlements = folder.settlements
        /\ folder'.group_created = folder.group_created
        /\ folder'.expense_published = folder.expense_published
        /\ folder'.expense_voided = folder.expense_voided
        /\ folder'.settlement_voided = folder.settlement_voided
    BY <1>2, <1>17 DEF FoldSetAgreementKey, IsFolder
  <2>4. /\ NameWrites(O \cup {op}) = NameWrites(O)
        /\ CurrencyWrites(O \cup {op}) = CurrencyWrites(O)
        /\ ClosedWrites(O \cup {op}) = ClosedWrites(O)
        /\ ProfileWrites(O \cup {op}) = ProfileWrites(O)
        /\ GroupWrites(O \cup {op}) = GroupWrites(O)
        /\ VersionWrites(O \cup {op}) = VersionWrites(O)
        /\ LockWrites(O \cup {op}) = LockWrites(O)
        /\ SettlementWrites(O \cup {op}) = SettlementWrites(O)
        /\ Created(O \cup {op}) = Created(O)
        /\ Published(O \cup {op}) = Published(O) /\ Voided(O \cup {op}) = Voided(O)
        /\ VoidedSettlements(O \cup {op}) = VoidedSettlements(O)
    BY <2>1, WritesGrow
  <2>5. HoldsLastWrites(folder'.agreement_keys, KeyWrites(O \cup {op}))
    <3>1. folder'.agreement_keys = Lww(folder.agreement_keys, op.user, op.hlc, op.key)
      BY <1>2, <1>17 DEF FoldSetAgreementKey, IsFolder
    <3>2. KeyWrites(O \cup {op}) = KeyWrites(O) \cup {Write(op.user, op, op.key)}
      BY <2>1, WritesGrow
    <3>3. HoldsLastWrites(folder.agreement_keys, KeyWrites(O)) /\ \A w \in KeyWrites(O) : w.hlc \in Nat
      BY <1>2, <1>4 DEF Reflects
    <3>4. HoldsLastWrites(Lww(folder.agreement_keys, op.user, op.hlc, op.key),
                          KeyWrites(O) \cup {Write(op.user, op, op.key)})
      BY <1>3, <3>3, RegisterStep
    <3> QED BY <3>1, <3>2, <3>4
  <2> QED BY <1>2, <2>2, <2>3, <2>4, <2>5 DEF Reflects
<1>18. CASE FoldPass(op)
  <2>1. op.kind \in AuthorityKinds /\ folder' = folder
    BY <1>18 DEF FoldPass
  <2>2. /\ NameWrites(O \cup {op}) = NameWrites(O)
        /\ CurrencyWrites(O \cup {op}) = CurrencyWrites(O)
        /\ ClosedWrites(O \cup {op}) = ClosedWrites(O)
        /\ ProfileWrites(O \cup {op}) = ProfileWrites(O)
        /\ KeyWrites(O \cup {op}) = KeyWrites(O)
        /\ GroupWrites(O \cup {op}) = GroupWrites(O)
        /\ VersionWrites(O \cup {op}) = VersionWrites(O)
        /\ LockWrites(O \cup {op}) = LockWrites(O)
        /\ SettlementWrites(O \cup {op}) = SettlementWrites(O)
        /\ Created(O \cup {op}) = Created(O)
        /\ Published(O \cup {op}) = Published(O) /\ Voided(O \cup {op}) = Voided(O)
        /\ VoidedSettlements(O \cup {op}) = VoidedSettlements(O)
    BY <2>1, WritesGrow DEF AuthorityKinds
  <2> QED BY <1>2, <2>1, <2>2 DEF Reflects
<1> QED BY <1>5, <1>6, <1>7, <1>8, <1>9, <1>10, <1>11, <1>12, <1>13, <1>14, <1>15
           , <1>16, <1>17, <1>18
       DEF FoldOp

(* One visit extends the entitled ops visited by the op, if entitled.      *)
LEMMA FoldOpKeeps ==
    ASSUME FoldInv, NEW op \in retained, FoldOp(op)
    PROVE  FoldInv'
<1>1. /\ phase = "folding" /\ phase' = phase /\ retained' = retained /\ authority' = authority
      /\ view' = view /\ visited' = visited \cup {op}
  BY DEF FoldOp, FoldPass, Visit, FoldCreateGroup, FoldSetGroupName, FoldSetGroupCurrency,
         FoldSetClosedPeriod, FoldCreateExpense, FoldEditExpense, FoldPublishExpense,
         FoldVoidExpense, FoldSetExpenseLock, FoldRecordSettlement, FoldVoidSettlement,
         FoldUpsertProfile, FoldSetAgreementKey
<1>2. TypeOK'
  BY <1>1 DEF FoldInv, TypeOK
<1>4. authority' = Build(retained')
  BY <1>1 DEF FoldInv
<1>5. IsFolder(folder') /\ Reflects(folder', EntitledOps(visited', authority'))
  <2>1. CASE Entitled(authority, op)
    <3>1. EntitledOps(visited', authority') = EntitledOps(visited, authority) \cup {op}
      BY <1>1, <2>1 DEF EntitledOps
    <3>2. /\ IsFolder(folder')
          /\ Reflects(folder', EntitledOps(visited, authority) \cup {op})
      BY <2>1, VisitReflects
    <3> QED BY <3>1, <3>2
  <2>2. CASE ~Entitled(authority, op)
    <3>1. EntitledOps(visited', authority') = EntitledOps(visited, authority)
      BY <1>1, <2>2 DEF EntitledOps
    <3>2. folder' = folder
      BY <2>2 DEF FoldOp, FoldPass, Visit, FoldCreateGroup, FoldSetGroupName,
                  FoldSetGroupCurrency, FoldSetClosedPeriod, FoldCreateExpense,
                  FoldEditExpense, FoldPublishExpense, FoldVoidExpense, FoldSetExpenseLock,
                  FoldRecordSettlement, FoldVoidSettlement, FoldUpsertProfile,
                  FoldSetAgreementKey
    <3>3. IsFolder(folder) /\ Reflects(folder, EntitledOps(visited, authority))
      BY <1>1 DEF FoldInv
    <3> QED BY <3>1, <3>2, <3>3
  <2> QED BY <2>1, <2>2
<1> QED BY <1>2, <1>4, <1>5 DEF FoldInv

LEMMA NextFoldInv == FoldInv /\ [Next]_vars => FoldInv'
<1> SUFFICES ASSUME FoldInv, [Next]_vars PROVE FoldInv'
  OBVIOUS
<1>1. ASSUME NEW op \in OpPool, Apply(op) PROVE FoldInv'
  BY <1>1 DEF Apply, FoldInv, TypeOK
<1>2. CASE StartFold
  <2>1. TypeOK'
    BY <1>2 DEF StartFold, FoldInv, TypeOK
  <2>2. authority' = Build(retained') /\ folder' = EmptyFolder /\ visited' = {}
    BY <1>2 DEF StartFold
  <2>3. EntitledOps(visited', authority') = {}
    BY <2>2 DEF EntitledOps
  <2>4. IsFolder(folder') /\ Reflects(folder', EntitledOps(visited', authority'))
    BY <2>2, <2>3, EmptyIsFolder, EmptyReflects
  <2> QED BY <2>1, <2>2, <2>4 DEF FoldInv
<1>3. ASSUME NEW op \in retained, FoldOp(op) PROVE FoldInv'
  BY <1>3, FoldOpKeeps
<1>4. CASE FinishFold
  <2>1. TypeOK' /\ phase' = "idle"
    BY <1>4 DEF FinishFold, FoldInv, TypeOK
  <2> QED BY <2>1 DEF FoldInv
<1>5. CASE UNCHANGED vars
  BY <1>5 DEF vars, FoldInv, TypeOK, Reflects, IsFolder
<1> QED BY <1>1, <1>2, <1>3, <1>4, <1>5 DEF Next

LEMMA FoldInvariant == Spec => []FoldInv
<1> QED BY InitFoldInv, NextFoldInv, PTL DEF Spec

(* A fold that finishes shows the projection of everything retained.       *)
LEMMA FinishProjects ==
    ASSUME DistinctHlcs, FoldInv, FinishFold
    PROVE  view' = [of |-> retained, model |-> Project(retained)]
<1>1. /\ phase = "folding" /\ visited = retained
      /\ view' = [of |-> retained, model |-> Assemble(folder, authority)]
  BY DEF FinishFold
<1>2. /\ authority = Build(retained) /\ IsFolder(folder)
      /\ Reflects(folder, EntitledOps(retained, authority))
  BY <1>1 DEF FoldInv
<1>3. EntitledOps(retained, authority) \in SUBSET OpPool
  BY DEF EntitledOps, FoldInv, TypeOK
<1>4. folder = FolderOf(EntitledOps(retained, authority))
  BY <1>2, <1>3, ReflectsDetermines
<1>5. Assemble(folder, authority) = Project(retained)
  BY <1>2, <1>4 DEF Project, ReadModel
<1> QED BY <1>1, <1>5

(* The read model before the first fold is the projection of no ops.       *)
LEMMA InitProjects ==
    ASSUME DistinctHlcs
    PROVE  Assemble(EmptyFolder, NoAuthority) = Project({})
<1>1. EntitledOps({}, Build({})) = {}
  BY DEF EntitledOps
<1>2. {} \in SUBSET OpPool
  OBVIOUS
<1>3. EmptyFolder = FolderOf({})
  BY <1>2, EmptyIsFolder, EmptyReflects, ReflectsDetermines
<1> QED BY <1>1, <1>3 DEF Project, ReadModel, NoAuthority

-----------------------------------------------------------------------------
(* Theorems *)

(* A materializer only ever holds issued ops, visits ops it retains, and   *)
(* shows a read model of ops it still holds (Materializer, fold).          *)
THEOREM TypeCorrect == Spec => []TypeOK
<1>1. FoldInv => TypeOK
  BY DEF FoldInv
<1> QED BY <1>1, FoldInvariant, PTL

(* At every point of every fold, in every order and with any repetition,   *)
(* the registers hold the last writes and the sets all contributions of    *)
(* the entitled ops visited (lww and Folder::apply).                       *)
THEOREM RegistersCorrect == Spec => []RegistersHoldLastWrites
<1>1. FoldInv => RegistersHoldLastWrites
  BY DEF FoldInv, Reflects, RegistersHoldLastWrites
<1> QED BY <1>1, FoldInvariant, PTL

(* Every step of the fold is a step of the ledger, or none: a fold that    *)
(* finishes is one read, taken from the ops retained ("a pure function of  *)
(* the op set", lib.rs), provided the clock keeps its promise.             *)
THEOREM Implements == ASSUME DistinctHlcs PROVE Spec => ImplementsLedger
<1>1. Init => L!Init
  BY InitProjects DEF Init, L!Init
<1>2. FoldInv /\ [Next]_vars => [L!Next]_<<retained, view>>
  <2> SUFFICES ASSUME FoldInv, [Next]_vars
               PROVE  L!Next \/ UNCHANGED <<retained, view>>
    OBVIOUS
  <2>1. ASSUME NEW op \in OpPool, Apply(op) PROVE L!Next
    BY <2>1 DEF Apply, L!Next, L!Deliver
  <2>2. CASE StartFold
    BY <2>2 DEF StartFold
  <2>3. ASSUME NEW op \in retained, FoldOp(op) PROVE UNCHANGED <<retained, view>>
    BY <2>3 DEF FoldOp, FoldPass, Visit, FoldCreateGroup, FoldSetGroupName,
                FoldSetGroupCurrency, FoldSetClosedPeriod, FoldCreateExpense,
                FoldEditExpense, FoldPublishExpense, FoldVoidExpense, FoldSetExpenseLock,
                FoldRecordSettlement, FoldVoidSettlement, FoldUpsertProfile,
                FoldSetAgreementKey
  <2>4. CASE FinishFold
    <3>1. retained' = retained /\ view' = [of |-> retained, model |-> Project(retained)]
      BY <2>4, FinishProjects DEF FinishFold
    <3> QED BY <3>1 DEF L!Next, L!Refresh
  <2>5. CASE UNCHANGED vars
    BY <2>5 DEF vars
  <2> QED BY <2>1, <2>2, <2>3, <2>4, <2>5 DEF Next
<1> QED BY <1>1, <1>2, FoldInvariant, PTL DEF Spec, ImplementsLedger, L!Spec

(* Convergence: two replicas that hold the same ops show the same read     *)
(* model, for every pool of ops with distinct clock readings (project is   *)
(* "Order-independent and idempotent").                                    *)
THEOREM ViewConverges == ASSUME DistinctHlcs PROVE Spec => []ViewIsFunctionOfOpSet
<1>1. Init => ViewIsFunctionOfOpSet
  BY InitProjects DEF Init, ViewIsFunctionOfOpSet
<1>2. FoldInv /\ ViewIsFunctionOfOpSet /\ [Next]_vars => ViewIsFunctionOfOpSet'
  <2> SUFFICES ASSUME FoldInv, ViewIsFunctionOfOpSet, [Next]_vars
               PROVE  ViewIsFunctionOfOpSet'
    OBVIOUS
  <2>1. CASE FinishFold
    BY <2>1, FinishProjects DEF ViewIsFunctionOfOpSet
  <2>2. CASE ~FinishFold
    <3>1. view' = view
      BY <2>2 DEF Next, vars, Apply, StartFold, FoldOp, FoldPass, Visit, FoldCreateGroup,
                  FoldSetGroupName, FoldSetGroupCurrency, FoldSetClosedPeriod,
                  FoldCreateExpense, FoldEditExpense, FoldPublishExpense, FoldVoidExpense,
                  FoldSetExpenseLock, FoldRecordSettlement, FoldVoidSettlement,
                  FoldUpsertProfile, FoldSetAgreementKey
    <3> QED BY <3>1 DEF ViewIsFunctionOfOpSet
  <2> QED BY <2>1, <2>2
<1> QED BY <1>1, <1>2, FoldInvariant, PTL DEF Spec
=============================================================================
