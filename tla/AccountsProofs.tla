--------------------------- MODULE AccountsProofs ---------------------------
(***************************************************************************)
(* The properties of Rules and Accounts, proved for every pool of ops.     *)
(* Both are about a ledger that is Project of some op-set, so the          *)
(* invariant is short (LedgerInv) and the proofs are about the operators:  *)
(* the rights that ops have, and sums over the users and the books of a    *)
(* read model.                                                             *)
(***************************************************************************)
EXTENDS Accounts, LedgerTheorems

-----------------------------------------------------------------------------
(* The ledger: a read model is the projection of finitely many ops.        *)

(* An op as the assumptions on the pool have it.                           *)
Sound(op) ==
    /\ op.hlc \in Nat /\ op.id \in Int
    /\ op.kind = "AddAlias" => {op.alias, op.canonical} \subseteq {"id", "user"} \X Nat
    /\ op.kind \in {"CreateExpense", "EditExpense"} =>
           InBalance(op.fields) /\ FieldUsers(op.fields) \subseteq {"id", "user"} \X Nat
    /\ op.kind = "RecordSettlement" => op.amount \in Int
    /\ op.kind = "CreateGroup" => op.group # NoGroup

(* What a read model may be taken of.                                      *)
Arrived(S) == IsFiniteSet(S) /\ \A op \in S : Sound(op)

LedgerInv ==
    /\ Arrived(held)
    /\ view.of \subseteq held
    /\ view.model = Project(view.of)

PoolInv == LedgerInv /\ held \subseteq OpPool

(* The ops of the pool are sound,                                          *)
LEMMA PoolIsSound == \A op \in OpPool : Sound(op)
BY OpPoolAssumption, IdsAssumption, AmountsAssumption DEF Sound

(* ops are delivered one at a time, and a refresh reads all that is held.  *)
LEMMA PoolInvHolds == Spec => []PoolInv
<1>1. Init => PoolInv
  BY FS_EmptySet DEF Init, PoolInv, LedgerInv, Arrived
<1>2. PoolInv /\ [Next]_<<held, view>> => PoolInv'
  <2> SUFFICES ASSUME PoolInv, [Next]_<<held, view>> PROVE PoolInv'
    OBVIOUS
  <2>1. ASSUME NEW op \in OpPool, Deliver(op) PROVE PoolInv'
    <3>1. held' = held \cup {op} /\ view' = view
      BY <2>1 DEF Deliver
    <3>2. Arrived(held \cup {op})
      BY FS_AddElement, PoolIsSound DEF PoolInv, LedgerInv, Arrived
    <3> QED
      BY <3>1, <3>2 DEF PoolInv, LedgerInv
  <2>2. CASE Refresh
    BY <2>2 DEF Refresh, PoolInv, LedgerInv
  <2>3. CASE UNCHANGED <<held, view>>
    BY <2>3 DEF PoolInv, LedgerInv
  <2> QED
    BY <2>1, <2>2, <2>3 DEF Next
<1> QED
  BY <1>1, <1>2, PTL DEF Spec

LEMMA LedgerInvHolds == Spec => []LedgerInv
BY PoolInvHolds, PTL DEF PoolInv

(* With distinct readings, so are those of what is held.                   *)
LEMMA HeldApart == PoolInv /\ DistinctHlcs => Apart(held)
BY DEF PoolInv, DistinctHlcs, Apart

(* What arrived is an op-set,                                              *)
LEMMA ArrivedIsOpSet == ASSUME NEW S, Arrived(S) PROVE OpSet(S)
BY DEF Arrived, Sound, OpSet

(* and so are the parts of it.                                             *)
LEMMA ArrivedSubset == ASSUME NEW S, Arrived(S), NEW T, T \subseteq S PROVE Arrived(T)
BY FS_Subset DEF Arrived

(* Every read model is one of ops that arrived.                            *)
LEMMA ViewIsOfOpSet == LedgerInv => Arrived(view.of)
BY ArrivedSubset DEF LedgerInv

(* and a later one is of all that the one before it saw.                   *)
LEMMA ViewGrows == Spec => [][view.of \subseteq view'.of]_view
<1>1. LedgerInv /\ [Next]_<<held, view>> => [view.of \subseteq view'.of]_view
  BY DEF LedgerInv, Next, Deliver, Refresh
<1> QED
  BY <1>1, LedgerInvHolds, PTL DEF Spec

LEMMA LaterView ==
  ASSUME LedgerInv, LedgerInv', view.of \subseteq view'.of
  PROVE  /\ Arrived(view.of) /\ view.model = Project(view.of)
         /\ Arrived(view'.of) /\ view'.model = Project(view'.of)
BY ArrivedSubset DEF LedgerInv

-----------------------------------------------------------------------------
(* Rights and contexts.                                                    *)

LEMMA OwnersName == LedgerInv => OwnersNameThemselves
<1> SUFFICES ASSUME LedgerInv PROVE OwnersNameThemselves
  OBVIOUS
<1> DEFINE S == view.of
           O == EntitledOps(S, Build(S))
           W == ProfileWrites(O)
<1>1. Arrived(S) /\ O \subseteq S /\ Arrived(O)
  BY ViewIsOfOpSet, ArrivedSubset DEF EntitledOps
<1>2. view.model.users = UsersOf(FolderOf(O))
  BY ModelParts DEF LedgerInv, Fold
<1> SUFFICES ASSUME NEW u \in DOMAIN view.model.users, ~IsPlaceholder(Resolve(Build(S), u))
             PROVE  \E op \in OfKind(S, "UpsertProfile") :
                      /\ op.user = u /\ op.name = view.model.users[u].name
                      /\ Actor(Build(S), op) = Resolve(Build(S), u)
                      /\ ~RevokedAt(Build(S).devices, op)
  BY DEF OwnersNameThemselves
<1>3. /\ Readings(W) /\ u \in {w.key : w \in W}
      /\ view.model.users[u].name = LastWrite(W, u).value
  <2>1. DOMAIN view.model.users = DOMAIN LastWrites(W)
    BY <1>2, FolderParts DEF UsersOf
  <2>2. view.model.users[u].name = LastWrites(W)[u].value
    BY <1>2, <2>1, FolderParts DEF UsersOf
  <2>3. Readings(W)
    BY ArrivedIsOpSet, <1>1, WritesHaveReadings
  <2> HIDE DEF W
  <2> QED
    BY <2>1, <2>2, <2>3, RegisterValue
<1>4. LastWrite(W, u) \in W /\ LastWrite(W, u).key = u
  <2> HIDE DEF W
  <2> QED
    BY <1>3, LastWriteExists
<1>5. PICK op \in OfKind(O, "UpsertProfile") : LastWrite(W, u) = Write(op.user, op, op.name)
  BY <1>4 DEF ProfileWrites
<1>6. op.user = u /\ op.name = view.model.users[u].name
  BY <1>3, <1>4, <1>5 DEF Write
<1>7. op \in OfKind(S, "UpsertProfile") /\ Entitled(Build(S), op) /\ op.kind = "UpsertProfile"
  BY <1>5 DEF OfKind, EntitledOps
<1>8. MayName(Build(S), op) /\ ~RevokedAt(Build(S).devices, op)
  BY <1>7 DEF Entitled
<1> QED
  BY <1>6, <1>7, <1>8 DEF MayName

(* A real person's name is their own: of the profile writes that           *)
(* authorize.rs entitles and the fold applies, only a guest's is somebody  *)
(* else's.                                                                 *)
THEOREM NamesAreTheirOwn == Spec => []OwnersNameThemselves
BY OwnersName, LedgerInvHolds, PTL

LEMMA MembersAdmitted == LedgerInv => NoSelfAdmission
<1> SUFFICES ASSUME LedgerInv PROVE NoSelfAdmission
  OBVIOUS
<1> DEFINE S == view.of
           who == Who(S)
           founders == Founders(who, Live(S))
           Admits(op, e) == /\ op.group = e.group /\ op.member /\ Resolve(who, op.user) = e.user
                            /\ Actor(who, op) # e.user
           Good == {e \in Seeds(founders) \cup {Event(who, op) : op \in Changes(Live(S))} :
                       e.member => \/ e.user = founders[e.group]
                                   \/ \E op \in Changes(Live(S)) : Admits(op, e)}
<1>1. Arrived(S) /\ Arrived(Live(S)) /\ Live(S) \subseteq S
  BY ViewIsOfOpSet, ArrivedSubset DEF Live, Standing
<1>2. Seeds(founders) \subseteq Good
  BY DEF Seeds
<1>3. ASSUME NEW op \in Changes(Live(S)), NEW events \in SUBSET Good,
             IsMemberAsOf(events, op.group, Actor(who, op), OrderOf(op))
      PROVE  Event(who, op) \in Good
  <2> SUFFICES ASSUME op.member
               PROVE  \/ Resolve(who, op.user) = founders[op.group]
                      \/ \E other \in Changes(Live(S)) : Admits(other, Event(who, op))
    BY DEF Event
  <2>1. CASE Actor(who, op) # Resolve(who, op.user)
    BY <2>1 DEF Event
  <2>2. CASE Actor(who, op) = Resolve(who, op.user)
    <3>1. PICK e \in events : e.group = op.group /\ e.user = Actor(who, op) /\ e.member
      BY <1>3 DEF IsMemberAsOf
    <3>2. e \in Good
      BY <3>1
    <3> QED
      BY <2>2, <3>1, <3>2 DEF Event
  <2> QED
    BY <2>1, <2>2
<1>4. Membership(who, founders, Live(S)) \subseteq Good
  <2> HIDE DEF Good, founders, who
  <2> QED
    BY ArrivedIsOpSet, <1>1, <1>2, <1>3, ReplayInduction
<1>5. /\ Build(S).membership = Membership(who, founders, Live(S))
      /\ Build(S).founders = founders
      /\ Build(S).devices = CollectDevices(S)
      /\ Build(S).aliases = who.aliases
      /\ who.devices = CollectDevices(S)
  BY Stages
<1> SUFFICES ASSUME NEW g \in DOMAIN view.model.groups, NEW u \in view.model.groups[g].members
             PROVE  \/ u = Build(S).founders[g]
                    \/ \E op \in OfKind(S, "SetMembership") :
                          /\ op.group = g /\ op.member /\ Resolve(Build(S), op.user) = u
                          /\ ~RevokedAt(Build(S).devices, op)
                          /\ Actor(Build(S), op) # u
  BY DEF NoSelfAdmission
<1>6. u \in CurrentMembers(Build(S), g)
  BY ModelParts DEF LedgerInv
<1>7. PICK e \in Build(S).membership : e.group = g /\ e.user = u /\ e.member
  BY <1>6 DEF CurrentMembers
<1>8. e \in Good
  BY <1>4, <1>5, <1>7
<1>9. ASSUME u = founders[g] PROVE u = Build(S).founders[g]
  BY <1>5, <1>9
<1>10. ASSUME NEW op \in Changes(Live(S)), Admits(op, e)
       PROVE  /\ op \in OfKind(S, "SetMembership")
              /\ op.group = g /\ op.member /\ Resolve(Build(S), op.user) = u
              /\ ~RevokedAt(Build(S).devices, op)
              /\ Actor(Build(S), op) # u
  <2>1. Resolve(Build(S), op.user) = Resolve(who, op.user) /\ Actor(Build(S), op) = Actor(who, op)
    BY <1>5, ResolveSame, ActorSame
  <2>2. op \in OfKind(S, "SetMembership") /\ ~RevokedAt(Build(S).devices, op)
    BY <1>5 DEF Changes, OfKind, Live, Standing
  <2> QED
    BY <1>7, <1>10, <2>1, <2>2
<1> QED
  BY <1>7, <1>8, <1>9, <1>10

(* Nobody admits themselves to a group: a member is its founder or was     *)
(* admitted by a live op of somebody else (build_membership).              *)
THEOREM OthersAdmit == Spec => []NoSelfAdmission
BY MembersAdmitted, LedgerInvHolds, PTL

LEMMA BoundAsShown == ASSUME LedgerInv, Apart(held) PROVE ContextsAgree
<1>0. Apart(view.of)
  BY DEF LedgerInv, Apart
<1>1. Arrived(view.of) /\ view.model = Project(view.of)
  BY ViewIsOfOpSet DEF LedgerInv
<1>2. OpSet(view.of)
  BY <1>1, ArrivedIsOpSet
<1>3. ASSUME NEW e \in DOMAIN Project(view.of).expenses
      PROVE  /\ e \in DOMAIN Build(view.of).expenses
             /\ Build(view.of).expenses[e].group = Project(view.of).expenses[e].group
  <2>1. Apart({op \in OfKind(view.of, "CreateExpense") : op.expense = e})
    BY <1>0 DEF Apart, OfKind
  <2> QED
    BY <1>2, <2>1, ExpenseBound
<1>4. ASSUME NEW s \in DOMAIN Project(view.of).settlements
      PROVE  /\ s \in DOMAIN Build(view.of).settlements
             /\ Build(view.of).settlements[s].group = Project(view.of).settlements[s].group
  <2>1. Apart({op \in OfKind(view.of, "RecordSettlement") : op.settlement = s})
    BY <1>0 DEF Apart, OfKind
  <2> QED
    BY <1>2, <2>1, SettlementBound
<1> QED
  BY <1>1, <1>3, <1>4 DEF ContextsAgree

(* Expenses and settlements are shown in the context they are bound to:    *)
(* the binding of authorize.rs and the register of materialize.rs pick the *)
(* same create.                                                            *)
THEOREM BoundWhereShown == ASSUME DistinctHlcs PROVE Spec => []ContextsAgree
<1>1. PoolInv => ContextsAgree
  BY HeldApart, BoundAsShown DEF PoolInv
<1> QED
  BY <1>1, PoolInvHolds, PTL

-----------------------------------------------------------------------------
(* Balances add up to zero.                                                *)

Amounts(m) == IsFiniteSet(DOMAIN m) /\ \A u \in DOMAIN m : m[u] \in Int

(* What balances may be taken of.                                          *)
Books(q) ==
    /\ IsFiniteSet(DOMAIN q.expenses)
    /\ IsFiniteSet(DOMAIN q.settlements)
    /\ \A e \in DOMAIN q.expenses : InBalance(q.expenses[e].fields)
    /\ \A s \in DOMAIN q.settlements : q.settlements[s].amount \in Int

(* Payments and shares of fields in balance are amounts.                   *)
LEMMA AmountsOfFields ==
  ASSUME NEW fields, InBalance(fields)
  PROVE  Amounts(fields.paid_by) /\ Amounts(fields.splits)
BY FS_Subset DEF InBalance, Amounts, FieldUsers

(* A share is a number.                                                    *)
LEMMA ShareIsInt ==
  ASSUME NEW q, NEW m, Amounts(m), NEW u
  PROVE  ShareOf(q, m, u) \in Int
<1>1. Summable(m, {v \in DOMAIN m : Resolve(q, v) = u})
  BY FS_Subset DEF Summable, Amounts
<1> QED
  BY <1>1, SumInt DEF ShareOf

(* Shares are divided among those their users resolve to.                  *)
LEMMA SharesAddUp ==
  ASSUME NEW q, NEW m, Amounts(m), NEW P, IsFiniteSet(P),
         \A v \in DOMAIN m : Resolve(q, v) \in P,
         NEW h, \A u \in P : h[u] = ShareOf(q, m, u)
  PROVE  SumFunctionOnSet(h, P) = SumFunction(m)
<1> DEFINE r == [v \in DOMAIN m |-> Resolve(q, v)]
<1>1. Summable(m, DOMAIN m)
  BY DEF Summable, Amounts
<1>2. \A v \in DOMAIN m : r[v] \in P
  OBVIOUS
<1>3. \A u \in P : h[u] = SumFunctionOnSet(m, Class(r, DOMAIN m, u))
  <2> SUFFICES ASSUME NEW u \in P
               PROVE  {v \in DOMAIN m : Resolve(q, v) = u} = Class(r, DOMAIN m, u)
    BY DEF ShareOf
  <2> QED
    BY DEF Class
<1> HIDE DEF r
<1>4. SumFunctionOnSet(h, P) = SumFunctionOnSet(m, DOMAIN m)
  BY <1>1, <1>2, <1>3, SumByParts
<1> QED
  BY <1>4 DEF SumFunction

(* The deltas of an expense add up to zero.                                *)
LEMMA ExpenseMovesNothing ==
  ASSUME NEW q, NEW e, InBalance(q.expenses[e].fields), NEW P, IsFiniteSet(P),
         \A v \in FieldUsers(q.expenses[e].fields) : Resolve(q, v) \in P,
         NEW h, \A u \in P : h[u] = ExpenseDelta(q, e, u)
  PROVE  SumFunctionOnSet(h, P) = 0
<1> DEFINE paid == q.expenses[e].fields.paid_by
           splits == q.expenses[e].fields.splits
           f == [u \in P |-> ShareOf(q, paid, u)]
           g == [u \in P |-> ShareOf(q, splits, u)]
<1>1. Amounts(paid) /\ Amounts(splits) /\ SumFunction(paid) = SumFunction(splits)
  BY AmountsOfFields DEF InBalance
<1>2. /\ \A v \in DOMAIN paid : Resolve(q, v) \in P
      /\ \A v \in DOMAIN splits : Resolve(q, v) \in P
  BY DEF FieldUsers
<1>3. \A u \in P : /\ ShareOf(q, paid, u) \in Int /\ ShareOf(q, splits, u) \in Int
                   /\ h[u] = ShareOf(q, paid, u) - ShareOf(q, splits, u)
  BY <1>1, ShareIsInt DEF ExpenseDelta
<1> HIDE DEF paid, splits
<1>4. \A u \in P : f[u] = ShareOf(q, paid, u) /\ g[u] = ShareOf(q, splits, u)
  OBVIOUS
<1> HIDE DEF f, g
<1>5. SumFunctionOnSet(f, P) = SumFunction(paid)
  BY <1>1, <1>2, <1>4, SharesAddUp
<1>6. SumFunctionOnSet(g, P) = SumFunction(splits)
  BY <1>1, <1>2, <1>4, SharesAddUp
<1>7. Summable(f, P) /\ Summable(g, P) /\ Summable(h, P) /\ \A u \in P : f[u] = h[u] + g[u]
  BY <1>3, <1>4 DEF Summable
<1>8. SumFunctionOnSet(f, P) = SumFunctionOnSet(h, P) + SumFunctionOnSet(g, P)
  BY <1>7, SumAdd
<1>9. SumFunctionOnSet(h, P) \in Int /\ SumFunctionOnSet(g, P) \in Int
  BY <1>7, SumInt
<1> QED
  BY <1>1, <1>5, <1>6, <1>8, <1>9

(* The deltas of a settlement add up to zero.                              *)
LEMMA SettlementMovesNothing ==
  ASSUME NEW q, NEW s, q.settlements[s].amount \in Int, NEW P, IsFiniteSet(P),
         Resolve(q, q.settlements[s].from) \in P, Resolve(q, q.settlements[s].to) \in P,
         NEW h, \A u \in P : h[u] = SettlementDelta(q, s, u)
  PROVE  SumFunctionOnSet(h, P) = 0
<1> DEFINE a == q.settlements[s].amount
           from == Resolve(q, q.settlements[s].from)
           to == Resolve(q, q.settlements[s].to)
           f == [u \in P |-> IF u = from THEN a ELSE 0]
           g == [u \in P |-> IF u = to THEN a ELSE 0]
<1>1. \A u \in P : h[u] = (IF from = u THEN a ELSE 0) - (IF to = u THEN a ELSE 0)
  BY DEF SettlementDelta
<1>2. a \in Int /\ from \in P /\ to \in P
  OBVIOUS
<1> HIDE DEF a, from, to
<1>3. /\ \A u \in P : f[u] = IF u = from THEN a ELSE 0
      /\ \A u \in P : g[u] = IF u = to THEN a ELSE 0
  OBVIOUS
<1> HIDE DEF f, g
<1>4. SumFunctionOnSet(f, P) = a /\ SumFunctionOnSet(g, P) = a
  BY <1>2, <1>3, SumSingle
<1>5. Summable(f, P) /\ Summable(g, P) /\ Summable(h, P) /\ \A u \in P : f[u] = h[u] + g[u]
  BY <1>1, <1>2, <1>3 DEF Summable
<1>6. SumFunctionOnSet(f, P) = SumFunctionOnSet(h, P) + SumFunctionOnSet(g, P)
  BY <1>5, SumAdd
<1>7. SumFunctionOnSet(h, P) \in Int
  BY <1>5, SumInt
<1> QED
  BY <1>2, <1>4, <1>6, <1>7

(* The users the books name, in the expenses and in the settlements.       *)
Sharing(q) == UNION {FieldUsers(q.expenses[e].fields) : e \in Counted(q)}
Settling(q) == UNION {{q.settlements[s].from, q.settlements[s].to} : s \in DOMAIN q.settlements}

(* The people of a ledger are those its books name.                        *)
LEMMA PeopleAreNamed ==
  ASSUME NEW q
  PROVE  People(q) = {Resolve(q, u) : u \in Sharing(q) \cup Settling(q)}
BY DEF People, Sharing, Settling

(* The users of an expense are among them,                                 *)
LEMMA SharingAreNamed ==
  ASSUME NEW q, NEW e \in Counted(q), NEW u \in FieldUsers(q.expenses[e].fields)
  PROVE  Resolve(q, u) \in People(q)
<1>1. u \in Sharing(q)
  BY DEF Sharing
<1> QED
  BY <1>1, PeopleAreNamed

(* and so are the ends of a settlement.                                    *)
LEMMA SettlingAreNamed ==
  ASSUME NEW q, NEW s \in DOMAIN q.settlements
  PROVE  /\ Resolve(q, q.settlements[s].from) \in People(q)
         /\ Resolve(q, q.settlements[s].to) \in People(q)
<1>1. q.settlements[s].from \in Settling(q) /\ q.settlements[s].to \in Settling(q)
  BY DEF Settling
<1> QED
  BY <1>1, PeopleAreNamed

(* Finitely many share,                                                    *)
LEMMA SharingFinite ==
  ASSUME NEW q, Books(q)
  PROVE  IsFiniteSet(Sharing(q))
<1> DEFINE N == {FieldUsers(q.expenses[e].fields) : e \in Counted(q)}
           f == [e \in DOMAIN q.expenses |-> FieldUsers(q.expenses[e].fields)]
<1>1. IsFiniteSet(Counted(q)) /\ Counted(q) \subseteq DOMAIN q.expenses
  BY FS_Subset DEF Books, Counted
<1>2. N = {f[e] : e \in Counted(q)}
  BY <1>1
<1>3. \A U \in N : IsFiniteSet(U)
  BY <1>1 DEF Books, InBalance
<1> HIDE DEF N, f
<1>4. IsFiniteSet(N)
  BY <1>1, <1>2, FiniteImage
<1>5. IsFiniteSet(UNION N)
  BY <1>3, <1>4, FS_UNION
<1> QED
  BY <1>5 DEF N, Sharing

(* finitely many settle,                                                   *)
LEMMA SettlingFinite ==
  ASSUME NEW q, Books(q)
  PROVE  IsFiniteSet(Settling(q))
<1> DEFINE N == {{q.settlements[s].from, q.settlements[s].to} : s \in DOMAIN q.settlements}
           f == [s \in DOMAIN q.settlements |-> {q.settlements[s].from, q.settlements[s].to}]
<1>1. N = {f[s] : s \in DOMAIN q.settlements}
  OBVIOUS
<1>2. \A U \in N : IsFiniteSet(U)
  <2> SUFFICES ASSUME NEW a, NEW b PROVE IsFiniteSet({a, b})
    OBVIOUS
  <2>1. IsFiniteSet({a} \cup {b})
    BY FS_Singleton, FS_Union
  <2>2. {a} \cup {b} = {a, b}
    OBVIOUS
  <2> QED
    BY <2>1, <2>2
<1> HIDE DEF N, f
<1>3. IsFiniteSet(N)
  BY <1>1, FiniteImage DEF Books
<1>4. IsFiniteSet(UNION N)
  BY <1>2, <1>3, FS_UNION
<1> QED
  BY <1>4 DEF N, Settling

(* so the people are finitely many.                                        *)
LEMMA PeopleFinite ==
  ASSUME NEW q, Books(q)
  PROVE  IsFiniteSet(People(q))
<1> DEFINE N == Sharing(q) \cup Settling(q)
           f == [u \in N |-> Resolve(q, u)]
<1>1. IsFiniteSet(N)
  BY SharingFinite, SettlingFinite, FS_Union
<1>2. People(q) = {f[u] : u \in N}
  BY PeopleAreNamed
<1> HIDE DEF N, f
<1> QED
  BY <1>1, <1>2, FiniteImage

Delta(q, u) ==
    SumOver(Counted(q), LAMBDA e : ExpenseDelta(q, e, u))
      + SumOver(DOMAIN q.settlements, LAMBDA s : SettlementDelta(q, s, u))

(* A balance is a sum over expenses and one over settlements.              *)
LEMMA DeltaParts ==
  ASSUME NEW q, NEW u
  PROVE  Delta(q, u) =
            SumFunctionOnSet([e \in Counted(q) |-> ExpenseDelta(q, e, u)], Counted(q))
            + SumFunctionOnSet([s \in DOMAIN q.settlements |-> SettlementDelta(q, s, u)],
                               DOMAIN q.settlements)
BY DEF Delta, SumOver, SumFunction

(* All these terms are numbers, and finitely many.                         *)
LEMMA DeltasAreInts ==
  ASSUME NEW q, Books(q), NEW u
  PROVE  /\ \A e \in Counted(q) : ExpenseDelta(q, e, u) \in Int
         /\ \A s \in DOMAIN q.settlements : SettlementDelta(q, s, u) \in Int
         /\ IsFiniteSet(Counted(q))
         /\ IsFiniteSet(DOMAIN q.settlements)
<1>1. ASSUME NEW e \in Counted(q) PROVE ExpenseDelta(q, e, u) \in Int
  <2> DEFINE paid == q.expenses[e].fields.paid_by
             splits == q.expenses[e].fields.splits
  <2>1. Amounts(paid) /\ Amounts(splits)
    BY AmountsOfFields DEF Books, Counted
  <2>2. ShareOf(q, paid, u) \in Int /\ ShareOf(q, splits, u) \in Int
    <3> HIDE DEF paid, splits
    <3> QED
      BY <2>1, ShareIsInt
  <2> QED
    BY <2>2 DEF ExpenseDelta
<1>2. ASSUME NEW s \in DOMAIN q.settlements PROVE SettlementDelta(q, s, u) \in Int
  BY DEF SettlementDelta, Books
<1>3. IsFiniteSet(Counted(q)) /\ IsFiniteSet(DOMAIN q.settlements)
  BY FS_Subset DEF Books, Counted
<1> QED
  BY <1>1, <1>2, <1>3

(* Everybody's deltas add up to zero: exchange the sums over people and    *)
(* over books.                                                             *)
LEMMA DeltasAddUp ==
  ASSUME NEW q, Books(q), NEW P, P = People(q), NEW d, \A u \in P : d[u] = Delta(q, u)
  PROVE  /\ Summable(d, P)
         /\ SumFunctionOnSet(d, P) = 0
<1> DEFINE E == Counted(q)
           T == DOMAIN q.settlements
           F == [ue \in P \X E |-> ExpenseDelta(q, ue[2], ue[1])]
           G == [us \in P \X T |-> SettlementDelta(q, us[2], us[1])]
           f == [u \in P |-> SumFunctionOnSet([e \in E |-> ExpenseDelta(q, e, u)], E)]
           g == [u \in P |-> SumFunctionOnSet([s \in T |-> SettlementDelta(q, s, u)], T)]
<1>1. IsFiniteSet(P) /\ IsFiniteSet(E) /\ IsFiniteSet(T)
  BY PeopleFinite, DeltasAreInts
<1>2. \A u \in P, e \in E : F[<<u, e>>] = ExpenseDelta(q, e, u) /\ F[<<u, e>>] \in Int
  BY DeltasAreInts
<1>3. \A u \in P, s \in T : G[<<u, s>>] = SettlementDelta(q, s, u) /\ G[<<u, s>>] \in Int
  BY DeltasAreInts
<1>4. \A u \in P : f[u] = SumFunctionOnSet(Row(F, u, E), E)
  <2> SUFFICES ASSUME NEW u \in P
               PROVE  [e \in E |-> ExpenseDelta(q, e, u)] = Row(F, u, E)
    OBVIOUS
  <2> HIDE DEF F
  <2> QED
    BY <1>2 DEF Row
<1>5. \A u \in P : g[u] = SumFunctionOnSet(Row(G, u, T), T)
  <2> SUFFICES ASSUME NEW u \in P
               PROVE  [s \in T |-> SettlementDelta(q, s, u)] = Row(G, u, T)
    OBVIOUS
  <2> HIDE DEF G
  <2> QED
    BY <1>3 DEF Row
<1>6. ASSUME NEW e \in E PROVE SumFunctionOnSet(Col(F, e, P), P) = 0
  <2> DEFINE h == Col(F, e, P)
  <2>1. InBalance(q.expenses[e].fields)
    BY DEF Books, Counted
  <2>2. \A v \in FieldUsers(q.expenses[e].fields) : Resolve(q, v) \in P
    BY SharingAreNamed
  <2>3. \A u \in P : h[u] = ExpenseDelta(q, e, u)
    BY <1>2 DEF Col
  <2> HIDE DEF h
  <2>4. SumFunctionOnSet(h, P) = 0
    BY <1>1, <2>1, <2>2, <2>3, ExpenseMovesNothing
  <2> QED
    BY <2>4 DEF h
<1>7. ASSUME NEW s \in T PROVE SumFunctionOnSet(Col(G, s, P), P) = 0
  <2> DEFINE h == Col(G, s, P)
  <2>1. q.settlements[s].amount \in Int
    BY DEF Books
  <2>2. Resolve(q, q.settlements[s].from) \in P /\ Resolve(q, q.settlements[s].to) \in P
    BY SettlingAreNamed
  <2>3. \A u \in P : h[u] = SettlementDelta(q, s, u)
    BY <1>3 DEF Col
  <2> HIDE DEF h
  <2>4. SumFunctionOnSet(h, P) = 0
    BY <1>1, <2>1, <2>2, <2>3, SettlementMovesNothing
  <2> QED
    BY <2>4 DEF h
<1>8. \A u \in P : d[u] = f[u] + g[u]
  BY DeltaParts
<1>9. Summable(f, P) /\ Summable(g, P)
  <2> SUFFICES ASSUME NEW u \in P PROVE f[u] \in Int /\ g[u] \in Int
    BY <1>1 DEF Summable
  <2>1. /\ Summable([e \in E |-> ExpenseDelta(q, e, u)], E)
        /\ Summable([s \in T |-> SettlementDelta(q, s, u)], T)
    BY <1>1, DeltasAreInts DEF Summable
  <2> QED
    BY <2>1, SumInt
<1>10. Table(F, P, E) /\ Table(G, P, T)
  <2> HIDE DEF F, G, E, T
  <2> QED
    BY <1>1, <1>2, <1>3 DEF Table
<1> HIDE DEF F, G, f, g, E, T
<1>13. SumFunctionOnSet(f, P) = 0
  BY <1>4, <1>6, <1>10, SumOfTable
<1>14. SumFunctionOnSet(g, P) = 0
  BY <1>5, <1>7, <1>10, SumOfTable
<1>11. Summable(d, P)
  BY <1>8, <1>9 DEF Summable
<1>12. SumFunctionOnSet(d, P) = SumFunctionOnSet(f, P) + SumFunctionOnSet(g, P)
  BY <1>8, <1>9, SumAdd
<1> QED
  BY <1>11, <1>12, <1>13, <1>14

(* The balances leave out zeros only, so they add up to zero as well.      *)
LEMMA NetAddsUp ==
  ASSUME NEW q, Books(q)
  PROVE  SumFunction(NetBalances(q)) = 0
<1> DEFINE P == People(q)
           d == [u \in P |-> Delta(q, u)]
           T == {u \in P : d[u] # 0}
           n == [u \in T |-> d[u]]
<1>1. NetBalances(q) = n
  BY DEF NetBalances, NonZero, Delta
<1>2. \A u \in P : d[u] = Delta(q, u)
  OBVIOUS
<1> HIDE DEF d
<1>3. Summable(d, P) /\ SumFunctionOnSet(d, P) = 0
  BY <1>2, DeltasAddUp
<1>4. T \subseteq P /\ (\A u \in P \ T : d[u] = 0) /\ \A u \in T : n[u] = d[u]
  OBVIOUS
<1>5. SumFunction(n) = SumFunctionOnSet(n, T)
  BY DEF SumFunction
<1> HIDE DEF T, n, P
<1>6. SumFunctionOnSet(d, T) = 0 /\ Summable(d, T)
  BY <1>3, <1>4, SumNonZero, SummableSubset
<1> QED
  BY <1>1, <1>4, <1>5, <1>6, SumSame

(* What is read of any op-set is in balance.                               *)
LEMMA RegistersFinite ==
  ASSUME NEW W, Readings(W)
  PROVE  IsFiniteSet(DOMAIN LastWrites(W))
<1> DEFINE f == [w \in W |-> w.key]
           K == {w.key : w \in W}
<1>1. K = {f[w] : w \in W}
  OBVIOUS
<1> HIDE DEF f, K
<1>2. IsFiniteSet(K)
  BY <1>1, FiniteImage DEF Readings
<1> QED
  BY <1>2, RegisterValue DEF K

(* A projection is in balance, since the amounts of its versions are.      *)
LEMMA ProjectionInBooks ==
  ASSUME NEW S, Arrived(S)
  PROVE  Books(Project(S))
<1> DEFINE O == EntitledOps(S, Build(S))
           V == VersionWrites(O)
           W == SettlementWrites(O)
           q == Project(S)
<1>1. Arrived(O)
  BY ArrivedSubset DEF EntitledOps
<1>2. Readings(V) /\ Readings(W)
  BY ArrivedIsOpSet, <1>1, WritesHaveReadings
<1>3. ASSUME NEW e \in DOMAIN q.expenses
      PROVE  e \in DOMAIN LastWrites(V) /\ InBalance(q.expenses[e].fields)
  <2>1. e \in DOMAIN LastWrites(V) /\ q.expenses[e].fields = LastWrites(V)[e].value
    BY ExpenseShown
  <2>2. LastWrite(V, e) \in V /\ LastWrites(V)[e].value = LastWrite(V, e).value
    <3> HIDE DEF V
    <3> QED
      BY <1>2, <2>1, LastWriteExists, RegisterValue
  <2>3. PICK op \in OfKind(O, "CreateExpense") \cup OfKind(O, "EditExpense") :
          LastWrite(V, e) = Write(op.expense, op, op.fields)
    BY <2>2 DEF VersionWrites
  <2>4. Sound(op) /\ op.kind \in {"CreateExpense", "EditExpense"}
    BY <1>1 DEF OfKind, Arrived
  <2>5. LastWrite(V, e).value = op.fields
    BY <2>3 DEF Write
  <2> QED
    BY <2>1, <2>2, <2>4, <2>5 DEF Sound
<1>4. ASSUME NEW s \in DOMAIN q.settlements
      PROVE  s \in DOMAIN LastWrites(W) /\ q.settlements[s].amount \in Int
  <2>1. s \in DOMAIN LastWrites(W) /\ q.settlements[s] = LastWrites(W)[s].value
    BY SettlementShown
  <2>2. LastWrite(W, s) \in W /\ LastWrites(W)[s].value = LastWrite(W, s).value
    <3> HIDE DEF W
    <3> QED
      BY <1>2, <2>1, LastWriteExists, RegisterValue
  <2>3. PICK op \in OfKind(O, "RecordSettlement") :
          LastWrite(W, s) = Write(op.settlement, op, SettlementData(op))
    BY <2>2 DEF SettlementWrites
  <2>4. Sound(op) /\ op.kind = "RecordSettlement"
    BY <1>1 DEF OfKind, Arrived
  <2>5. LastWrite(W, s).value.amount = op.amount
    BY <2>3 DEF Write, SettlementData
  <2> QED
    BY <2>1, <2>2, <2>4, <2>5 DEF Sound
<1>5. IsFiniteSet(DOMAIN LastWrites(V)) /\ IsFiniteSet(DOMAIN LastWrites(W))
  <2> HIDE DEF V, W
  <2> QED
    BY <1>2, RegistersFinite
<1>6. DOMAIN q.expenses \subseteq DOMAIN LastWrites(V)
  BY <1>3
<1>7. DOMAIN q.settlements \subseteq DOMAIN LastWrites(W)
  BY <1>4
<1>8. IsFiniteSet(DOMAIN q.expenses) /\ IsFiniteSet(DOMAIN q.settlements)
  <2> HIDE DEF V, W, q
  <2> QED
    BY <1>5, <1>6, <1>7, FS_Subset
<1> QED
  BY <1>3, <1>4, <1>8 DEF Books

(* A part of books in balance is in balance.                               *)
LEMMA GroupParts ==
  ASSUME NEW S, NEW g, NEW q, q = Project(S)
  PROVE  /\ ForGroup(q, g).expenses
               = [e \in {x \in DOMAIN q.expenses : q.expenses[x].group = g} |-> q.expenses[e]]
         /\ ForGroup(q, g).settlements
               = [s \in {x \in DOMAIN q.settlements : q.settlements[x].group = g} |-> q.settlements[s]]
         /\ ForGroup(q, g).aliases = q.aliases
<1> DEFINE Is(m) == \E a, b, c, d, e, f, h : m = [groups |-> a, expenses |-> b, settlements |-> c,
                         users |-> d, aliases |-> e, devices |-> f, friends |-> h]
<1>1. Is(q)
  BY DEF Project, ReadModel, Assemble
<1>2. PICK a, b, c, d, e, f, h : q = [groups |-> a, expenses |-> b, settlements |-> c,
                         users |-> d, aliases |-> e, devices |-> f, friends |-> h]
  BY <1>1
<1> QED
  BY <1>2 DEF ForGroup

(* So the books of a group are in balance.                                 *)
LEMMA GroupInBooks ==
  ASSUME NEW S, NEW g, NEW q, q = Project(S), Books(q)
  PROVE  Books(ForGroup(q, g))
<1> DEFINE r == ForGroup(q, g)
<1>1. /\ DOMAIN r.expenses \subseteq DOMAIN q.expenses
      /\ DOMAIN r.settlements \subseteq DOMAIN q.settlements
      /\ \A e \in DOMAIN r.expenses : r.expenses[e] = q.expenses[e]
      /\ \A s \in DOMAIN r.settlements : r.settlements[s] = q.settlements[s]
  <2>1. /\ r.expenses = [e \in {x \in DOMAIN q.expenses : q.expenses[x].group = g} |-> q.expenses[e]]
        /\ r.settlements
              = [s \in {x \in DOMAIN q.settlements : q.settlements[x].group = g} |-> q.settlements[s]]
    BY GroupParts
  <2> HIDE DEF r
  <2> QED
    BY <2>1
<1> HIDE DEF r
<1>2. IsFiniteSet(DOMAIN r.expenses) /\ IsFiniteSet(DOMAIN r.settlements)
  BY <1>1, FS_Subset DEF Books
<1>3. Books(r)
  BY <1>1, <1>2 DEF Books
<1> QED
  BY <1>3 DEF r

LEMMA NetsSumToZero == LedgerInv => ZeroSum
<1> SUFFICES ASSUME LedgerInv PROVE ZeroSum
  OBVIOUS
<1>1. Arrived(view.of) /\ view.model = Project(view.of)
  BY ViewIsOfOpSet DEF LedgerInv
<1>2. Books(view.model)
  BY <1>1, ProjectionInBooks
<1>3. \A g : Books(ForGroup(view.model, g))
  BY <1>1, <1>2, GroupInBooks
<1> QED
  BY <1>2, <1>3, NetAddsUp DEF ZeroSum, p

(* Money is neither made nor lost: net_balances adds up to zero, over any  *)
(* ledger and in every group of it.                                        *)
THEOREM MoneyIsKept == Spec => []ZeroSum
BY NetsSumToZero, LedgerInvHolds, PTL

(* Claims and merges leave the devices alone, and only add edges.          *)
LEMMA MergesAddEdges ==
  ASSUME NEW S, NEW T, S \subseteq T, \A op \in T \ S : op.kind = "AddAlias"
  PROVE  AliasEdges(S) \subseteq AliasEdges(T)
<1>1. SelfSigned(S, "AuthorizeDevice") = SelfSigned(T, "AuthorizeDevice")
  BY DEF SelfSigned, OfKind
<1>2. SelfSigned(S, "RevokeDevice") = SelfSigned(T, "RevokeDevice")
  BY DEF SelfSigned, OfKind
<1>3. CollectDevices(S) = CollectDevices(T)
  BY <1>1, <1>2, DevicesAre
<1>4. Live(S) \subseteq Live(T)
  BY <1>3 DEF Live, Standing
<1> QED
  BY <1>3, <1>4 DEF AliasEdges, OfKind

-----------------------------------------------------------------------------
(* A merge adds the balances of the merged up.  q and r are read models    *)
(* with the same books, of which r resolves further.                       *)

Further(q, r) ==
    /\ r.expenses = q.expenses
    /\ r.settlements = q.settlements
    /\ \A u : Resolve(r, Resolve(q, u)) = Resolve(r, u)

(* The people of q whom r takes for u.                                     *)
MergedInto(q, r, u) == {v \in People(q) : Resolve(r, v) = u}

(* A merged person's share is the sum of theirs.                           *)
LEMMA SharesMerge ==
  ASSUME NEW q, NEW r, Further(q, r), NEW P, P = People(q), IsFiniteSet(P), NEW u,
         NEW m, Amounts(m), \A v \in DOMAIN m : Resolve(q, v) \in P,
         NEW h, \A v \in MergedInto(q, r, u) : h[v] = ShareOf(q, m, v)
  PROVE  SumFunctionOnSet(h, MergedInto(q, r, u)) = ShareOf(r, m, u)
<1> DEFINE M == MergedInto(q, r, u)
           W == {w \in DOMAIN m : Resolve(r, w) = u}
           c == [w \in W |-> Resolve(q, w)]
<1>1. Summable(m, W) /\ IsFiniteSet(M)
  BY FS_Subset DEF Summable, Amounts, MergedInto
<1>2. \A w \in W : c[w] \in M
  BY DEF MergedInto, Further
<1>3. ASSUME NEW v \in M PROVE h[v] = SumFunctionOnSet(m, Class(c, W, v))
  <2>1. {w \in DOMAIN m : Resolve(q, w) = v} = Class(c, W, v)
    BY DEF MergedInto, Further, Class
  <2> QED
    BY <2>1 DEF ShareOf
<1>4. ShareOf(r, m, u) = SumFunctionOnSet(m, W)
  BY DEF ShareOf
<1> HIDE DEF M, W, c
<1>5. SumFunctionOnSet(h, M) = SumFunctionOnSet(m, W)
  BY <1>1, <1>2, <1>3, SumByParts
<1> QED
  BY <1>4, <1>5 DEF M

(* A merged person's delta in an expense is the sum of theirs,             *)
LEMMA ExpensesMerge ==
  ASSUME NEW q, NEW r, Further(q, r), NEW P, P = People(q), IsFiniteSet(P), NEW u,
         NEW e, InBalance(q.expenses[e].fields),
         \A v \in FieldUsers(q.expenses[e].fields) : Resolve(q, v) \in P,
         NEW h, \A v \in MergedInto(q, r, u) : h[v] = ExpenseDelta(q, e, v)
  PROVE  SumFunctionOnSet(h, MergedInto(q, r, u)) = ExpenseDelta(r, e, u)
<1> DEFINE M == MergedInto(q, r, u)
           paid == q.expenses[e].fields.paid_by
           splits == q.expenses[e].fields.splits
           f == [v \in M |-> ShareOf(q, paid, v)]
           g == [v \in M |-> ShareOf(q, splits, v)]
<1>1. Amounts(paid) /\ Amounts(splits) /\ IsFiniteSet(M)
  BY AmountsOfFields, FS_Subset DEF MergedInto
<1>2. /\ \A v \in DOMAIN paid : Resolve(q, v) \in P
      /\ \A v \in DOMAIN splits : Resolve(q, v) \in P
  BY DEF FieldUsers
<1>3. /\ \A v \in M : h[v] = ShareOf(q, paid, v) - ShareOf(q, splits, v)
      /\ ExpenseDelta(r, e, u) = ShareOf(r, paid, u) - ShareOf(r, splits, u)
  BY DEF ExpenseDelta, Further
<1> HIDE DEF paid, splits
<1>4. \A v \in M : /\ f[v] = ShareOf(q, paid, v) /\ g[v] = ShareOf(q, splits, v)
                   /\ f[v] \in Int /\ g[v] \in Int
  BY <1>1, ShareIsInt
<1> HIDE DEF f, g
<1>5. SumFunctionOnSet(f, M) = ShareOf(r, paid, u)
  BY <1>1, <1>2, <1>4, SharesMerge
<1>6. SumFunctionOnSet(g, M) = ShareOf(r, splits, u)
  BY <1>1, <1>2, <1>4, SharesMerge
<1> HIDE DEF M
<1>7. Summable(f, M) /\ Summable(g, M) /\ Summable(h, M) /\ \A v \in M : f[v] = h[v] + g[v]
  BY <1>1, <1>3, <1>4 DEF Summable
<1>8. SumFunctionOnSet(f, M) = SumFunctionOnSet(h, M) + SumFunctionOnSet(g, M)
  BY <1>7, SumAdd
<1>9. SumFunctionOnSet(h, M) \in Int /\ SumFunctionOnSet(g, M) \in Int
  BY <1>7, SumInt
<1>10. SumFunctionOnSet(h, M) = ExpenseDelta(r, e, u)
  BY <1>3, <1>5, <1>6, <1>8, <1>9
<1> QED
  BY <1>10 DEF M

(* An amount that goes to whoever n resolves to.                           *)
LEMMA EndsMerge ==
  ASSUME NEW q, NEW r, Further(q, r), NEW P, P = People(q), IsFiniteSet(P), NEW u,
         NEW n, Resolve(q, n) \in P, NEW a \in Int,
         NEW h, \A v \in MergedInto(q, r, u) : h[v] = IF Resolve(q, n) = v THEN a ELSE 0
  PROVE  SumFunctionOnSet(h, MergedInto(q, r, u)) = IF Resolve(r, n) = u THEN a ELSE 0
<1> DEFINE M == MergedInto(q, r, u)
<1>1. IsFiniteSet(M)
  BY FS_Subset DEF MergedInto
<1>2. Resolve(q, n) \in M <=> Resolve(r, n) = u
  BY DEF MergedInto, Further
<1> HIDE DEF M
<1>3. CASE Resolve(q, n) \in M
  <2>1. \A v \in M : h[v] = IF v = Resolve(q, n) THEN a ELSE 0
    BY DEF M
  <2>2. SumFunctionOnSet(h, M) = a
    BY <1>1, <1>3, <2>1, SumSingle
  <2> QED
    BY <1>2, <1>3, <2>2 DEF M
<1>4. CASE Resolve(q, n) \notin M
  <2>1. \A v \in M : h[v] = 0
    BY <1>4 DEF M
  <2>2. SumFunctionOnSet(h, M) = 0
    BY <1>1, <2>1, SumZero
  <2> QED
    BY <1>2, <1>4, <2>2 DEF M
<1> QED
  BY <1>3, <1>4

(* and so it is in a settlement.                                           *)
LEMMA SettlementsMerge ==
  ASSUME NEW q, NEW r, Further(q, r), NEW P, P = People(q), IsFiniteSet(P), NEW u,
         NEW s, q.settlements[s].amount \in Int,
         Resolve(q, q.settlements[s].from) \in P, Resolve(q, q.settlements[s].to) \in P,
         NEW h, \A v \in MergedInto(q, r, u) : h[v] = SettlementDelta(q, s, v)
  PROVE  SumFunctionOnSet(h, MergedInto(q, r, u)) = SettlementDelta(r, s, u)
<1> DEFINE M == MergedInto(q, r, u)
           a == q.settlements[s].amount
           from == q.settlements[s].from
           to == q.settlements[s].to
           f == [v \in M |-> IF Resolve(q, from) = v THEN a ELSE 0]
           g == [v \in M |-> IF Resolve(q, to) = v THEN a ELSE 0]
           x == IF Resolve(r, from) = u THEN a ELSE 0
           y == IF Resolve(r, to) = u THEN a ELSE 0
<1>1. \A v \in M : h[v] = (IF Resolve(q, from) = v THEN a ELSE 0) - (IF Resolve(q, to) = v THEN a ELSE 0)
  BY DEF SettlementDelta
<1>2. SettlementDelta(r, s, u) = x - y /\ IsFiniteSet(M)
  BY FS_Subset DEF SettlementDelta, Further, MergedInto
<1>3. a \in Int /\ Resolve(q, from) \in P /\ Resolve(q, to) \in P
  OBVIOUS
<1>4. /\ \A v \in M : f[v] = IF Resolve(q, from) = v THEN a ELSE 0
      /\ \A v \in M : g[v] = IF Resolve(q, to) = v THEN a ELSE 0
  OBVIOUS
<1> HIDE DEF a, from, to, f, g
<1>5. SumFunctionOnSet(f, M) = x
  BY <1>3, <1>4, EndsMerge
<1>6. SumFunctionOnSet(g, M) = y
  BY <1>3, <1>4, EndsMerge
<1> HIDE DEF M
<1>7. Summable(f, M) /\ Summable(g, M) /\ Summable(h, M) /\ \A v \in M : f[v] = h[v] + g[v]
  BY <1>1, <1>2, <1>3, <1>4 DEF Summable
<1>8. SumFunctionOnSet(f, M) = SumFunctionOnSet(h, M) + SumFunctionOnSet(g, M)
  BY <1>7, SumAdd
<1>9. SumFunctionOnSet(h, M) \in Int /\ SumFunctionOnSet(g, M) \in Int
  BY <1>7, SumInt
<1>10. SumFunctionOnSet(h, M) = SettlementDelta(r, s, u)
  <2> HIDE DEF x, y
  <2> QED
    BY <1>2, <1>5, <1>6, <1>8, <1>9
<1> QED
  BY <1>10 DEF M

(* The rows and the columns of a table have the same sum.                  *)
LEMMA SumOfEqualTable ==
  ASSUME NEW X, NEW Y, NEW F, Table(F, X, Y),
         NEW a, \A x \in X : a[x] = SumFunctionOnSet(Row(F, x, Y), Y),
         NEW b, \A y \in Y : SumFunctionOnSet(Col(F, y, X), X) = b[y]
  PROVE  SumFunctionOnSet(a, X) = SumFunctionOnSet(b, Y)
<1>1. \A y \in Y : b[y] = SumFunctionOnSet(Col(F, y, X), X)
  OBVIOUS
<1> QED
  BY <1>1, SumExchange

(* So a merged person's balance is the sum of theirs,                      *)
LEMMA DeltasMerge ==
  ASSUME NEW q, Books(q), NEW r, Further(q, r), NEW u, NEW M, M = MergedInto(q, r, u),
         NEW d, \A v \in People(q) : d[v] = Delta(q, v)
  PROVE  /\ SumFunctionOnSet(d, M) = Delta(r, u)
         /\ Summable(d, M)
<1> DEFINE P == People(q)
           E == Counted(q)
           T == DOMAIN q.settlements
           F == [ve \in M \X E |-> ExpenseDelta(q, ve[2], ve[1])]
           G == [vs \in M \X T |-> SettlementDelta(q, vs[2], vs[1])]
           f == [v \in M |-> SumFunctionOnSet([e \in E |-> ExpenseDelta(q, e, v)], E)]
           g == [v \in M |-> SumFunctionOnSet([s \in T |-> SettlementDelta(q, s, v)], T)]
           b == [e \in E |-> ExpenseDelta(r, e, u)]
           c == [s \in T |-> SettlementDelta(r, s, u)]
<1>1. IsFiniteSet(P) /\ IsFiniteSet(M) /\ M \subseteq P /\ IsFiniteSet(E) /\ IsFiniteSet(T)
  BY PeopleFinite, DeltasAreInts, FS_Subset DEF MergedInto
<1>2. \A v \in M, e \in E : F[<<v, e>>] = ExpenseDelta(q, e, v) /\ F[<<v, e>>] \in Int
  BY DeltasAreInts
<1>3. \A v \in M, s \in T : G[<<v, s>>] = SettlementDelta(q, s, v) /\ G[<<v, s>>] \in Int
  BY DeltasAreInts
<1>4. \A v \in M : f[v] = SumFunctionOnSet(Row(F, v, E), E)
  <2> SUFFICES ASSUME NEW v \in M
               PROVE  [e \in E |-> ExpenseDelta(q, e, v)] = Row(F, v, E)
    OBVIOUS
  <2> HIDE DEF F
  <2> QED
    BY <1>2 DEF Row
<1>5. \A v \in M : g[v] = SumFunctionOnSet(Row(G, v, T), T)
  <2> SUFFICES ASSUME NEW v \in M
               PROVE  [s \in T |-> SettlementDelta(q, s, v)] = Row(G, v, T)
    OBVIOUS
  <2> HIDE DEF G
  <2> QED
    BY <1>3 DEF Row
<1>6. ASSUME NEW e \in E PROVE SumFunctionOnSet(Col(F, e, M), M) = b[e]
  <2> DEFINE h == Col(F, e, M)
  <2>1. InBalance(q.expenses[e].fields)
    BY DEF Books, Counted
  <2>2. \A v \in FieldUsers(q.expenses[e].fields) : Resolve(q, v) \in P
    BY SharingAreNamed
  <2>3. \A v \in M : h[v] = ExpenseDelta(q, e, v)
    BY <1>2 DEF Col
  <2> HIDE DEF h
  <2>4. SumFunctionOnSet(h, M) = ExpenseDelta(r, e, u)
    BY <1>1, <2>1, <2>2, <2>3, ExpensesMerge
  <2> QED
    BY <2>4 DEF h
<1>7. ASSUME NEW s \in T PROVE SumFunctionOnSet(Col(G, s, M), M) = c[s]
  <2> DEFINE h == Col(G, s, M)
  <2>1. q.settlements[s].amount \in Int
    BY DEF Books
  <2>2. Resolve(q, q.settlements[s].from) \in P /\ Resolve(q, q.settlements[s].to) \in P
    BY SettlingAreNamed
  <2>3. \A v \in M : h[v] = SettlementDelta(q, s, v)
    BY <1>3 DEF Col
  <2> HIDE DEF h
  <2>4. SumFunctionOnSet(h, M) = SettlementDelta(r, s, u)
    BY <1>1, <2>1, <2>2, <2>3, SettlementsMerge
  <2> QED
    BY <2>4 DEF h
<1>8. \A v \in M : d[v] = f[v] + g[v]
  BY <1>1, DeltaParts
<1>9. Summable(f, M) /\ Summable(g, M)
  <2> SUFFICES ASSUME NEW v \in M PROVE f[v] \in Int /\ g[v] \in Int
    BY <1>1 DEF Summable
  <2>1. /\ Summable([e \in E |-> ExpenseDelta(q, e, v)], E)
        /\ Summable([s \in T |-> SettlementDelta(q, s, v)], T)
    BY <1>1, DeltasAreInts DEF Summable
  <2> QED
    BY <2>1, SumInt
<1>10. Table(F, M, E) /\ Table(G, M, T)
  <2> HIDE DEF F, G, E, T
  <2> QED
    BY <1>1, <1>2, <1>3 DEF Table
<1>11. Delta(r, u) = SumFunctionOnSet(b, E) + SumFunctionOnSet(c, T)
  <2>1. Counted(r) = E /\ DOMAIN r.settlements = T
    BY DEF Further, Counted
  <2> QED
    BY <2>1, DeltaParts
<1> HIDE DEF F, G, f, g, b, c, E, T
<1>12. SumFunctionOnSet(f, M) = SumFunctionOnSet(b, E)
  BY <1>4, <1>6, <1>10, SumOfEqualTable
<1>13. SumFunctionOnSet(g, M) = SumFunctionOnSet(c, T)
  BY <1>5, <1>7, <1>10, SumOfEqualTable
<1>14. Summable(d, M)
  BY <1>8, <1>9 DEF Summable
<1>15. SumFunctionOnSet(d, M) = SumFunctionOnSet(f, M) + SumFunctionOnSet(g, M)
  BY <1>8, <1>9, SumAdd
<1> QED
  BY <1>11, <1>12, <1>13, <1>14, <1>15

(* The balances are the deltas that are not zero,                          *)
LEMMA NetIs ==
  ASSUME NEW q
  PROVE  NetBalances(q) = [u \in {v \in People(q) : Delta(q, v) # 0} |-> Delta(q, u)]
BY DEF NetBalances, NonZero, Delta

(* and the merged balances are the balances of the merged.                 *)
LEMMA NetsMerge ==
  ASSUME NEW q, Books(q), NEW r, Further(q, r)
  PROVE  NetBalances(r) = Merged(NetBalances(q), r)
<1> DEFINE P == People(q)
           d == [v \in P |-> Delta(q, v)]
           T == {v \in P : Delta(q, v) # 0}
           net == [v \in T |-> Delta(q, v)]
<1>1. NetBalances(q) = net
  BY NetIs
<1>2. ASSUME NEW u PROVE ShareOf(r, net, u) = Delta(r, u)
  <2> DEFINE M == MergedInto(q, r, u)
             N == {v \in T : Resolve(r, v) = u}
  <2>1. SumFunctionOnSet(d, M) = Delta(r, u) /\ Summable(d, M)
    <3>1. \A v \in P : d[v] = Delta(q, v)
      OBVIOUS
    <3> HIDE DEF d
    <3> QED
      BY <3>1, DeltasMerge
  <2>2. N \subseteq M /\ (\A v \in M \ N : d[v] = 0) /\ \A v \in N : net[v] = d[v]
    BY DEF MergedInto
  <2>3. ShareOf(r, net, u) = SumFunctionOnSet(net, N)
    BY DEF ShareOf
  <2> HIDE DEF M, N, net, d
  <2>4. SumFunctionOnSet(d, N) = SumFunctionOnSet(d, M) /\ Summable(d, N)
    BY <2>1, <2>2, SumNonZero, SummableSubset
  <2>5. SumFunctionOnSet(net, N) = SumFunctionOnSet(d, N)
    BY <2>2, <2>4, SumSame
  <2> QED
    BY <2>1, <2>3, <2>4, <2>5
<1> DEFINE K == {Resolve(r, v) : v \in T}
<1>3. ASSUME NEW u, Delta(r, u) # 0 PROVE u \in K
  <2>1. SUFFICES ASSUME {v \in T : Resolve(r, v) = u} = {} PROVE FALSE
    OBVIOUS
  <2>2. ShareOf(r, net, u) = SumFunctionOnSet(net, {})
    BY <2>1 DEF ShareOf
  <2> QED
    BY <1>2, <1>3, <2>2, SumEmpty
<1>4. K \subseteq People(r)
  <2> SUFFICES ASSUME NEW v \in P PROVE Resolve(r, v) \in People(r)
    OBVIOUS
  <2>1. PICK w \in Sharing(q) \cup Settling(q) : v = Resolve(q, w)
    BY PeopleAreNamed
  <2>2. Sharing(r) = Sharing(q) /\ Settling(r) = Settling(q)
    BY DEF Sharing, Settling, Counted, Further
  <2>3. Resolve(r, v) = Resolve(r, w)
    BY <2>1 DEF Further
  <2> QED
    BY <2>1, <2>2, <2>3, PeopleAreNamed
<1>5. Merged(net, r) = [u \in {v \in K : Delta(r, v) # 0} |-> Delta(r, u)]
  <2>1. DOMAIN net = T
    OBVIOUS
  <2>2. [u \in K |-> ShareOf(r, net, u)] = [u \in K |-> Delta(r, u)]
    BY <1>2
  <2>3. Merged(net, r) = NonZero([u \in K |-> ShareOf(r, net, u)])
    BY <2>1 DEF Merged
  <2> HIDE DEF K, net
  <2> QED
    BY <2>2, <2>3 DEF NonZero
<1>6. {v \in K : Delta(r, v) # 0} = {v \in People(r) : Delta(r, v) # 0}
  <2> HIDE DEF K
  <2> QED
    BY <1>3, <1>4
<1> QED
  BY <1>1, <1>5, <1>6, NetIs

LEMMA NetsMoved ==
  ASSUME LedgerInv, LedgerInv', view.of \subseteq view'.of, OnlyMerges, SameLedger
  PROVE  NetBalances(view'.model) = Merged(NetBalances(view.model), view'.model)
<1> DEFINE S == view.of
           T == view'.of
<1>1. Arrived(S) /\ Arrived(T) /\ S \subseteq T /\ view.model = Project(S) /\ view'.model = Project(T)
  BY LaterView
<1>2. AliasEdges(S) \subseteq AliasEdges(T)
  BY <1>1, MergesAddEdges DEF OnlyMerges
<1>3. ASSUME NEW u
      PROVE  Resolve(Project(T), Resolve(Project(S), u)) = Resolve(Project(T), u)
  <2>1. \A v : /\ Resolve(Project(S), v) = Canon(AliasEdges(S), v)
              /\ Resolve(Project(T), v) = Canon(AliasEdges(T), v)
    BY AliasesAre, ResolveIsCanon
  <2> HIDE DEF S, T
  <2> QED
    BY ArrivedIsOpSet, <1>1, <1>2, <2>1, AliasEdgesOfUsers, CanonMerges
<1>4. Further(Project(S), Project(T))
  BY <1>1, <1>3 DEF Further, SameLedger
<1>5. Books(Project(S))
  BY <1>1, ProjectionInBooks
<1> QED
  BY <1>1, <1>4, <1>5, NetsMerge

(* When nothing but claims and merges arrives and the same ops count, the  *)
(* net_balances are the old ones with the merged people added up.          *)
THEOREM ClaimsMoveBalances == Spec => MergesAddUp
<1>1. LedgerInv /\ LedgerInv' /\ [view.of \subseteq view'.of]_view =>
          [OnlyMerges /\ SameLedger =>
             NetBalances(view'.model) = Merged(NetBalances(view.model), view'.model)]_view
  BY NetsMoved
<1> QED
  BY <1>1, LedgerInvHolds, ViewGrows, PTL DEF MergesAddUp

-----------------------------------------------------------------------------
(* Later removals preserve the past: R is what arrives after S was read.   *)

LaterOps(S, T) ==
    /\ S \subseteq T
    /\ \A op \in T \ S : /\ op.kind \in {"RevokeDevice", "SetMembership"}
                          /\ \A s \in S : s.hlc < op.hlc

(* With distinct readings, later removals are later in the order of ops.   *)
LEMMA RemovalsAreLater ==
  ASSUME NEW S, NEW T, Arrived(T), Apart(T), S \subseteq T,
         \A op \in T \ S : LaterRemoval(op, S)
  PROVE  LaterOps(S, T)
<1> SUFFICES ASSUME NEW op \in T \ S
             PROVE  /\ op.kind \in {"RevokeDevice", "SetMembership"}
                    /\ \A s \in S : s.hlc < op.hlc
  BY DEF LaterOps
<1>1. op.kind \in {"RevokeDevice", "SetMembership"}
  BY DEF LaterRemoval
<1>2. ASSUME NEW s \in S PROVE s.hlc < op.hlc
  <2>1. s.hlc \in Nat /\ op.hlc \in Nat /\ s.hlc # op.hlc
    BY ArrivedIsOpSet, OpsHaveOrder DEF Apart
  <2>2. s.hlc <= op.hlc
    BY <2>1 DEF LaterRemoval, AtOrBefore, OrderOf
  <2> QED
    BY <2>1, <2>2
<1> QED
  BY <1>1, <1>2

(* Nothing else arrived.                                                   *)
LEMMA LaterKinds ==
  ASSUME NEW S, NEW T, LaterOps(S, T), NEW kind, kind \notin {"RevokeDevice", "SetMembership"}
  PROVE  OfKind(T, kind) = OfKind(S, kind)
BY DEF LaterOps, OfKind

(* So a revocation that comes after an op leaves it alone,                 *)
LEMMA LaterDevices ==
  ASSUME NEW S, NEW T, Arrived(S), Arrived(T), LaterOps(S, T)
  PROVE  /\ \A key : IdentityOf(CollectDevices(T), key) = IdentityOf(CollectDevices(S), key)
         /\ \A op \in S : RevokedAt(CollectDevices(T), op) <=> RevokedAt(CollectDevices(S), op)
<1>1. SelfSigned(S, "AuthorizeDevice") = SelfSigned(T, "AuthorizeDevice")
  BY LaterKinds DEF SelfSigned
<1>2. CollectDevices(S).authorized = CollectDevices(T).authorized
  <2>1. ASSUME NEW X PROVE CollectDevices(X).authorized = AuthorizedBy(SelfSigned(X, "AuthorizeDevice"))
    BY DevicesAre DEF DevicesOf
  <2> QED
    BY <1>1, <2>1
<1>3. ASSUME NEW op \in S
      PROVE  RevokedAt(CollectDevices(T), op) <=> RevokedAt(CollectDevices(S), op)
  <2>1. op \in T /\ op.hlc \in Nat
    BY ArrivedIsOpSet, OpsHaveOrder DEF LaterOps
  <2>2. SelfSigned(S, "RevokeDevice") \subseteq SelfSigned(T, "RevokeDevice")
    BY DEF SelfSigned, OfKind, LaterOps
  <2>3. ASSUME NEW r \in SelfSigned(T, "RevokeDevice"), r.hlc <= op.hlc
        PROVE  r \in SelfSigned(S, "RevokeDevice")
    <3>1. r \in T /\ r.hlc \in Nat
      BY ArrivedIsOpSet, OpsHaveOrder DEF SelfSigned, OfKind
    <3>2. r \in S
      BY <2>1, <2>3, <3>1 DEF LaterOps
    <3> QED
      BY <3>2 DEF SelfSigned, OfKind
  <2> QED
    BY ArrivedIsOpSet, <2>1, <2>2, <2>3, RevokedIs
<1> QED
  BY <1>2, <1>3 DEF IdentityOf

(* and the ops of S stand as they stood.                                   *)
LEMMA LaterLive ==
  ASSUME NEW S, NEW T, Arrived(S), Arrived(T), LaterOps(S, T)
  PROVE  /\ Live(T) \cap S = Live(S)
         /\ \A kind : kind \notin {"RevokeDevice", "SetMembership"} =>
                OfKind(Live(T), kind) = OfKind(Live(S), kind)
<1>1. Live(T) \cap S = Live(S)
  BY LaterDevices DEF Live, Standing, LaterOps
<1> QED
  BY <1>1 DEF OfKind, LaterOps, Live, Standing

(* Everybody is who they were.                                             *)
LEMMA LaterPeople ==
  ASSUME NEW S, NEW T, Arrived(S), Arrived(T), LaterOps(S, T)
  PROVE  /\ Who(T).aliases = Who(S).aliases
         /\ \A u : Resolve(Who(T), u) = Resolve(Who(S), u)
         /\ \A op : RawActor(CollectDevices(T), op) = RawActor(CollectDevices(S), op)
         /\ \A op : Actor(Who(T), op) = Actor(Who(S), op)
<1>1. ASSUME NEW op PROVE RawActor(CollectDevices(T), op) = RawActor(CollectDevices(S), op)
  BY LaterDevices DEF RawActor
<1>2. OfKind(Live(T), "AddAlias") = OfKind(Live(S), "AddAlias")
  BY LaterLive
<1>3. AliasEdges(T) = AliasEdges(S)
  BY <1>1, <1>2 DEF AliasEdges
<1>4. ASSUME NEW X PROVE Who(X).aliases = ResolveAliases(AliasEdges(X)) /\ Who(X).devices = CollectDevices(X)
  BY DEF Who, Identities, AliasEdges, Live
<1>5. Who(T).aliases = Who(S).aliases
  BY <1>3, <1>4
<1>6. ASSUME NEW u PROVE Resolve(Who(T), u) = Resolve(Who(S), u)
  BY <1>5 DEF Resolve
<1> QED
  BY <1>1, <1>4, <1>5, <1>6 DEF Actor

(* Founders and friends depend on ops that are the same.                   *)
LEMMA LaterRoles ==
  ASSUME NEW S, NEW T, Arrived(S), Arrived(T), LaterOps(S, T)
  PROVE  /\ Founders(Who(T), Live(T)) = Founders(Who(S), Live(S))
         /\ FriendDecls(Who(T), Live(T)) = FriendDecls(Who(S), Live(S))
<1>1. /\ OfKind(Live(T), "CreateGroup") = OfKind(Live(S), "CreateGroup")
      /\ OfKind(Live(T), "DeclareFriend") = OfKind(Live(S), "DeclareFriend")
  BY LaterLive
<1>2. /\ \A op : Actor(Who(T), op) = Actor(Who(S), op)
      /\ \A u : Resolve(Who(T), u) = Resolve(Who(S), u)
  BY LaterPeople
<1>3. Founders(Who(T), Live(T)) = Founders(Who(S), Live(S))
  BY <1>1, <1>2 DEF Founders
<1> QED
  BY <1>1, <1>2, <1>3 DEF FriendDecls

(* The replay meets the later changes last, and their events lie after     *)
(* everything in S.                                                        *)
LEMMA LaterReplay ==
  ASSUME NEW S, NEW T, Arrived(S), Arrived(T), LaterOps(S, T)
  PROVE  LET mS == Membership(Who(S), Founders(Who(S), Live(S)), Live(S))
             mT == Membership(Who(T), Founders(Who(T), Live(T)), Live(T))
         IN  /\ mS \subseteq mT
             /\ \A e \in mT \ mS : \E op \in T \ S : e.at = OrderOf(op)
<1> DEFINE F == Founders(Who(S), Live(S))
           MS == Changes(Live(S))
           MT == Changes(Live(T))
           X == MT \ MS
           Late == {Event(Who(S), op) : op \in X}
<1>1. Founders(Who(T), Live(T)) = F
  BY LaterRoles
<1>2. MS \subseteq MT /\ X \subseteq T \ S /\ MS \subseteq S
  BY LaterLive DEF Changes, OfKind, Live, Standing, LaterOps
<1>3. Arrived(Live(S)) /\ Arrived(Live(T)) /\ Arrived(MT) /\ Arrived(MS) /\ IsFiniteSet(X) /\ IsFiniteSet(MS)
  <2>1. Arrived(Live(S)) /\ Arrived(Live(T)) /\ Arrived(MT)
    BY ArrivedSubset DEF Live, Standing, Changes, OfKind
  <2> QED
    BY <1>2, <2>1, ArrivedSubset DEF Arrived
<1>4. PICK gS : IsReplay(gS, Who(S), F, MS) /\ Membership(Who(S), F, Live(S)) = gS[MS]
  BY ArrivedIsOpSet, <1>3, MembershipIsReplay
<1>5. PICK gT : IsReplay(gT, Who(T), F, MT) /\ Membership(Who(T), F, Live(T)) = gT[MT]
  BY ArrivedIsOpSet, <1>3, MembershipIsReplay
<1>6. ASSUME NEW op, NEW events PROVE Replayed(Who(T), op, events) = Replayed(Who(S), op, events)
  BY LaterPeople DEF Replayed, Event
<1>7. gT[MS] = gS[MS]
  <2> DEFINE Q == {A \in SUBSET MS : gT[A] = gS[A]}
  <2>1. {} \in Q
    BY <1>4, <1>5 DEF IsReplay
  <2>2. ASSUME NEW A \in SUBSET MS, \A x \in A : A \ {x} \in Q PROVE A \in Q
    <3>1. CASE A = {}
      BY <2>1, <3>1
    <3>2. CASE A # {}
      <4>1. Latest(A) \in A
        BY ArrivedIsOpSet, <1>3, <3>2, LatestIsLatest, ArrivedSubset
      <4>2. gS[A] = Replayed(Who(S), Latest(A), gS[A \ {Latest(A)}])
        BY <1>4, <3>2 DEF IsReplay
      <4>3. gT[A] = Replayed(Who(T), Latest(A), gT[A \ {Latest(A)}])
        BY <1>2, <1>5, <3>2 DEF IsReplay
      <4>4. gT[A \ {Latest(A)}] = gS[A \ {Latest(A)}]
        BY <2>2, <4>1
      <4> QED
        BY <1>6, <4>2, <4>3, <4>4
    <3> QED
      BY <3>1, <3>2
  <2> HIDE DEF Q
  <2>3. MS \in Q
    <3> HIDE DEF MS
    <3> QED
      BY <1>3, <2>1, <2>2, FiniteInduction
  <2> QED
    BY <2>3 DEF Q
<1>8. gS[MS] \subseteq gT[MT] /\ gT[MT] \subseteq gS[MS] \cup Late
  <2> DEFINE Q == {A \in SUBSET X : /\ gS[MS] \subseteq gT[MS \cup A]
                                   /\ gT[MS \cup A] \subseteq gS[MS] \cup Late}
  <2>1. {} \in Q
    <3>1. MS \cup {} = MS
      OBVIOUS
    <3> HIDE DEF MS, Late
    <3> QED
      BY <1>7, <3>1
  <2>2. ASSUME NEW A \in SUBSET X, \A x \in A : A \ {x} \in Q PROVE A \in Q
    <3>1. CASE A = {}
      BY <2>1, <3>1
    <3>2. CASE A # {}
      <4> DEFINE B == MS \cup A
                 m == Latest(B)
      <4>1. B \subseteq MT /\ B # {} /\ A \subseteq B
        BY <1>2, <3>2
      <4>2. m \in B /\ \A a \in A : AtOrBefore(OrderOf(a), OrderOf(m))
        <5> HIDE DEF MS, MT, X
        <5> QED
          BY ArrivedIsOpSet, <1>3, <4>1, LatestIsLatest, ArrivedSubset
      <4>3. m \in A
        <5> SUFFICES ASSUME m \in MS PROVE FALSE
          BY <4>2
        <5>1. PICK a \in A : a \in T \ S
          BY <1>2, <3>2
        <5>2. m.hlc < a.hlc
          BY <1>2, <5>1 DEF LaterOps
        <5>3. a.hlc \in Nat /\ m.hlc \in Nat
          BY ArrivedIsOpSet, <1>2, <5>1, OpsHaveOrder
        <5> QED
          BY <4>2, <5>2, <5>3 DEF AtOrBefore, OrderOf
      <4>4. B \ {m} = MS \cup (A \ {m})
        BY <4>3
      <4>5. gT[B] = Replayed(Who(S), m, gT[B \ {m}])
        <5> HIDE DEF B
        <5> QED
          BY <1>5, <1>6, <4>1 DEF IsReplay
      <4>6. /\ gS[MS] \subseteq gT[B \ {m}]
            /\ gT[B \ {m}] \subseteq gS[MS] \cup Late
        <5>1. A \ {m} \in Q
          BY <2>2, <4>3
        <5> HIDE DEF MS, Late, X, m, B
        <5> QED
          BY <4>4, <5>1
      <4>7. Event(Who(S), m) \in Late
        BY <4>3
      <4> HIDE DEF Late, m, X, MS
      <4> QED
        BY <4>5, <4>6, <4>7 DEF Replayed
    <3> QED
      BY <3>1, <3>2
  <2> HIDE DEF Q
  <2>3. X \in Q
    <3> HIDE DEF X
    <3> QED
      BY <1>3, <2>1, <2>2, FiniteInduction
  <2>4. MS \cup X = MT
    BY <1>2
  <2> HIDE DEF MS, MT, X, Late
  <2> QED
    BY <2>3, <2>4 DEF Q
<1>9. \A e \in Late : \E op \in T \ S : e.at = OrderOf(op)
  BY <1>2 DEF Event
<1> HIDE DEF Late, X, MS, MT, F
<1> QED
  BY <1>1, <1>4, <1>5, <1>8, <1>9 DEF F

(* As of the ops of S, everybody is a member of what they were.            *)
LEMMA LaterMembers ==
  ASSUME NEW S, NEW T, Arrived(S), Arrived(T), LaterOps(S, T), NEW op \in S, NEW g, NEW u
  PROVE  IsMemberAsOf(Rights(T).membership, g, u, OrderOf(op))
            <=> IsMemberAsOf(Rights(S).membership, g, u, OrderOf(op))
<1> DEFINE mS == Rights(S).membership
           mT == Rights(T).membership
           Past(m) == {e \in m : e.group = g /\ e.user = u /\ AtOrBefore(e.at, OrderOf(op))}
<1>1. /\ mS \subseteq mT
      /\ \A e \in mT \ mS : \E late \in T \ S : e.at = OrderOf(late)
  <2>1. /\ mS = Membership(Who(S), Founders(Who(S), Live(S)), Live(S))
        /\ mT = Membership(Who(T), Founders(Who(T), Live(T)), Live(T))
    BY Stages
  <2> HIDE DEF mS, mT
  <2> QED
    BY <2>1, LaterReplay
<1>2. ASSUME NEW e \in mT \ mS PROVE ~AtOrBefore(e.at, OrderOf(op))
  <2>1. PICK late \in T \ S : e.at = OrderOf(late)
    BY <1>1
  <2>2. op.hlc < late.hlc /\ op.hlc \in Nat /\ late.hlc \in Nat
    BY ArrivedIsOpSet, OpsHaveOrder DEF LaterOps
  <2> QED
    BY <2>1, <2>2 DEF AtOrBefore, OrderOf
<1>3. Past(mT) = Past(mS)
  BY <1>1, <1>2
<1>4. \A m : IsMemberAsOf(m, g, u, OrderOf(op))
               <=> \E e \in Past(m) : e.member /\ \A f \in Past(m) : AtOrBefore(f.at, e.at)
  BY DEF IsMemberAsOf
<1> HIDE DEF Past
<1> QED
  BY <1>3, <1>4

(* What the rights of T decide of the ops of S is what those of S decide.  *)
LEMMA LaterRights ==
  ASSUME NEW S, NEW T, Arrived(S), Arrived(T), LaterOps(S, T)
  PROVE  /\ \A u : Resolve(Rights(T), u) = Resolve(Rights(S), u)
         /\ \A op : Actor(Rights(T), op) = Actor(Rights(S), op)
         /\ \A op : RawActor(Rights(T).devices, op) = RawActor(Rights(S).devices, op)
         /\ Rights(T).friend_decls = Rights(S).friend_decls
<1>1. ASSUME NEW X
      PROVE  /\ Rights(X).aliases = Who(X).aliases
             /\ Rights(X).devices = Who(X).devices /\ Who(X).devices = CollectDevices(X)
             /\ Rights(X).friend_decls = FriendDecls(Who(X), Live(X))
  BY Stages
<1>2. ASSUME NEW op PROVE Actor(Rights(T), op) = Actor(Rights(S), op)
  <2>1. Actor(Rights(T), op) = Actor(Who(T), op) /\ Actor(Rights(S), op) = Actor(Who(S), op)
    BY <1>1, ActorSame
  <2> QED
    BY <2>1, LaterPeople
<1>3. ASSUME NEW u PROVE Resolve(Rights(T), u) = Resolve(Rights(S), u)
  <2>1. Resolve(Rights(T), u) = Resolve(Who(T), u) /\ Resolve(Rights(S), u) = Resolve(Who(S), u)
    BY <1>1, ResolveSame
  <2> QED
    BY <2>1, LaterPeople
<1>4. ASSUME NEW op PROVE RawActor(Rights(T).devices, op) = RawActor(Rights(S).devices, op)
  BY <1>1, LaterPeople
<1>5. Rights(T).friend_decls = Rights(S).friend_decls
  BY <1>1, LaterRoles
<1> QED
  BY <1>2, <1>3, <1>4, <1>5

(* Whose consent an op needs, and whether they are friends.                *)
LEMMA LaterParties ==
  ASSUME NEW S, NEW T, Arrived(S), Arrived(T), LaterOps(S, T)
  PROVE  /\ \A users : PartiesOf(Rights(T), users) = PartiesOf(Rights(S), users)
         /\ \A actor, parties :
               FriendOpOk(Rights(T), actor, parties) <=> FriendOpOk(Rights(S), actor, parties)
<1>1. ASSUME NEW users PROVE PartiesOf(Rights(T), users) = PartiesOf(Rights(S), users)
  BY LaterRights DEF PartiesOf
<1>2. Rights(T).friend_decls = Rights(S).friend_decls
  BY LaterRights
<1>3. ASSUME NEW actor, NEW parties
      PROVE  FriendOpOk(Rights(T), actor, parties) <=> FriendOpOk(Rights(S), actor, parties)
  BY <1>2 DEF FriendOpOk, IsFriend
<1> QED
  BY <1>1, <1>3

(* The creates are the same,                                               *)
LEMMA LaterCreates ==
  ASSUME NEW S, NEW T, Arrived(S), Arrived(T), LaterOps(S, T),
         NEW kind \in {"CreateExpense", "RecordSettlement"}
  PROVE  Creates(T, kind) = Creates(S, kind)
<1>1. OfKind(Live(T), kind) = OfKind(Live(S), kind)
  BY LaterLive
<1>2. ASSUME NEW op \in S
      PROVE  MayCreate(Rights(T), op, Users(op)) <=> MayCreate(Rights(S), op, Users(op))
  <2>1. /\ Actor(Rights(T), op) = Actor(Rights(S), op)
        /\ PartiesOf(Rights(T), Users(op)) = PartiesOf(Rights(S), Users(op))
    BY LaterRights, LaterParties
  <2>2. FriendOpOk(Rights(T), Actor(Rights(S), op), PartiesOf(Rights(S), Users(op)))
           <=> FriendOpOk(Rights(S), Actor(Rights(S), op), PartiesOf(Rights(S), Users(op)))
    BY LaterParties
  <2>3. IsMemberAsOf(Rights(T).membership, op.group, Actor(Rights(S), op), OrderOf(op))
           <=> IsMemberAsOf(Rights(S).membership, op.group, Actor(Rights(S), op), OrderOf(op))
    BY LaterMembers
  <2> QED
    BY <2>1, <2>2, <2>3 DEF MayCreate
<1>3. OfKind(Live(S), kind) \subseteq S
  BY DEF OfKind, Live, Standing
<1> QED
  BY <1>1, <1>2, <1>3 DEF Creates

(* Every expense and settlement keeps the context it is bound to.          *)
BoundBy(q, C, E(_)) ==
    [e \in {E(op) : op \in C} |->
        [group   |-> BindingCreate({op \in C : E(op) = e}).group,
         parties |-> PartiesOf(q, Users(BindingCreate({op \in C : E(op) = e})))]]

(* so the bindings are the same.                                           *)
LEMMA LaterBindings ==
  ASSUME NEW S, NEW T, Arrived(S), Arrived(T), LaterOps(S, T)
  PROVE  Build(T).expenses = Build(S).expenses /\ Build(T).settlements = Build(S).settlements
<1>1. ASSUME NEW X
      PROVE  /\ Build(X).expenses
                    = BoundBy(Rights(X), Creates(X, "CreateExpense"), LAMBDA op : op.expense)
             /\ Build(X).settlements
                    = BoundBy(Rights(X), Creates(X, "RecordSettlement"), LAMBDA op : op.settlement)
  BY Stages DEF Bindings, BoundBy, Creates
<1>2. \A users : PartiesOf(Rights(T), users) = PartiesOf(Rights(S), users)
  BY LaterParties
<1>3. /\ Creates(T, "CreateExpense") = Creates(S, "CreateExpense")
      /\ Creates(T, "RecordSettlement") = Creates(S, "RecordSettlement")
  BY LaterCreates
<1>4. \A C : BoundBy(Rights(T), C, LAMBDA op : op.expense)
               = BoundBy(Rights(S), C, LAMBDA op : op.expense)
  BY <1>2 DEF BoundBy
<1>5. \A C : BoundBy(Rights(T), C, LAMBDA op : op.settlement)
               = BoundBy(Rights(S), C, LAMBDA op : op.settlement)
  BY <1>2 DEF BoundBy
<1> QED
  BY <1>1, <1>3, <1>4, <1>5

(* Who may write to an expense or settlement is the same,                  *)
LEMMA LaterEntity ==
  ASSUME NEW S, NEW T, Arrived(S), Arrived(T), LaterOps(S, T), NEW op \in S, NEW bindings, NEW entity
  PROVE  EntityEntitled(Build(T), bindings, entity, op)
            <=> EntityEntitled(Build(S), bindings, entity, op)
<1>1. ASSUME NEW X
      PROVE  /\ Build(X).aliases = Rights(X).aliases /\ Build(X).devices = Rights(X).devices
             /\ Build(X).friend_decls = Rights(X).friend_decls
             /\ Build(X).membership = Rights(X).membership
  BY Stages
<1>2. Actor(Build(T), op) = Actor(Build(S), op)
  <2>1. Actor(Build(T), op) = Actor(Rights(T), op) /\ Actor(Build(S), op) = Actor(Rights(S), op)
    BY <1>1, ActorSame
  <2> QED
    BY <2>1, LaterRights
<1>3. Build(T).friend_decls = Build(S).friend_decls
  BY <1>1, LaterRights
<1>4. ASSUME NEW actor, NEW parties
      PROVE  FriendOpOk(Build(T), actor, parties) <=> FriendOpOk(Build(S), actor, parties)
  BY <1>3 DEF FriendOpOk, IsFriend
<1>5. ASSUME NEW g, NEW u
      PROVE  IsMemberAsOf(Build(T).membership, g, u, OrderOf(op))
                <=> IsMemberAsOf(Build(S).membership, g, u, OrderOf(op))
  BY <1>1, LaterMembers
<1> QED
  BY <1>2, <1>4, <1>5 DEF EntityEntitled

LedgerKinds == {"CreateExpense", "EditExpense", "PublishExpense", "VoidExpense",
                "SetExpenseLock", "RecordSettlement", "VoidSettlement"}

(* so the ops on the ledger count as they did.                             *)
LEMMA LaterEntitled ==
  ASSUME NEW S, NEW T, Arrived(S), Arrived(T), LaterOps(S, T), NEW op \in S, op.kind \in LedgerKinds
  PROVE  Entitled(Build(T), op) <=> Entitled(Build(S), op)
<1>1. RevokedAt(Build(T).devices, op) <=> RevokedAt(Build(S).devices, op)
  BY Stages, LaterDevices
<1>2. Build(T).expenses = Build(S).expenses /\ Build(T).settlements = Build(S).settlements
  BY LaterBindings
<1>3. ASSUME op.kind \in {"CreateExpense", "RecordSettlement"}
      PROVE  Entitled(Build(T), op) <=> Entitled(Build(S), op)
  <2>1. ASSUME NEW X, op \in X
        PROVE  Entitled(Build(X), op) <=> op \in Creates(X, op.kind)
    <3>1. OfKind(EntitledOps(X, Build(X)), op.kind) = Creates(X, op.kind)
      BY <1>3, CreatesAgree
    <3> QED
      BY <2>1, <3>1 DEF OfKind, EntitledOps
  <2>2. op \in T
    BY DEF LaterOps
  <2> QED
    BY <1>3, <2>1, <2>2, LaterCreates
<1>4. ASSUME op.kind \in {"EditExpense", "PublishExpense", "VoidExpense", "SetExpenseLock"}
      PROVE  Entitled(Build(T), op) <=> Entitled(Build(S), op)
  <2>1. ASSUME NEW a
        PROVE  Entitled(a, op) <=> /\ ~RevokedAt(a.devices, op)
                                   /\ EntityEntitled(a, a.expenses, op.expense, op)
    BY <1>4 DEF Entitled
  <2>2. EntityEntitled(Build(T), Build(S).expenses, op.expense, op)
           <=> EntityEntitled(Build(S), Build(S).expenses, op.expense, op)
    BY LaterEntity
  <2> QED
    BY <1>1, <1>2, <2>1, <2>2
<1>5. ASSUME op.kind = "VoidSettlement"
      PROVE  Entitled(Build(T), op) <=> Entitled(Build(S), op)
  <2>1. ASSUME NEW a
        PROVE  Entitled(a, op) <=> /\ ~RevokedAt(a.devices, op)
                                   /\ EntityEntitled(a, a.settlements, op.settlement, op)
    BY <1>5 DEF Entitled
  <2>2. EntityEntitled(Build(T), Build(S).settlements, op.settlement, op)
           <=> EntityEntitled(Build(S), Build(S).settlements, op.settlement, op)
    BY LaterEntity
  <2> QED
    BY <1>1, <1>2, <2>1, <2>2
<1> QED
  BY <1>3, <1>4, <1>5 DEF LedgerKinds

(* The ops the ledger is folded from are the same, and so is the ledger.   *)
LEMMA LaterLedger ==
  ASSUME NEW S, NEW T, Arrived(S), Arrived(T), LaterOps(S, T)
  PROVE  /\ Project(T).expenses = Project(S).expenses
         /\ Project(T).settlements = Project(S).settlements
<1> DEFINE OS == EntitledOps(S, Build(S))
           OT == EntitledOps(T, Build(T))
<1>1. ASSUME NEW kind \in LedgerKinds PROVE OfKind(OT, kind) = OfKind(OS, kind)
  <2>1. OfKind(T, kind) = OfKind(S, kind)
    BY <1>1, LaterKinds DEF LedgerKinds
  <2>2. \A op \in OfKind(S, kind) : Entitled(Build(T), op) <=> Entitled(Build(S), op)
    BY LaterEntitled DEF OfKind
  <2> QED
    BY <2>1, <2>2 DEF OfKind, EntitledOps
<1> HIDE DEF OS, OT
<1>2. /\ GroupWrites(OT) = GroupWrites(OS) /\ SettlementWrites(OT) = SettlementWrites(OS)
      /\ LockWrites(OT) = LockWrites(OS) /\ VersionWrites(OT) = VersionWrites(OS)
      /\ Published(OT) = Published(OS) /\ Voided(OT) = Voided(OS)
      /\ VoidedSettlements(OT) = VoidedSettlements(OS)
  BY <1>1 DEF LedgerKinds, GroupWrites, SettlementWrites, LockWrites, VersionWrites,
     Published, Voided, VoidedSettlements
<1>3. ExpensesOf(FolderOf(OT)) = ExpensesOf(FolderOf(OS))
  BY <1>2, FolderParts DEF ExpensesOf
<1>4. SettlementsOf(FolderOf(OT)) = SettlementsOf(FolderOf(OS))
  BY <1>2, FolderParts DEF SettlementsOf
<1> QED
  BY <1>3, <1>4, ModelParts DEF Fold, OS, OT

LEMMA PastKept ==
  ASSUME LedgerInv, LedgerInv', Apart(held'), view.of \subseteq view'.of,
         \A op \in view'.of \ view.of : LaterRemoval(op, view.of)
  PROVE  /\ view'.model.expenses = view.model.expenses
         /\ view'.model.settlements = view.model.settlements
<1> DEFINE S == view.of
           T == view'.of
<1>1. Arrived(S) /\ Arrived(T) /\ S \subseteq T /\ view.model = Project(S) /\ view'.model = Project(T)
  BY LaterView
<1>2. LaterOps(S, T)
  <2>1. (\A op \in T \ S : LaterRemoval(op, S)) /\ Apart(T)
    BY DEF LedgerInv, Apart
  <2> HIDE DEF S, T
  <2> QED
    BY <1>1, <2>1, RemovalsAreLater
<1>3. /\ Project(T).expenses = Project(S).expenses
      /\ Project(T).settlements = Project(S).settlements
  BY <1>1, <1>2, LaterLedger
<1> QED
  BY <1>1, <1>3

(* Removals of members and revocations of devices that are later than all  *)
(* a read model saw leave its expenses and settlements as they were (the   *)
(* entitlement as of an op).                                               *)
THEOREM RemovalsComeAfter == ASSUME DistinctHlcs PROVE Spec => RemovalPreservesPast
<1>1. PoolInv /\ PoolInv' /\ [view.of \subseteq view'.of]_view =>
          [(\A op \in view'.of \ view.of : LaterRemoval(op, view.of)) =>
             /\ view'.model.expenses = view.model.expenses
             /\ view'.model.settlements = view.model.settlements]_view
  <2>1. PoolInv' => Apart(held')
    BY DEF PoolInv, DistinctHlcs, Apart
  <2> QED
    BY <2>1, PastKept DEF PoolInv
<1> QED
  BY <1>1, PoolInvHolds, ViewGrows, PTL DEF RemovalPreservesPast

-----------------------------------------------------------------------------
(* Two ways to the net of a group.                                         *)

(* Whom the books do not name has nothing.                                 *)
LEMMA NoDeltaElsewhere ==
  ASSUME NEW q, Books(q), NEW u, u \notin People(q)
  PROVE  Delta(q, u) = 0
<1>1. ASSUME NEW e \in Counted(q) PROVE ExpenseDelta(q, e, u) = 0
  <2> DEFINE paid == q.expenses[e].fields.paid_by
             splits == q.expenses[e].fields.splits
  <2>1. \A v \in DOMAIN paid \cup DOMAIN splits : Resolve(q, v) # u
    BY SharingAreNamed DEF FieldUsers
  <2>2. {v \in DOMAIN paid : Resolve(q, v) = u} = {} /\ {v \in DOMAIN splits : Resolve(q, v) = u} = {}
    BY <2>1
  <2>3. ShareOf(q, paid, u) = 0 /\ ShareOf(q, splits, u) = 0
    <3> HIDE DEF paid, splits
    <3> QED
      BY <2>2, SumEmpty DEF ShareOf
  <2> QED
    BY <2>3 DEF ExpenseDelta
<1>2. ASSUME NEW s \in DOMAIN q.settlements PROVE SettlementDelta(q, s, u) = 0
  BY SettlingAreNamed DEF SettlementDelta
<1> DEFINE f == [e \in Counted(q) |-> ExpenseDelta(q, e, u)]
           g == [s \in DOMAIN q.settlements |-> SettlementDelta(q, s, u)]
<1>3. (\A e \in Counted(q) : f[e] = 0) /\ \A s \in DOMAIN q.settlements : g[s] = 0
  BY <1>1, <1>2
<1>4. Delta(q, u) = SumFunctionOnSet(f, Counted(q)) + SumFunctionOnSet(g, DOMAIN q.settlements)
  BY DeltaParts
<1> HIDE DEF f, g
<1>5. SumFunctionOnSet(f, Counted(q)) = 0 /\ SumFunctionOnSet(g, DOMAIN q.settlements) = 0
  BY <1>3, DeltasAreInts, SumZero
<1> QED
  BY <1>4, <1>5

(* A balance looked up is a delta, also of one who has none.               *)
LEMMA NetOfIsDelta ==
  ASSUME NEW q, Books(q), NEW u
  PROVE  NetOf(NetBalances(q), u) = Delta(q, u)
<1>1. CASE u \in People(q)
  BY <1>1, NetIs DEF NetOf
<1>2. CASE u \notin People(q)
  BY <1>2, NetIs, NoDeltaElsewhere DEF NetOf
<1> QED
  BY <1>1, <1>2

(* The expenses and settlements of a group, and my part in them.           *)
ExpensesIn(q, g)    == {e \in DOMAIN q.expenses : q.expenses[e].group = g} \cap Counted(q)
SettlementsIn(q, g) == {s \in DOMAIN q.settlements : q.settlements[s].group = g}

MyDelta(q, g, u) ==
    SumOver(ExpensesIn(q, g), LAMBDA e : ExpenseDelta(q, e, u))
      + SumOver(SettlementsIn(q, g), LAMBDA s : MySettlement(q, s, u))

(* The per-group view adds up the ops of a group;                          *)
LEMMA NetByGroupIs ==
  ASSUME NEW q, Books(q), NEW g, g # NoGroup, NEW u, Resolve(q, u) = u
  PROVE  NetOf(MyNetByGroup(q, u), g) = MyDelta(q, g, u)
<1> DEFINE G == ({q.expenses[e].group : e \in Counted(q)}
                   \cup {q.settlements[s].group : s \in DOMAIN q.settlements}) \ {NoGroup}
<1>1. MyNetByGroup(q, u) = NonZero([h \in G |-> MyDelta(q, h, u)])
  BY DEF MyNetByGroup, MyDelta, ExpensesIn, SettlementsIn
<1>2. CASE g \in G
  <2> HIDE DEF G
  <2> QED
    BY <1>1, <1>2 DEF NetOf, NonZero
<1>3. CASE g \notin G
  <2>1. NetOf(MyNetByGroup(q, u), g) = 0
    <3> HIDE DEF G
    <3> QED
      BY <1>1, <1>3 DEF NetOf, NonZero
  <2>2. ExpensesIn(q, g) = {} /\ SettlementsIn(q, g) = {}
    BY <1>3 DEF ExpensesIn, SettlementsIn
  <2>3. MyDelta(q, g, u) = 0
    <3>1. MyDelta(q, g, u)
            = SumFunctionOnSet([e \in ExpensesIn(q, g) |-> ExpenseDelta(q, e, u)], ExpensesIn(q, g))
              + SumFunctionOnSet([s \in SettlementsIn(q, g) |-> MySettlement(q, s, u)],
                                 SettlementsIn(q, g))
      BY DEF MyDelta, SumOver, SumFunction
    <3> QED
      BY <2>2, <3>1, SumEmpty
  <2> QED
    BY <2>1, <2>3
<1> QED
  BY <1>2, <1>3

(* The part of a ledger that is one group's, and my part in it.            *)
LEMMA GroupDelta ==
  ASSUME NEW S, NEW q, q = Project(S), NEW g, NEW u,
         \A s \in SettlementsIn(q, g) :
            ~(Resolve(q, q.settlements[s].from) = u /\ Resolve(q, q.settlements[s].to) = u),
         Books(q)
  PROVE  Delta(ForGroup(q, g), u) = MyDelta(q, g, u)
<1> DEFINE r == ForGroup(q, g)
<1>1. /\ r.expenses = [e \in {x \in DOMAIN q.expenses : q.expenses[x].group = g} |-> q.expenses[e]]
      /\ r.settlements = [s \in SettlementsIn(q, g) |-> q.settlements[s]]
      /\ r.aliases = q.aliases
  BY GroupParts DEF SettlementsIn
<1> HIDE DEF r
<1>2. \A v : Resolve(r, v) = Resolve(q, v)
  BY <1>1, ResolveSame
<1>3. Counted(r) = ExpensesIn(q, g) /\ DOMAIN r.settlements = SettlementsIn(q, g)
  BY <1>1 DEF Counted, ExpensesIn
<1>4. \A m : ShareOf(r, m, u) = ShareOf(q, m, u)
  BY <1>2 DEF ShareOf
<1>5. ASSUME NEW e \in ExpensesIn(q, g) PROVE ExpenseDelta(r, e, u) = ExpenseDelta(q, e, u)
  <2>1. r.expenses[e] = q.expenses[e]
    BY <1>1 DEF ExpensesIn
  <2> QED
    BY <1>4, <2>1 DEF ExpenseDelta
<1>6. ASSUME NEW s \in SettlementsIn(q, g) PROVE SettlementDelta(r, s, u) = MySettlement(q, s, u)
  <2>1. r.settlements[s] = q.settlements[s] /\ q.settlements[s].amount \in Int
    BY <1>1 DEF SettlementsIn, Books
  <2> QED
    BY <1>2, <2>1 DEF SettlementDelta, MySettlement
<1>7. [e \in Counted(r) |-> ExpenseDelta(r, e, u)] = [e \in ExpensesIn(q, g) |-> ExpenseDelta(q, e, u)]
  BY <1>3, <1>5
<1>8. [s \in DOMAIN r.settlements |-> SettlementDelta(r, s, u)]
        = [s \in SettlementsIn(q, g) |-> MySettlement(q, s, u)]
  BY <1>3, <1>6
<1>9. MyDelta(q, g, u)
        = SumFunctionOnSet([e \in ExpensesIn(q, g) |-> ExpenseDelta(q, e, u)], ExpensesIn(q, g))
          + SumFunctionOnSet([s \in SettlementsIn(q, g) |-> MySettlement(q, s, u)], SettlementsIn(q, g))
  BY DEF MyDelta, SumOver, SumFunction
<1>10. Delta(r, u) = MyDelta(q, g, u)
  BY <1>3, <1>7, <1>8, <1>9, DeltaParts
<1> QED
  BY <1>10 DEF r

(* No group is the one without.                                            *)
LEMMA GroupsHaveIds ==
  ASSUME NEW S, Arrived(S), NEW g \in DOMAIN Project(S).groups
  PROVE  g # NoGroup
<1> DEFINE O == EntitledOps(S, Build(S))
<1>1. g \in Created(O)
  BY DEF Project, ReadModel, Assemble, FolderOf
<1>2. PICK op \in OfKind(O, "CreateGroup") : g = op.group
  BY <1>1 DEF Created
<1>3. Sound(op) /\ op.kind = "CreateGroup"
  BY <1>2 DEF OfKind, EntitledOps, Arrived
<1> QED
  BY <1>2, <1>3 DEF Sound

(* The two ways agree.                                                     *)
LEMMA GroupNetsAgree ==
  ASSUME NEW S, Arrived(S), NEW q, q = Project(S), NEW g \in DOMAIN q.groups,
         NEW u, Resolve(q, u) = u,
         \A s \in SettlementsIn(q, g) :
            ~(Resolve(q, q.settlements[s].from) = u /\ Resolve(q, q.settlements[s].to) = u)
  PROVE  NetOf(MyNetByGroup(q, u), g) = NetOf(NetBalances(ForGroup(q, g)), u)
<1>1. Books(q) /\ Books(ForGroup(q, g))
  BY ProjectionInBooks, GroupInBooks
<1>2. g # NoGroup
  BY GroupsHaveIds
<1> QED
  BY <1>1, <1>2, NetByGroupIs, GroupDelta, NetOfIsDelta

(* Whom a ledger names is nobody else.                                     *)
LEMMA PeopleAreResolved ==
  ASSUME NEW S, Arrived(S), NEW q, q = Project(S), NEW u \in People(q)
  PROVE  Resolve(q, u) = u
<1>1. PICK w : u = Resolve(q, w)
  BY PeopleAreNamed
<1> QED
  BY ArrivedIsOpSet, <1>1, ResolvedIsResolved

LEMMA GroupsAdd == LedgerInv => GroupsReconcile
<1> SUFFICES ASSUME LedgerInv PROVE GroupsReconcile
  OBVIOUS
<1> DEFINE S == view.of
           q == view.model
<1>1. Arrived(S) /\ q = Project(S)
  BY ViewIsOfOpSet DEF LedgerInv
<1> SUFFICES ASSUME NEW u \in People(q), NEW g \in Proper(u)
             PROVE  NetOf(MyNetByGroup(q, u), g) = NetOf(NetBalances(ForGroup(q, g)), u)
  BY DEF GroupsReconcile, p
<1>2. \A s \in SettlementsIn(q, g) :
        ~(Resolve(q, q.settlements[s].from) = u /\ Resolve(q, q.settlements[s].to) = u)
  BY DEF Proper, ToOneself, SettlementsIn, p
<1>3. g \in DOMAIN q.groups
  BY DEF Proper, p
<1> HIDE DEF q, S
<1> QED
  BY <1>1, <1>2, <1>3, PeopleAreResolved, GroupNetsAgree

(* Everybody's net in a group, as my_net_by_group lists it, is what the    *)
(* balances of the group's own screen show (net_balances of for_group).    *)
THEOREM ListIsScreen == Spec => []GroupsReconcile
BY GroupsAdd, LedgerInvHolds, PTL

-----------------------------------------------------------------------------
(* Who owes whom.  The debts of one expense are settled by simplify_debts. *)

Loop == INSTANCE EntryProofs
            WITH UserLeq <- SortsAtOrBefore, Balances <- {}, balances <- <<>>, st <- <<>>,
                 MaxAmount <- 0, RateScale <- 1, UserIds <- {}, Inputs <- {}, Members <- {},
                 input <- <<>>, phase <- "idle", total <- 0, sp <- <<>>, shares <- <<>>, first <- <<>>

(* SimplifyDebts of Debt is the one that EntryProofs is about,             *)
LEMMA LoopIsDebt == ASSUME NEW b PROVE Loop!SimplifyDebts(b) = D!SimplifyDebts(b)
BY DEF Loop!SimplifyDebts, D!SimplifyDebts, Loop!Start, D!Start, Loop!Running, D!Running,
       Loop!Step, D!Step, Loop!Pay, D!Pay, Loop!Reduce, D!Reduce, Loop!Transfer, D!Transfer,
       Loop!Debtors, D!Debtors, Loop!Creditors, D!Creditors, Loop!Sorted, D!Sorted, Loop!InOrder, D!InOrder,
       Loop!ByAmountDesc, D!ByAmountDesc, Loop!Cardinality, D!Cardinality,
       Loop!FoldLeft, D!FoldLeft, Loop!MapThenFoldSet, D!MapThenFoldSet, Loop!Max, D!Max

(* with the same sums                                                      *)
LEMMA LoopSums ==
  ASSUME NEW f, NEW S
  PROVE  Loop!SumFunctionOnSet(f, S) = SumFunctionOnSet(f, S)
BY DEF Loop!SumFunctionOnSet, SumFunctionOnSet, Loop!FoldFunctionOnSet, FoldFunctionOnSet,
       Loop!MapThenFoldSet, MapThenFoldSet

(* and the same finite sets.                                               *)
LEMMA LoopFinite == ASSUME NEW S PROVE Loop!IsFiniteSet(S) <=> IsFiniteSet(S)
BY DEF Loop!IsFiniteSet, IsFiniteSet

TransfersOf(users) == [from : users, to : users, amount : {n \in Int : n > 0}]

Moved(t, I) == SumFunctionOnSet([i \in DOMAIN t |-> t[i].amount], I)

(* The transfers that settle balances of user ids settle them.             *)
LEMMA DebtsSettle ==
  ASSUME NEW b, IsFiniteSet(DOMAIN b), DOMAIN b \subseteq {"id", "user"} \X Nat,
         \A u \in DOMAIN b : b[u] \in Int, SumFunction(b) = 0,
         NEW t, t = D!SimplifyDebts(b)
  PROVE  /\ t \in Seq(TransfersOf(DOMAIN b))
         /\ \A u \in DOMAIN b : b[u] + Moved(t, {i \in DOMAIN t : t[i].from = u})
                                  = Moved(t, {i \in DOMAIN t : t[i].to = u})
<1>1. Loop!Ordered(DOMAIN b)
  <2>1. \A u \in DOMAIN b : u[1] \in {"id", "user"} /\ u[2] \in Nat /\ u = <<u[1], u[2]>>
    OBVIOUS
  <2> QED
    BY <2>1 DEF Loop!Ordered, SortsAtOrBefore
<1>2. Loop!SumFunction(b) = 0
  BY LoopSums DEF Loop!SumFunction, SumFunction
<1>3. Loop!Balanced(b)
  BY <1>1, <1>2, LoopFinite DEF Loop!Balanced
<1>4. t = Loop!SimplifyDebts(b)
  BY LoopIsDebt
<1>5. /\ t \in Seq(Loop!Transfers(DOMAIN b))
      /\ \A u \in DOMAIN b : b[u] + Loop!PaidIn(t, u) = Loop!ReceivedIn(t, u)
  <2>1. Loop!Ordered({})
    BY DEF Loop!Ordered
  <2> QED
    BY <1>3, <1>4, <2>1, Loop!SimplifiedSettles
<1>6. \A u : /\ Loop!PaidIn(t, u) = Moved(t, {i \in DOMAIN t : t[i].from = u})
             /\ Loop!ReceivedIn(t, u) = Moved(t, {i \in DOMAIN t : t[i].to = u})
  BY LoopSums DEF Loop!PaidIn, Loop!ReceivedIn, Loop!AmountIn, Moved
<1>7. Loop!Transfers(DOMAIN b) = TransfersOf(DOMAIN b)
  BY DEF Loop!Transfers, TransfersOf
<1> QED
  BY <1>5, <1>6, <1>7

(* What an expense leaves its users, a balance of its own.                 *)
ExpenseNet(q, e) ==
    NonZero([u \in {Resolve(q, v) : v \in FieldUsers(q.expenses[e].fields)} |->
                ExpenseDelta(q, e, u)])

MovedBetween(t, from, to) ==
    SumOver({i \in DOMAIN t : t[i].from = from /\ t[i].to = to}, LAMBDA i : t[i].amount)

(* Who owes whom for an expense is read off its transfers.                 *)
LEMMA EdgeIs ==
  ASSUME NEW q, NEW e, NEW me, NEW other
  PROVE  ExpenseEdge(q, e, me, other)
            = MovedBetween(D!SimplifyDebts(ExpenseNet(q, e)), other, me)
              - MovedBetween(D!SimplifyDebts(ExpenseNet(q, e)), me, other)
BY DEF ExpenseEdge, ExpenseNet, MovedBetween

(* Who is named is a user id, and stays one when resolved.                 *)
Ids == {"id", "user"} \X Nat

Named(q) ==
    /\ \A e \in DOMAIN q.expenses : FieldUsers(q.expenses[e].fields) \subseteq Ids
    /\ \A u \in Ids : Resolve(q, u) \in Ids

(* They settle everybody's delta in that expense, among its users.         *)
LEMMA ExpenseNetSettles ==
  ASSUME NEW q, Books(q), Named(q), NEW e \in Counted(q),
         NEW t, t = D!SimplifyDebts(ExpenseNet(q, e))
  PROVE  /\ t \in Seq(TransfersOf(People(q)))
         /\ \A u : ExpenseDelta(q, e, u) + Moved(t, {i \in DOMAIN t : t[i].from = u})
                       = Moved(t, {i \in DOMAIN t : t[i].to = u})
         /\ \A i \in DOMAIN t :
               {t[i].from, t[i].to} \subseteq {Resolve(q, v) : v \in FieldUsers(q.expenses[e].fields)}
<1> DEFINE U == FieldUsers(q.expenses[e].fields)
           f == [v \in U |-> Resolve(q, v)]
           P == {Resolve(q, v) : v \in U}
           d == [u \in P |-> ExpenseDelta(q, e, u)]
           T == {u \in P : d[u] # 0}
           b == [u \in T |-> d[u]]
<1>1. InBalance(q.expenses[e].fields) /\ e \in DOMAIN q.expenses
  BY DEF Books, Counted
<1>2. IsFiniteSet(U) /\ U \subseteq Ids
  BY <1>1 DEF InBalance, Named
<1>3. P = {f[v] : v \in U}
  OBVIOUS
<1>4. IsFiniteSet(P)
  <2> HIDE DEF U, f, P
  <2> QED
    BY <1>2, <1>3, FiniteImage
<1>5. P \subseteq Ids
  BY <1>2 DEF Named
<1>6. P \subseteq People(q)
  BY SharingAreNamed
<1>7. \A v \in U : Resolve(q, v) \in P
  OBVIOUS
<1>8. \A u : ExpenseDelta(q, e, u) \in Int
  BY DeltasAreInts
<1>9. \A u \in P : d[u] = ExpenseDelta(q, e, u)
  OBVIOUS
<1>10. ExpenseNet(q, e) = b
  BY DEF ExpenseNet, NonZero
<1>11. ASSUME NEW u, u \notin P PROVE ExpenseDelta(q, e, u) = 0
  <2> DEFINE fields == q.expenses[e].fields
  <2>1. /\ {v \in DOMAIN fields.paid_by : Resolve(q, v) = u} = {}
        /\ {v \in DOMAIN fields.splits : Resolve(q, v) = u} = {}
    BY <1>11 DEF FieldUsers
  <2>2. ShareOf(q, fields.paid_by, u) = 0 /\ ShareOf(q, fields.splits, u) = 0
    BY <2>1, SumEmpty DEF ShareOf
  <2> QED
    BY <2>2 DEF ExpenseDelta
<1> HIDE DEF d, P
<1>12. SumFunctionOnSet(d, P) = 0
  BY <1>1, <1>4, <1>7, <1>9, ExpenseMovesNothing
<1>13. Summable(d, P)
  BY <1>4, <1>8, <1>9 DEF Summable
<1>14. T \subseteq P /\ (\A u \in P \ T : d[u] = 0) /\ \A u \in T : b[u] = d[u]
  OBVIOUS
<1>15. DOMAIN b = T /\ SumFunction(b) = SumFunctionOnSet(b, T)
  BY DEF SumFunction
<1>16. \A u : (u \in T => b[u] = ExpenseDelta(q, e, u)) /\ (u \notin T => ExpenseDelta(q, e, u) = 0)
  BY <1>9, <1>11, <1>14
<1> HIDE DEF T, b
<1>17. SumFunctionOnSet(d, T) = 0 /\ Summable(d, T)
  BY <1>12, <1>13, <1>14, SumNonZero, SummableSubset
<1>18. SumFunction(b) = 0
  BY <1>14, <1>15, <1>17, SumSame
<1>19. IsFiniteSet(DOMAIN b) /\ DOMAIN b \subseteq {"id", "user"} \X Nat
  BY <1>4, <1>5, <1>14, <1>15, FS_Subset DEF Ids
<1>20. \A u \in DOMAIN b : b[u] \in Int
  BY <1>8, <1>15, <1>16
<1>21. /\ t \in Seq(TransfersOf(DOMAIN b))
       /\ \A u \in DOMAIN b : b[u] + Moved(t, {i \in DOMAIN t : t[i].from = u})
                                = Moved(t, {i \in DOMAIN t : t[i].to = u})
  BY <1>10, <1>18, <1>19, <1>20, DebtsSettle
<1>22. \A i \in DOMAIN t : t[i] \in TransfersOf(T)
  BY <1>15, <1>21
<1>23. t \in Seq(TransfersOf(People(q)))
  <2>1. \A i \in DOMAIN t : t[i] \in TransfersOf(People(q))
    BY <1>6, <1>14, <1>22 DEF TransfersOf
  <2>2. t \in Seq(TransfersOf(T))
    BY <1>15, <1>21
  <2> DEFINE A == TransfersOf(T)
             B == TransfersOf(People(q))
  <2> HIDE DEF A, B
  <2>3. t \in Seq(A) /\ \A i \in DOMAIN t : t[i] \in B
    BY <2>1, <2>2 DEF A, B
  <2>4. t \in Seq(B)
    BY <2>3
  <2> QED
    BY <2>4 DEF B
<1>24. ASSUME NEW u
       PROVE  ExpenseDelta(q, e, u) + Moved(t, {i \in DOMAIN t : t[i].from = u})
                  = Moved(t, {i \in DOMAIN t : t[i].to = u})
  <2>1. CASE u \in T
    BY <1>15, <1>16, <1>21, <2>1
  <2>2. CASE u \notin T
    <3>1. \A i \in DOMAIN t : t[i].from \in T /\ t[i].to \in T
      BY <1>22 DEF TransfersOf
    <3>2. {i \in DOMAIN t : t[i].from = u} = {} /\ {i \in DOMAIN t : t[i].to = u} = {}
      BY <2>2, <3>1
    <3>3. Moved(t, {}) = 0
      BY SumEmpty DEF Moved
    <3> QED
      BY <1>16, <2>2, <3>2, <3>3
  <2> QED
    BY <2>1, <2>2
<1>25. \A i \in DOMAIN t : {t[i].from, t[i].to} \subseteq P
  BY <1>14, <1>22 DEF TransfersOf
<1> QED
  BY <1>23, <1>24, <1>25 DEF P

(* The amounts of transfers are numbers.                                   *)
LEMMA MovedSummable ==
  ASSUME NEW P, NEW t, t \in Seq(TransfersOf(P)), NEW I, I \subseteq DOMAIN t
  PROVE  Summable([i \in DOMAIN t |-> t[i].amount], I)
<1>1. DOMAIN t = 1..Len(t) /\ Len(t) \in Nat
  OBVIOUS
<1>2. IsFiniteSet(1..Len(t))
  BY <1>1, FS_Interval
<1>3. \A i \in DOMAIN t : t[i] \in TransfersOf(P)
  OBVIOUS
<1>4. \A i \in I : t[i].amount \in Int
  BY <1>3 DEF TransfersOf
<1> QED
  BY <1>1, <1>2, <1>4, FS_Subset DEF Summable

(* What moves between two is the amount of the transfers between them.     *)
LEMMA BetweenIsMoved ==
  ASSUME NEW t, NEW from, NEW to, NEW P, t \in Seq(TransfersOf(P))
  PROVE  MovedBetween(t, from, to) = Moved(t, {i \in DOMAIN t : t[i].from = from /\ t[i].to = to})
<1> DEFINE I == {i \in DOMAIN t : t[i].from = from /\ t[i].to = to}
           f == [i \in DOMAIN t |-> t[i].amount]
           g == [i \in I |-> t[i].amount]
<1>1. MovedBetween(t, from, to) = SumFunctionOnSet(g, I) /\ Moved(t, I) = SumFunctionOnSet(f, I)
  BY DEF MovedBetween, SumOver, SumFunction, Moved
<1>2. Summable(f, I)
  BY MovedSummable
<1>3. \A i \in I : g[i] = f[i]
  OBVIOUS
<1> HIDE DEF f, g, I
<1>4. SumFunctionOnSet(g, I) = SumFunctionOnSet(f, I)
  BY <1>2, <1>3, SumSame
<1> QED
  BY <1>1, <1>4 DEF I

(* What the others owe me for an expense is what it leaves me.             *)
LEMMA ExpenseEdgesAddUp ==
  ASSUME NEW q, Books(q), Named(q), NEW e \in Counted(q), NEW me \in People(q),
         NEW R, R = People(q) \ {me},
         NEW h, \A o \in R : h[o] = ExpenseEdge(q, e, me, o)
  PROVE  /\ SumFunctionOnSet(h, R) = ExpenseDelta(q, e, me)
         /\ \A o \in R : ExpenseEdge(q, e, me, o) \in Int
<1> DEFINE P == People(q)
           t == D!SimplifyDebts(ExpenseNet(q, e))
           f == [i \in DOMAIN t |-> t[i].amount]
           In == {i \in DOMAIN t : t[i].to = me}
           Out == {i \in DOMAIN t : t[i].from = me}
           r == [i \in In |-> t[i].from]
           w == [i \in Out |-> t[i].to]
           a == [o \in P |-> MovedBetween(t, o, me)]
           b == [o \in P |-> MovedBetween(t, me, o)]
           k == [o \in P |-> ExpenseEdge(q, e, me, o)]
<1>1. /\ t \in Seq(TransfersOf(P))
      /\ ExpenseDelta(q, e, me) + Moved(t, Out) = Moved(t, In)
  BY ExpenseNetSettles
<1>2. \A o : ExpenseEdge(q, e, me, o) = MovedBetween(t, o, me) - MovedBetween(t, me, o)
  BY EdgeIs
<1> HIDE DEF t
<1>3. IsFiniteSet(P)
  BY PeopleFinite
<1>4. \A i \in DOMAIN t : t[i].from \in P /\ t[i].to \in P
  <2>1. \A i \in DOMAIN t : t[i] \in TransfersOf(P)
    BY <1>1
  <2> QED
    BY <2>1 DEF TransfersOf
<1>5. Summable(f, In) /\ Summable(f, Out)
  BY <1>1, MovedSummable
<1>6. ASSUME NEW o PROVE /\ MovedBetween(t, o, me) = SumFunctionOnSet(f, Class(r, In, o))
                         /\ MovedBetween(t, me, o) = SumFunctionOnSet(f, Class(w, Out, o))
                         /\ MovedBetween(t, o, me) \in Int /\ MovedBetween(t, me, o) \in Int
  <2>1. /\ {i \in DOMAIN t : t[i].from = o /\ t[i].to = me} = Class(r, In, o)
        /\ {i \in DOMAIN t : t[i].from = me /\ t[i].to = o} = Class(w, Out, o)
    BY DEF Class
  <2>2. /\ Moved(t, Class(r, In, o)) = SumFunctionOnSet(f, Class(r, In, o))
        /\ Moved(t, Class(w, Out, o)) = SumFunctionOnSet(f, Class(w, Out, o))
    BY DEF Moved
  <2>3. Class(r, In, o) \subseteq In /\ Class(w, Out, o) \subseteq Out
    BY DEF Class
  <2>4. /\ MovedBetween(t, o, me) = Moved(t, {i \in DOMAIN t : t[i].from = o /\ t[i].to = me})
        /\ MovedBetween(t, me, o) = Moved(t, {i \in DOMAIN t : t[i].from = me /\ t[i].to = o})
    BY <1>1, BetweenIsMoved
  <2> HIDE DEF f, r, w, In, Out
  <2>5. Summable(f, Class(r, In, o)) /\ Summable(f, Class(w, Out, o))
    BY <1>5, <2>3, SummableSubset
  <2>6. SumFunctionOnSet(f, Class(r, In, o)) \in Int /\ SumFunctionOnSet(f, Class(w, Out, o)) \in Int
    BY <2>5, SumInt
  <2> QED
    BY <2>1, <2>2, <2>4, <2>6
<1>7. (\A i \in In : r[i] \in P) /\ (\A i \in Out : w[i] \in P)
  BY <1>4
<1>8. /\ \A o \in P : a[o] = SumFunctionOnSet(f, Class(r, In, o)) /\ a[o] \in Int
      /\ \A o \in P : b[o] = SumFunctionOnSet(f, Class(w, Out, o)) /\ b[o] \in Int
  BY <1>6
<1>9. Moved(t, In) = SumFunctionOnSet(f, In) /\ Moved(t, Out) = SumFunctionOnSet(f, Out)
  BY DEF Moved
<1>24. \A o : ExpenseEdge(q, e, me, o) \in Int
  <2> SUFFICES ASSUME NEW o PROVE ExpenseEdge(q, e, me, o) \in Int
    OBVIOUS
  <2>1. MovedBetween(t, o, me) \in Int /\ MovedBetween(t, me, o) \in Int
    BY <1>6
  <2> QED
    BY <1>2, <2>1
<1>10. \A o \in P : k[o] \in Int /\ a[o] = k[o] + b[o]
  <2> SUFFICES ASSUME NEW o \in P PROVE k[o] \in Int /\ a[o] = k[o] + b[o]
    OBVIOUS
  <2>1. a[o] \in Int /\ b[o] \in Int
    BY <1>8
  <2>2. k[o] = a[o] - b[o]
    BY <1>2
  <2> HIDE DEF a, b, k
  <2> QED
    BY <2>1, <2>2
<1>11. k[me] = 0
  <2>1. a[me] = b[me]
    OBVIOUS
  <2>2. a[me] = k[me] + b[me] /\ b[me] \in Int /\ k[me] \in Int
    BY <1>8, <1>10
  <2> HIDE DEF a, b, k
  <2> QED
    BY <2>1, <2>2
<1>12. \A o \in R : h[o] = k[o]
  OBVIOUS
<1>13. \A o \in R : ExpenseEdge(q, e, me, o) \in Int
  BY <1>24
<1> HIDE DEF f, r, w, In, Out, a, b, k
<1>14. SumFunctionOnSet(a, P) = SumFunctionOnSet(f, In)
  BY <1>3, <1>5, <1>7, <1>8, SumByParts
<1>15. SumFunctionOnSet(b, P) = SumFunctionOnSet(f, Out)
  BY <1>3, <1>5, <1>7, <1>8, SumByParts
<1>16. Summable(a, P) /\ Summable(b, P) /\ Summable(k, P)
  BY <1>3, <1>8, <1>10 DEF Summable
<1>17. SumFunctionOnSet(a, P) = SumFunctionOnSet(k, P) + SumFunctionOnSet(b, P)
  BY <1>10, <1>16, SumAdd
<1>18. SumFunctionOnSet(k, P) = k[me] + SumFunctionOnSet(k, P \ {me})
  BY <1>16, SumRemove
<1>19. Summable(k, R)
  BY <1>16, SummableSubset
<1>20. SumFunctionOnSet(h, R) = SumFunctionOnSet(k, R)
  BY <1>12, <1>19, SumSame
<1>21. SumFunctionOnSet(k, R) \in Int /\ SumFunctionOnSet(b, P) \in Int
  BY <1>16, <1>19, SumInt
<1>22. ExpenseDelta(q, e, me) \in Int
  BY DeltasAreInts
<1>23. SumFunctionOnSet(h, R) = ExpenseDelta(q, e, me)
  BY <1>1, <1>9, <1>11, <1>14, <1>15, <1>17, <1>18, <1>20, <1>21, <1>22
<1> QED
  BY <1>13, <1>23

(* The same of a settlement with somebody else.                            *)
LEMMA SettlementEdgesAddUp ==
  ASSUME NEW q, Books(q), NEW s \in DOMAIN q.settlements, NEW me \in People(q),
         NEW R, R = People(q) \ {me},
         NEW h, \A o \in R : h[o] = SettlementEdge(q, s, me, o)
  PROVE  /\ SumFunctionOnSet(h, R) = SettlementDelta(q, s, me)
         /\ \A o \in R : SettlementEdge(q, s, me, o) \in Int
<1> DEFINE x == q.settlements[s].amount
           from == Resolve(q, q.settlements[s].from)
           to == Resolve(q, q.settlements[s].to)
<1>1. x \in Int
  BY DEF Books
<1>2. from \in People(q) /\ to \in People(q)
  BY SettlingAreNamed
<1>3. SettlementDelta(q, s, me) = (IF from = me THEN x ELSE 0) - (IF to = me THEN x ELSE 0)
  BY DEF SettlementDelta
<1>4. \A o : SettlementEdge(q, s, me, o)
               = IF to = me THEN (IF from = o THEN -x ELSE 0)
                 ELSE IF from = me /\ to = o THEN x ELSE 0
  BY DEF SettlementEdge
<1>5. IsFiniteSet(R)
  BY PeopleFinite, FS_Subset
<1> HIDE DEF x, from, to
<1>6. \A o \in R : SettlementEdge(q, s, me, o) \in Int
  BY <1>1, <1>4
<1>7. CASE to = me /\ from = me
  <2>1. \A o \in R : h[o] = 0
    BY <1>4, <1>7
  <2>2. SumFunctionOnSet(h, R) = 0
    BY <1>5, <2>1, SumZero
  <2> QED
    BY <1>1, <1>3, <1>6, <1>7, <2>2
<1>8. CASE to = me /\ from # me
  <2>1. \A o \in R : h[o] = IF o = from THEN -x ELSE 0
    BY <1>4, <1>8
  <2>2. from \in R /\ -x \in Int
    BY <1>1, <1>2, <1>8
  <2>3. SumFunctionOnSet(h, R) = -x
    BY <1>5, <2>1, <2>2, SumSingle
  <2> QED
    BY <1>1, <1>3, <1>6, <1>8, <2>3
<1>9. CASE to # me /\ from = me
  <2>1. \A o \in R : h[o] = IF o = to THEN x ELSE 0
    BY <1>4, <1>9
  <2>2. to \in R
    BY <1>2, <1>9
  <2>3. SumFunctionOnSet(h, R) = x
    BY <1>1, <1>5, <2>1, <2>2, SumSingle
  <2> QED
    BY <1>1, <1>3, <1>6, <1>9, <2>3
<1>10. CASE to # me /\ from # me
  <2>1. \A o \in R : h[o] = 0
    BY <1>4, <1>10
  <2>2. SumFunctionOnSet(h, R) = 0
    BY <1>5, <2>1, SumZero
  <2> QED
    BY <1>3, <1>6, <1>10, <2>2
<1> QED
  BY <1>7, <1>8, <1>9, <1>10

Owed(q, me, o) ==
    SumOver(Counted(q), LAMBDA e : ExpenseEdge(q, e, me, o))
      + SumOver(DOMAIN q.settlements, LAMBDA s : SettlementEdge(q, s, me, o))

(* What is owed is a sum over expenses and one over settlements.           *)
LEMMA OwedParts ==
  ASSUME NEW q, NEW me, NEW o
  PROVE  Owed(q, me, o) =
            SumFunctionOnSet([e \in Counted(q) |-> ExpenseEdge(q, e, me, o)], Counted(q))
            + SumFunctionOnSet([s \in DOMAIN q.settlements |-> SettlementEdge(q, s, me, o)],
                               DOMAIN q.settlements)
BY DEF Owed, SumOver, SumFunction

Others(q, me, R) == R = People(q) \ {me}

OwedIn(d, q, me, R) == \A o \in R : d[o] = Owed(q, me, o)

(* So what the others owe one adds up to one's delta.                      *)
LEMMA OwedAddsUp ==
  ASSUME NEW q, Books(q), Named(q), NEW me \in People(q), NEW R, Others(q, me, R),
         NEW d, OwedIn(d, q, me, R)
  PROVE  SumFunctionOnSet(d, R) = Delta(q, me) /\ Summable(d, R)
<1> DEFINE E == Counted(q)
           T == DOMAIN q.settlements
           F == [oe \in R \X E |-> ExpenseEdge(q, oe[2], me, oe[1])]
           G == [os \in R \X T |-> SettlementEdge(q, os[2], me, os[1])]
           f == [o \in R |-> SumFunctionOnSet([e \in E |-> ExpenseEdge(q, e, me, o)], E)]
           g == [o \in R |-> SumFunctionOnSet([s \in T |-> SettlementEdge(q, s, me, o)], T)]
           b == [e \in E |-> ExpenseDelta(q, e, me)]
           c == [s \in T |-> SettlementDelta(q, s, me)]
<1>1. IsFiniteSet(R) /\ IsFiniteSet(E) /\ IsFiniteSet(T)
  BY PeopleFinite, DeltasAreInts, FS_Subset DEF Others
<1>2. ASSUME NEW o \in R, NEW e \in E PROVE ExpenseEdge(q, e, me, o) \in Int
  <2> DEFINE h == [x \in R |-> ExpenseEdge(q, e, me, x)]
  <2>1. \A x \in R : h[x] = ExpenseEdge(q, e, me, x)
    OBVIOUS
  <2> HIDE DEF h
  <2> QED
    BY <2>1, ExpenseEdgesAddUp DEF Others
<1>3. ASSUME NEW o \in R, NEW s \in T PROVE SettlementEdge(q, s, me, o) \in Int
  <2> DEFINE h == [x \in R |-> SettlementEdge(q, s, me, x)]
  <2>1. \A x \in R : h[x] = SettlementEdge(q, s, me, x)
    OBVIOUS
  <2> HIDE DEF h
  <2> QED
    BY <2>1, SettlementEdgesAddUp DEF Others
<1>4. \A o \in R, e \in E : F[<<o, e>>] = ExpenseEdge(q, e, me, o) /\ F[<<o, e>>] \in Int
  BY <1>2
<1>5. \A o \in R, s \in T : G[<<o, s>>] = SettlementEdge(q, s, me, o) /\ G[<<o, s>>] \in Int
  BY <1>3
<1>6. \A o \in R : f[o] = SumFunctionOnSet(Row(F, o, E), E)
  <2> SUFFICES ASSUME NEW o \in R
               PROVE  [e \in E |-> ExpenseEdge(q, e, me, o)] = Row(F, o, E)
    OBVIOUS
  <2> HIDE DEF F
  <2> QED
    BY <1>4 DEF Row
<1>7. \A o \in R : g[o] = SumFunctionOnSet(Row(G, o, T), T)
  <2> SUFFICES ASSUME NEW o \in R
               PROVE  [s \in T |-> SettlementEdge(q, s, me, o)] = Row(G, o, T)
    OBVIOUS
  <2> HIDE DEF G
  <2> QED
    BY <1>5 DEF Row
<1>8. ASSUME NEW e \in E PROVE SumFunctionOnSet(Col(F, e, R), R) = b[e]
  <2> DEFINE h == Col(F, e, R)
  <2>1. \A o \in R : h[o] = ExpenseEdge(q, e, me, o)
    BY <1>4 DEF Col
  <2> HIDE DEF h
  <2>2. SumFunctionOnSet(h, R) = ExpenseDelta(q, e, me)
    BY <2>1, ExpenseEdgesAddUp DEF Others
  <2> QED
    BY <2>2 DEF h
<1>9. ASSUME NEW s \in T PROVE SumFunctionOnSet(Col(G, s, R), R) = c[s]
  <2> DEFINE h == Col(G, s, R)
  <2>1. \A o \in R : h[o] = SettlementEdge(q, s, me, o)
    BY <1>5 DEF Col
  <2> HIDE DEF h
  <2>2. SumFunctionOnSet(h, R) = SettlementDelta(q, s, me)
    BY <2>1, SettlementEdgesAddUp DEF Others
  <2> QED
    BY <2>2 DEF h
<1>10. \A o \in R : d[o] = f[o] + g[o]
  BY OwedParts DEF OwedIn
<1>11. Summable(f, R) /\ Summable(g, R)
  <2> SUFFICES ASSUME NEW o \in R PROVE f[o] \in Int /\ g[o] \in Int
    BY <1>1 DEF Summable
  <2>1. /\ Summable([e \in E |-> ExpenseEdge(q, e, me, o)], E)
        /\ Summable([s \in T |-> SettlementEdge(q, s, me, o)], T)
    BY <1>1, <1>2, <1>3 DEF Summable
  <2> QED
    BY <2>1, SumInt
<1>12. Table(F, R, E) /\ Table(G, R, T)
  <2> HIDE DEF F, G, E, T
  <2> QED
    BY <1>1, <1>4, <1>5 DEF Table
<1>13. Delta(q, me) = SumFunctionOnSet(b, E) + SumFunctionOnSet(c, T)
  BY DeltaParts
<1> HIDE DEF F, G, f, g, b, c, E, T
<1>18. \A e \in E : SumFunctionOnSet(Col(F, e, R), R) = b[e]
  BY <1>8
<1>19. \A s \in T : SumFunctionOnSet(Col(G, s, R), R) = c[s]
  BY <1>9
<1>14. SumFunctionOnSet(f, R) = SumFunctionOnSet(b, E)
  BY <1>6, <1>18, <1>12, SumOfEqualTable
<1>15. SumFunctionOnSet(g, R) = SumFunctionOnSet(c, T)
  BY <1>7, <1>19, <1>12, SumOfEqualTable
<1>16. Summable(d, R)
  BY <1>10, <1>11 DEF Summable
<1>17. SumFunctionOnSet(d, R) = SumFunctionOnSet(f, R) + SumFunctionOnSet(g, R)
  BY <1>10, <1>11, SumAdd
<1> QED
  BY <1>13, <1>14, <1>15, <1>16, <1>17

(* The pairwise view is what is owed, where it is not zero.                *)
LEMMA PairwiseIs ==
  ASSUME NEW q, NEW u, Resolve(q, u) = u
  PROVE  PairwiseWith(q, u) = [o \in {v \in People(q) : Owed(q, u, v) # 0} |-> Owed(q, u, o)]
<1>1. PairwiseWith(q, u) = NonZero([o \in People(q) |-> Owed(q, Resolve(q, u), o)])
  BY DEF PairwiseWith, Owed
<1> DEFINE d == [o \in People(q) |-> Owed(q, u, o)]
<1>2. PairwiseWith(q, u) = NonZero(d)
  BY <1>1
<1>3. DOMAIN d = People(q) /\ \A o \in People(q) : d[o] = Owed(q, u, o)
  OBVIOUS
<1>4. NonZero(d) = [o \in {v \in DOMAIN d : d[v] # 0} |-> d[o]]
  BY DEF NonZero
<1> HIDE DEF d
<1> QED
  BY <1>2, <1>3, <1>4

(* The users of a projection have ids.                                     *)
LEMMA ProjectionNamed ==
  ASSUME NEW S, Arrived(S)
  PROVE  Named(Project(S))
<1> DEFINE O == EntitledOps(S, Build(S))
           V == VersionWrites(O)
           q == Project(S)
           edges == AliasEdges(S)
<1>1. Arrived(O)
  BY ArrivedSubset DEF EntitledOps
<1>2. Readings(V)
  BY ArrivedIsOpSet, <1>1, WritesHaveReadings
<1>3. ASSUME NEW e \in DOMAIN q.expenses PROVE FieldUsers(q.expenses[e].fields) \subseteq Ids
  <2>1. e \in DOMAIN LastWrites(V) /\ q.expenses[e].fields = LastWrites(V)[e].value
    BY ExpenseShown
  <2>2. LastWrite(V, e) \in V /\ LastWrites(V)[e].value = LastWrite(V, e).value
    <3> HIDE DEF V
    <3> QED
      BY <1>2, <2>1, LastWriteExists, RegisterValue
  <2>3. PICK op \in OfKind(O, "CreateExpense") \cup OfKind(O, "EditExpense") :
          LastWrite(V, e) = Write(op.expense, op, op.fields)
    BY <2>2 DEF VersionWrites
  <2>4. Sound(op) /\ op.kind \in {"CreateExpense", "EditExpense"}
    BY <1>1 DEF OfKind, Arrived
  <2>5. LastWrite(V, e).value = op.fields
    BY <2>3 DEF Write
  <2> QED
    BY <2>1, <2>2, <2>4, <2>5 DEF Ids, Sound
<1>4. ASSUME NEW u \in Ids PROVE Resolve(q, u) \in Ids
  <2>1. Resolve(q, u) = Canon(edges, u)
    BY AliasesAre, ResolveIsCanon
  <2>2. CASE u \notin Nodes(edges)
    BY <2>1, <2>2 DEF Canon
  <2>3. CASE u \in Nodes(edges)
    <3>1. UserEdges(edges)
      BY ArrivedIsOpSet, AliasEdgesOfUsers
    <3>2. Canon(edges, u) \in Nodes(edges)
      BY <2>3, <3>1, CanonInComponent, InComponent
    <3>3. Nodes(edges) \subseteq Ids
      BY <3>1, NodesFinite DEF Ids
    <3> QED
      BY <2>1, <3>2, <3>3
  <2> QED
    BY <2>2, <2>3
<1> QED
  BY <1>3, <1>4 DEF Named

(* Whom the books do not name owes nothing and is owed nothing.            *)
LEMMA NothingOwedElsewhere ==
  ASSUME NEW q, Books(q), Named(q), NEW u, u \notin People(q), NEW o
  PROVE  Owed(q, u, o) = 0
<1> DEFINE E == Counted(q)
           T == DOMAIN q.settlements
           f == [e \in E |-> ExpenseEdge(q, e, u, o)]
           g == [s \in T |-> SettlementEdge(q, s, u, o)]
<1>1. ASSUME NEW e \in E PROVE f[e] = 0
  <2> DEFINE t == D!SimplifyDebts(ExpenseNet(q, e))
  <2>1. t \in Seq(TransfersOf(People(q)))
    BY ExpenseNetSettles
  <2>2. ExpenseEdge(q, e, u, o) = MovedBetween(t, o, u) - MovedBetween(t, u, o)
    BY EdgeIs
  <2> HIDE DEF t
  <2>3. \A i \in DOMAIN t : t[i] \in TransfersOf(People(q))
    BY <2>1
  <2>4. \A i \in DOMAIN t : t[i].from # u /\ t[i].to # u
    BY <2>3 DEF TransfersOf
  <2>5. /\ {i \in DOMAIN t : t[i].from = o /\ t[i].to = u} = {}
        /\ {i \in DOMAIN t : t[i].from = u /\ t[i].to = o} = {}
    BY <2>4
  <2>6. Moved(t, {}) = 0
    BY SumEmpty DEF Moved
  <2>7. MovedBetween(t, o, u) = 0 /\ MovedBetween(t, u, o) = 0
    BY <2>1, <2>5, <2>6, BetweenIsMoved
  <2> QED
    BY <2>2, <2>7
<1>2. ASSUME NEW s \in T PROVE g[s] = 0
  <2>1. Resolve(q, q.settlements[s].from) # u /\ Resolve(q, q.settlements[s].to) # u
    BY SettlingAreNamed
  <2> QED
    BY <2>1 DEF SettlementEdge
<1>3. Owed(q, u, o) = SumFunctionOnSet(f, E) + SumFunctionOnSet(g, T)
  BY OwedParts
<1>4. IsFiniteSet(E) /\ IsFiniteSet(T)
  BY DeltasAreInts
<1> HIDE DEF f, g, E, T
<1>5. SumFunctionOnSet(f, E) = 0 /\ SumFunctionOnSet(g, T) = 0
  BY <1>1, <1>2, <1>4, SumZero
<1> QED
  BY <1>3, <1>5

(* The pairwise view adds up to the balance.                               *)
LEMMA DebtsTotal ==
  ASSUME NEW q, Books(q), Named(q), NEW u, Resolve(q, u) = u,
         NEW owed, owed = PairwiseWith(q, u)
  PROVE  /\ Summable(owed, DOMAIN owed \ {u})
         /\ SumFunctionOnSet(owed, DOMAIN owed \ {u}) = Delta(q, u)
<1> DEFINE R == People(q) \ {u}
           T == {v \in People(q) : Owed(q, u, v) # 0}
           d == [o \in R |-> Owed(q, u, o)]
<1>1. owed = [o \in T |-> Owed(q, u, o)]
  BY PairwiseIs
<1>2. CASE u \notin People(q)
  <2>1. T = {}
    BY <1>2, NothingOwedElsewhere
  <2>2. DOMAIN owed \ {u} = {}
    BY <1>1, <2>1
  <2>3. Summable(owed, {}) /\ SumFunctionOnSet(owed, {}) = 0
    BY SumEmpty, FS_EmptySet DEF Summable
  <2> QED
    BY <1>2, <2>2, <2>3, NoDeltaElsewhere
<1>3. CASE u \in People(q)
  <2>1. \A o \in R : d[o] = Owed(q, u, o)
    OBVIOUS
  <2>2. /\ T \ {u} \subseteq R
        /\ \A o \in R \ (T \ {u}) : d[o] = 0
        /\ \A o \in T \ {u} : owed[o] = d[o]
        /\ DOMAIN owed = T
    BY <1>1
  <2> HIDE DEF T, d
  <2>3. SumFunctionOnSet(d, R) = Delta(q, u) /\ Summable(d, R)
    BY <1>3, <2>1, OwedAddsUp DEF Others, OwedIn
  <2>4. SumFunctionOnSet(d, T \ {u}) = Delta(q, u) /\ Summable(d, T \ {u})
    BY <2>2, <2>3, SumNonZero, SummableSubset
  <2>5. SumFunctionOnSet(owed, T \ {u}) = Delta(q, u)
    BY <2>2, <2>4, SumSame
  <2>6. Summable(owed, T \ {u})
    BY <2>2, <2>4 DEF Summable
  <2> QED
    BY <2>2, <2>5, <2>6
<1> QED
  BY <1>2, <1>3

LEMMA DebtsAdd == LedgerInv => PairwiseReconciles
<1> SUFFICES ASSUME LedgerInv PROVE PairwiseReconciles
  OBVIOUS
<1> DEFINE S == view.of
           q == view.model
<1>1. Arrived(S) /\ q = Project(S)
  BY ViewIsOfOpSet DEF LedgerInv
<1>2. Books(q) /\ Named(q)
  BY <1>1, ProjectionInBooks, ProjectionNamed
<1> SUFFICES ASSUME NEW u \in People(q)
             PROVE  SumFunctionOnSet(PairwiseWith(q, u), DOMAIN PairwiseWith(q, u) \ {u})
                        = NetOf(NetBalances(q), u)
  BY DEF PairwiseReconciles, p
<1> HIDE DEF q, S
<1>3. Resolve(q, u) = u
  BY <1>1, PeopleAreResolved
<1> QED
  BY <1>2, <1>3, DebtsTotal, NetOfIsDelta

(* What everybody else owes a person, as pairwise_with has it from the     *)
(* transfers that settle each expense, adds up to that person's net.       *)
THEOREM DebtsAddUp == Spec => []PairwiseReconciles
BY DebtsAdd, LedgerInvHolds, PTL

-----------------------------------------------------------------------------
(* The screens. *)

(* The list of friends, with those of people without a profile.            *)
LEMMA FriendsAreOwed ==
  ASSUME NEW q, Books(q), Named(q), IsFiniteSet(DOMAIN q.users),
         NEW me, Resolve(q, me) = me,
         NEW list, list = FriendList(q, me),
         NEW owed, owed = PairwiseWith(q, me)
  PROVE  SumOver(DOMAIN list, LAMBDA u : list[u].net)
           + SumFunctionOnSet(owed, DOMAIN owed \ (DOMAIN list \cup {me})) = OverallNet(q, me)
<1> DEFINE F == DOMAIN q.users \ {me}
           R == DOMAIN owed \ {me}
           k == [u \in F \cup R |-> AmountOf(owed, u)]
           h == [u \in F |-> list[u].net]
<1>1. DOMAIN list = F /\ \A u \in F : list[u].net = AmountOf(owed, u)
  BY DEF FriendList, FriendBalance, FriendNet
<1>2. Summable(owed, R) /\ SumFunctionOnSet(owed, R) = Delta(q, me)
  BY DebtsTotal
<1>3. SumOver(DOMAIN list, LAMBDA u : list[u].net) = SumFunctionOnSet(h, F)
  BY <1>1 DEF SumOver, SumFunction
<1>4. \A u \in F : h[u] = k[u]
  BY <1>1
<1>5. /\ \A u \in R : k[u] = owed[u] /\ k[u] \in Int
      /\ \A u \in F \ R : k[u] = 0
  BY <1>2 DEF AmountOf, Summable
<1>6. IsFiniteSet(F) /\ IsFiniteSet(R)
  BY <1>2, FS_Subset DEF Summable
<1> HIDE DEF h, k
<1>7. Summable(k, F \cup R)
  <2>1. IsFiniteSet(F \cup R)
    BY <1>6, FS_Union
  <2>2. \A u \in F \cup R : k[u] \in Int
    BY <1>5
  <2> QED
    BY <2>1, <2>2 DEF Summable
<1>8. SumFunctionOnSet(k, R) = SumFunctionOnSet(owed, R)
  BY <1>2, <1>5, SumSame
<1>9. SumFunctionOnSet(k, F \cup R) = SumFunctionOnSet(k, R)
  BY <1>5, <1>7, SumNonZero
<1>10. SumFunctionOnSet(h, F) = SumFunctionOnSet(k, F)
  BY <1>4, <1>7, SumSame, SummableSubset
<1>11. R \ F = DOMAIN owed \ (DOMAIN list \cup {me}) /\ F \cup R = F \cup (R \ F) /\ F \cap (R \ F) = {}
  BY <1>1
<1>12. Summable(k, F) /\ Summable(k, R \ F)
  BY <1>7, SummableSubset
<1>13. SumFunctionOnSet(k, F \cup R) = SumFunctionOnSet(k, F) + SumFunctionOnSet(k, R \ F)
  BY <1>11, <1>12, SumUnion
<1>14. SumFunctionOnSet(owed, R \ F) = SumFunctionOnSet(k, R \ F)
  BY <1>5, <1>12, SumSame
<1>15. OverallNet(q, me) = Delta(q, me)
  BY NetOfIsDelta DEF OverallNet, AmountOf, NetOf
<1> QED
  BY <1>2, <1>3, <1>8, <1>9, <1>10, <1>11, <1>13, <1>14, <1>15

(* There are finitely many profiles.                                       *)
LEMMA ProfilesFinite ==
  ASSUME NEW S, Arrived(S)
  PROVE  IsFiniteSet(DOMAIN Project(S).users)
<1> DEFINE O == EntitledOps(S, Build(S))
<1>1. Arrived(O)
  BY ArrivedSubset DEF EntitledOps
<1>2. Project(S).users = UsersOf(FolderOf(O))
  BY ModelParts DEF Fold
<1>3. DOMAIN UsersOf(FolderOf(O)) = DOMAIN LastWrites(ProfileWrites(O))
  BY FolderParts DEF UsersOf
<1> QED
  BY ArrivedIsOpSet, <1>1, <1>2, <1>3, WritesHaveReadings, RegistersFinite

(* The feed announced what is shown.                                       *)
LEMMA FeedAnnounces ==
  ASSUME NEW S, Arrived(S), NEW q, q = Project(S)
  PROVE  /\ \A e \in DOMAIN q.expenses :
               \E op \in S : op.expense = e /\ [kind |-> "expense", of |-> op] \in Feed(S)
         /\ \A s \in DOMAIN q.settlements :
               \E op \in S : op.settlement = s /\ [kind |-> "settlement", of |-> op] \in Feed(S)
<1> DEFINE O == EntitledOps(S, Build(S))
<1>1. \A op \in S : op.kind = "CreateExpense" => [kind |-> "expense", of |-> op] \in Feed(S)
  BY DEF Feed, FeedKind
<1>2. \A op \in S : op.kind = "RecordSettlement" => [kind |-> "settlement", of |-> op] \in Feed(S)
  BY DEF Feed, FeedKind
<1>3. ASSUME NEW e \in DOMAIN q.expenses
      PROVE  \E op \in S : op.expense = e /\ op.kind = "CreateExpense"
  <2>1. e \in DOMAIN LastWrites(GroupWrites(O))
    BY ExpenseShown
  <2> DEFINE W == GroupWrites(O)
  <2> HIDE DEF W
  <2>3. e \in DOMAIN LastWrites(W)
    BY <2>1 DEF W
  <2>4. e \in {w.key : w \in W}
    BY <2>3, RegisterValue
  <2>2. PICK w \in W : w.key = e
    BY <2>4
  <2> QED
    BY <2>2 DEF W, GroupWrites, Write, OfKind, EntitledOps
<1>4. ASSUME NEW s \in DOMAIN q.settlements
      PROVE  \E op \in S : op.settlement = s /\ op.kind = "RecordSettlement"
  <2>1. s \in DOMAIN LastWrites(SettlementWrites(O))
    BY SettlementShown
  <2> DEFINE W == SettlementWrites(O)
  <2> HIDE DEF W
  <2>3. s \in DOMAIN LastWrites(W)
    BY <2>1 DEF W
  <2>4. s \in {w.key : w \in W}
    BY <2>3, RegisterValue
  <2>2. PICK w \in W : w.key = s
    BY <2>4
  <2> QED
    BY <2>2 DEF W, SettlementWrites, Write, OfKind, EntitledOps
<1>5. ASSUME NEW e \in DOMAIN q.expenses
      PROVE  \E op \in S : op.expense = e /\ [kind |-> "expense", of |-> op] \in Feed(S)
  BY <1>1, <1>3
<1>6. ASSUME NEW s \in DOMAIN q.settlements
      PROVE  \E op \in S : op.settlement = s /\ [kind |-> "settlement", of |-> op] \in Feed(S)
  BY <1>2, <1>4
<1> QED
  BY <1>5, <1>6

(* Friendship is mutual.                                                   *)
LEMMA FriendsAre ==
  ASSUME NEW S, NEW u, Resolve(Project(S), u) = u, NEW v
  PROVE  v \in FriendsOfMine(Project(S), u) <=> IsFriend(Build(S), u, v)
<1>1. Project(S).friends = ConfirmedFriends(Build(S))
  BY DEF Project, ReadModel, Assemble
<1>2. (IF u \in DOMAIN Project(S).aliases THEN Project(S).aliases[u] ELSE u) = u
  BY DEF Resolve
<1> DEFINE auth == Build(S)
           F == ConfirmedFriends(auth)
<1>3. FriendsOfMine(Project(S), u) = IF u \in DOMAIN F THEN F[u] ELSE {}
  BY <1>1, <1>2 DEF FriendsOfMine
<1> HIDE DEF auth
<1>4. ASSUME IsFriend(auth, u, v)
      PROVE  u \in DOMAIN F /\ v \in F[u]
  <2>1. <<u, v>> \in auth.friend_decls /\ <<u, v>>[1] = u /\ <<u, v>>[2] = v
    BY <1>4 DEF IsFriend
  <2>2. u \in {d[1] : d \in {e \in auth.friend_decls : IsFriend(auth, e[1], e[2])}}
    BY <1>4, <2>1
  <2>3. v \in {d[2] : d \in auth.friend_decls}
    BY <2>1
  <2> QED
    BY <1>4, <2>2, <2>3 DEF ConfirmedFriends
<1>5. ASSUME u \in DOMAIN F, v \in F[u] PROVE IsFriend(auth, u, v)
  BY <1>5 DEF ConfirmedFriends
<1> QED
  BY <1>3, <1>4, <1>5 DEF auth

(* Whom no other id is merged into is known by their own id only.          *)
Alone(q, u) == \A v : Resolve(q, v) = u <=> v = u

(* A person no alias leads to is the only one resolved to them.            *)
LEMMA UnmergedAreAlone ==
  ASSUME NEW q, NEW u, Resolve(q, u) = u, u \notin {q.aliases[v] : v \in DOMAIN q.aliases}
  PROVE  Alone(q, u)
BY DEF Alone, Resolve

(* The share of such a person is the amount under their id.                *)
LEMMA ShareAlone ==
  ASSUME NEW q, NEW u, Alone(q, u), NEW m, Amounts(m)
  PROVE  ShareOf(q, m, u) = AmountOf(m, u)
<1>1. {v \in DOMAIN m : Resolve(q, v) = u} = {v \in DOMAIN m : v = u}
  BY DEF Alone
<1>4. ShareOf(q, m, u) = SumFunctionOnSet(m, {v \in DOMAIN m : v = u})
  BY <1>1 DEF ShareOf
<1>2. CASE u \in DOMAIN m
  <2>1. {v \in DOMAIN m : v = u} = {u} /\ {u} \ {u} = {} /\ u \in {u}
    BY <1>2
  <2>2. Summable(m, {u})
    BY <1>2, FS_Singleton DEF Amounts, Summable
  <2>3. SumFunctionOnSet(m, {u}) = m[u] + SumFunctionOnSet(m, {})
    BY <2>1, <2>2, SumRemove
  <2>4. SumFunctionOnSet(m, {}) = 0
    BY SumEmpty
  <2>5. m[u] \in Int
    BY <1>2 DEF Amounts
  <2> QED
    <3>1. AmountOf(m, u) = m[u]
      BY <1>2 DEF AmountOf
    <3>2. SumFunctionOnSet(m, {u}) = m[u]
      BY <2>3, <2>4, <2>5
    <3> QED
      BY <1>4, <2>1, <3>1, <3>2
<1>3. CASE u \notin DOMAIN m
  <2>1. {v \in DOMAIN m : v = u} = {}
    BY <1>3
  <2> QED
    BY <1>3, <1>4, <2>1, SumEmpty DEF AmountOf
<1> QED
  BY <1>2, <1>3

(* A debt has a common expense or a payment behind it.                     *)
LEMMA EdgesAreShared ==
  ASSUME NEW q, Books(q), Named(q), NEW me, NEW u, Alone(q, me), Alone(q, u), me # u,
         NEW e \in Counted(q), ExpenseEdge(q, e, me, u) # 0
  PROVE  e \in SharedWith(q, me, u)
<1> DEFINE t == D!SimplifyDebts(ExpenseNet(q, e))
           U == FieldUsers(q.expenses[e].fields)
<1>1. /\ t \in Seq(TransfersOf(People(q)))
      /\ \A i \in DOMAIN t : {t[i].from, t[i].to} \subseteq {Resolve(q, v) : v \in U}
  BY ExpenseNetSettles
<1>2. ExpenseEdge(q, e, me, u) = MovedBetween(t, u, me) - MovedBetween(t, me, u)
  BY EdgeIs
<1> HIDE DEF t, U
<1>3. Moved(t, {}) = 0
  BY SumEmpty DEF Moved
<1>4. \A a, b : MovedBetween(t, a, b) = Moved(t, {i \in DOMAIN t : t[i].from = a /\ t[i].to = b})
  BY <1>1, BetweenIsMoved
<1>5. \E i \in DOMAIN t : {t[i].from, t[i].to} = {me, u}
  <2> SUFFICES ASSUME \A i \in DOMAIN t : {t[i].from, t[i].to} # {me, u} PROVE FALSE
    OBVIOUS
  <2>1. /\ {i \in DOMAIN t : t[i].from = u /\ t[i].to = me} = {}
        /\ {i \in DOMAIN t : t[i].from = me /\ t[i].to = u} = {}
    OBVIOUS
  <2>2. MovedBetween(t, u, me) = 0 /\ MovedBetween(t, me, u) = 0
    BY <1>3, <1>4, <2>1
  <2> QED
    BY <1>2, <2>2
<1>6. me \in U /\ u \in U
  <2> PICK i \in DOMAIN t : {t[i].from, t[i].to} = {me, u}
    BY <1>5
  <2>2. {t[i].from, t[i].to} \subseteq {Resolve(q, v) : v \in U}
    BY <1>1
  <2>1. me \in {Resolve(q, v) : v \in U} /\ u \in {Resolve(q, v) : v \in U}
    BY <2>2
  <2> QED
    BY <2>1 DEF Alone
<1> QED
  BY <1>6 DEF U, SharedWith, Participates, FieldUsers, Counted

(* What is shown as owed is owed.                                          *)
LEMMA OwedIfShown ==
  ASSUME NEW q, NEW me, Resolve(q, me) = me, NEW u, AmountOf(PairwiseWith(q, me), u) # 0
  PROVE  Owed(q, me, u) # 0
<1>1. PairwiseWith(q, me) = [o \in {v \in People(q) : Owed(q, me, v) # 0} |-> Owed(q, me, o)]
  BY PairwiseIs
<1>2. u \in DOMAIN PairwiseWith(q, me)
  BY DEF AmountOf
<1> QED
  BY <1>1, <1>2

(* or else for a settlement between them.                                  *)
LEMMA DebtsAreExplained ==
  ASSUME NEW q, Books(q), Named(q), NEW me, NEW u, Alone(q, me), Alone(q, u), me # u,
         Owed(q, me, u) # 0, SharedWith(q, me, u) = {}
  PROVE  \E s \in DOMAIN q.settlements : {q.settlements[s].from, q.settlements[s].to} = {me, u}
<1> DEFINE E == Counted(q)
           T == DOMAIN q.settlements
           f == [e \in E |-> ExpenseEdge(q, e, me, u)]
           g == [s \in T |-> SettlementEdge(q, s, me, u)]
<1> SUFFICES ASSUME \A s \in T : {q.settlements[s].from, q.settlements[s].to} # {me, u} PROVE FALSE
  OBVIOUS
<1>1. \A e \in E : f[e] = 0
  BY EdgesAreShared
<1>2. ASSUME NEW s \in T PROVE g[s] = 0
  BY DEF SettlementEdge, Alone
<1>3. Owed(q, me, u) = SumFunctionOnSet(f, E) + SumFunctionOnSet(g, T)
  BY OwedParts
<1>4. IsFiniteSet(E) /\ IsFiniteSet(T)
  BY DeltasAreInts
<1> HIDE DEF f, g, E, T
<1>5. SumFunctionOnSet(f, E) = 0 /\ SumFunctionOnSet(g, T) = 0
  BY <1>1, <1>2, <1>4, SumZero
<1> QED
  BY <1>3, <1>5

(* The rows of a group add up to its net.                                  *)
LEMMA RowsAddUp ==
  ASSUME NEW S, Arrived(S), NEW q, q = Project(S), NEW g \in DOMAIN q.groups, NEW me, Alone(q, me),
         me \in q.groups[g].members,
         NEW screen, screen = GroupDetail(q, me, g),
         NEW rows, rows = {e \in DOMAIN screen.expenses : screen.expenses[e].published},
         NEW paid, paid = {s \in DOMAIN screen.settlements : screen.settlements[s].from = me},
         NEW got, got = {s \in DOMAIN screen.settlements : screen.settlements[s].to = me}
  PROVE  SumFunctionOnSet([e \in rows |-> screen.expenses[e].my_net], rows)
           + SumFunctionOnSet([s \in paid |-> screen.settlements[s].amount], paid)
           - SumFunctionOnSet([s \in got |-> screen.settlements[s].amount], got)
           = screen.members[me].net
<1> DEFINE r == ForGroup(q, g)
           E == Counted(r)
           T == DOMAIN r.settlements
           amount == [s \in T |-> r.settlements[s].amount]
           b == [e \in E |-> ExpenseDelta(r, e, me)]
           c == [s \in T |-> SettlementDelta(r, s, me)]
           x == [s \in T |-> IF r.settlements[s].from = me THEN amount[s] ELSE 0]
           y == [s \in T |-> IF r.settlements[s].to = me THEN amount[s] ELSE 0]
<1>1. Books(q) /\ Books(r)
  BY ProjectionInBooks, GroupInBooks
<1>2. /\ r.expenses = [e \in {z \in DOMAIN q.expenses : q.expenses[z].group = g} |-> q.expenses[e]]
      /\ r.settlements = [s \in {z \in DOMAIN q.settlements : q.settlements[z].group = g} |-> q.settlements[s]]
      /\ r.aliases = q.aliases
  BY GroupParts
<1>3. /\ screen.members[me].net = AmountOf(NetBalances(r), me)
      /\ screen.expenses = [e \in DOMAIN r.expenses |-> ExpenseView(q, me, e)]
      /\ screen.settlements = [s \in T |-> SettlementView(q, s)]
  BY DEF GroupDetail, MemberBalances, MemberBalance, Scoped
<1>4. screen.members[me].net = Delta(r, me)
  BY <1>1, <1>3, NetOfIsDelta DEF NetOf, AmountOf
<1>5. Delta(r, me) = SumFunctionOnSet(b, E) + SumFunctionOnSet(c, T)
  BY DeltaParts
<1> HIDE DEF r
<1>6. Alone(r, me)
  BY <1>2, ResolveSame DEF Alone
<1>7. \A e \in DOMAIN r.expenses : r.expenses[e] = q.expenses[e]
  BY <1>2
<1>8. \A s \in T : r.settlements[s] = q.settlements[s] /\ amount[s] \in Int
  BY <1>1, <1>2 DEF Books
<1>9. /\ \A e \in DOMAIN r.expenses : /\ screen.expenses[e].published = q.expenses[e].published
                                      /\ screen.expenses[e].my_net = Involvement(q.expenses[e].fields, me)
      /\ DOMAIN screen.expenses = DOMAIN r.expenses
  <2>1. \A e : /\ ExpenseView(q, me, e).published = q.expenses[e].published
              /\ ExpenseView(q, me, e).my_net = Involvement(q.expenses[e].fields, me)
    BY DEF ExpenseView
  <2>2. \A e \in DOMAIN r.expenses : screen.expenses[e] = ExpenseView(q, me, e)
    BY <1>3
  <2> QED
    BY <1>3, <2>1, <2>2
<1>10. rows = E
  BY <1>7, <1>9 DEF Counted
<1>11. \A e \in E : screen.expenses[e].my_net = b[e]
  <2> SUFFICES ASSUME NEW e \in E PROVE screen.expenses[e].my_net = ExpenseDelta(r, e, me)
    OBVIOUS
  <2>1. InBalance(r.expenses[e].fields) /\ e \in DOMAIN r.expenses
    BY <1>1 DEF Books, Counted
  <2>2. Amounts(r.expenses[e].fields.paid_by) /\ Amounts(r.expenses[e].fields.splits)
    BY <2>1, AmountsOfFields
  <2> QED
    BY <1>6, <1>7, <1>9, <2>1, <2>2, ShareAlone DEF ExpenseDelta, Involvement
<1>12. [e \in rows |-> screen.expenses[e].my_net] = b
  BY <1>10, <1>11
<1>13. /\ DOMAIN screen.settlements = T
       /\ \A s \in T : /\ screen.settlements[s].from = r.settlements[s].from
                       /\ screen.settlements[s].to = r.settlements[s].to
                       /\ screen.settlements[s].amount = amount[s]
  <2>1. \A s : /\ SettlementView(q, s).from = q.settlements[s].from
              /\ SettlementView(q, s).to = q.settlements[s].to
              /\ SettlementView(q, s).amount = q.settlements[s].amount
    BY DEF SettlementView
  <2>2. DOMAIN screen.settlements = T /\ \A s \in T : screen.settlements[s] = SettlementView(q, s)
    BY <1>3
  <2>3. \A s \in T : amount[s] = r.settlements[s].amount
    OBVIOUS
  <2> HIDE DEF amount, T
  <2> QED
    BY <1>8, <2>1, <2>2, <2>3
<1>14. /\ paid = {s \in T : r.settlements[s].from = me}
       /\ got = {s \in T : r.settlements[s].to = me}
  BY <1>13
<1>15. \A s \in T : x[s] = c[s] + y[s]
  <2> SUFFICES ASSUME NEW s \in T PROVE x[s] = c[s] + y[s]
    OBVIOUS
  <2> DEFINE z == r.settlements[s]
  <2>1. /\ Resolve(r, z.from) = me <=> z.from = me
        /\ Resolve(r, z.to) = me <=> z.to = me
    BY <1>6 DEF Alone
  <2>2. c[s] = (IF z.from = me THEN amount[s] ELSE 0) - (IF z.to = me THEN amount[s] ELSE 0)
    BY <2>1 DEF SettlementDelta
  <2>3. x[s] = (IF z.from = me THEN amount[s] ELSE 0) /\ y[s] = (IF z.to = me THEN amount[s] ELSE 0)
    OBVIOUS
  <2> HIDE DEF z, x, y, c, amount
  <2> QED
    BY <1>8, <2>2, <2>3
<1>16. IsFiniteSet(T)
  BY <1>1 DEF Books
<1>17. /\ \A s \in T : SettlementDelta(r, s, me) \in Int
       /\ \A s \in T : c[s] = SettlementDelta(r, s, me)
  BY <1>1, DeltasAreInts
<1>18. /\ \A s \in T : x[s] \in Int /\ y[s] \in Int
       /\ \A s \in T \ paid : x[s] = 0
       /\ \A s \in T \ got : y[s] = 0
       /\ \A s \in paid : x[s] = amount[s]
       /\ \A s \in got : y[s] = amount[s]
       /\ paid \subseteq T /\ got \subseteq T
  <2>1. \A s \in T : /\ x[s] = IF r.settlements[s].from = me THEN amount[s] ELSE 0
                     /\ y[s] = IF r.settlements[s].to = me THEN amount[s] ELSE 0
                     /\ amount[s] \in Int
    BY <1>8
  <2> HIDE DEF x, y, amount, T
  <2>2. \A s \in T : x[s] \in Int /\ y[s] \in Int
    BY <2>1
  <2>3. /\ \A s \in T : s \in paid <=> r.settlements[s].from = me
        /\ \A s \in T : s \in got <=> r.settlements[s].to = me
        /\ paid \subseteq T /\ got \subseteq T
    BY <1>14
  <2> QED
    BY <2>1, <2>2, <2>3
<1> DEFINE xp == [s \in paid |-> screen.settlements[s].amount]
           yg == [s \in got |-> screen.settlements[s].amount]
<1>20. (\A s \in paid : xp[s] = x[s]) /\ \A s \in got : yg[s] = y[s]
  <2>1. /\ \A s \in paid : xp[s] = screen.settlements[s].amount
        /\ \A s \in got : yg[s] = screen.settlements[s].amount
    OBVIOUS
  <2> HIDE DEF x, y, xp, yg, amount, T
  <2> QED
    BY <1>13, <1>18, <2>1
<1> HIDE DEF x, y, c, b, T, E, xp, yg, amount
<1>21. Summable(x, T) /\ Summable(y, T) /\ Summable(c, T)
  BY <1>16, <1>17, <1>18 DEF Summable
<1>22. SumFunctionOnSet(x, T) = SumFunctionOnSet(c, T) + SumFunctionOnSet(y, T)
  BY <1>15, <1>21, SumAdd
<1>23. SumFunctionOnSet(x, paid) = SumFunctionOnSet(x, T) /\ SumFunctionOnSet(y, got) = SumFunctionOnSet(y, T)
  BY <1>18, <1>21, SumNonZero
<1>24. SumFunctionOnSet(xp, paid) = SumFunctionOnSet(x, paid) /\ SumFunctionOnSet(yg, got) = SumFunctionOnSet(y, got)
  BY <1>18, <1>20, <1>21, SumSame, SummableSubset
<1>25. /\ SumFunctionOnSet(c, T) \in Int /\ SumFunctionOnSet(y, T) \in Int
  BY <1>21, SumInt
<1>26. SumFunctionOnSet(b, E) \in Int
  <2>1. \A e \in E : b[e] \in Int
    BY <1>1, DeltasAreInts DEF b, E
  <2>2. IsFiniteSet(E)
    BY <1>1, DeltasAreInts DEF E
  <2> QED
    BY <2>1, <2>2, SumInt DEF Summable
<1>27. /\ SumFunctionOnSet([e \in rows |-> screen.expenses[e].my_net], rows) = SumFunctionOnSet(b, E)
       /\ SumFunctionOnSet([s \in paid |-> screen.settlements[s].amount], paid) = SumFunctionOnSet(xp, paid)
       /\ SumFunctionOnSet([s \in got |-> screen.settlements[s].amount], got) = SumFunctionOnSet(yg, got)
  BY <1>10, <1>12 DEF xp, yg
<1>28. SumFunctionOnSet(b, E) + SumFunctionOnSet(xp, paid) - SumFunctionOnSet(yg, got) = screen.members[me].net
  BY <1>4, <1>5, <1>22, <1>23, <1>24, <1>25, <1>26
<1> QED
  BY <1>27, <1>28

(* The screens of everybody tell one story.                                *)
LEMMA ScreensOfAll ==
  ASSUME LedgerInv, NEW me \in Everybody
  PROVE  ListShowsScreen(me) /\ FriendsAddUp(me) /\ Announced(me)
<1> DEFINE S == view.of
           q == view.model
<1>1. Arrived(S) /\ q = Project(S)
  BY ViewIsOfOpSet DEF LedgerInv
<1>2. Books(q) /\ Named(q) /\ IsFiniteSet(DOMAIN q.users)
  BY <1>1, ProjectionInBooks, ProjectionNamed, ProfilesFinite
<1>3. Resolve(q, me) = me
  BY DEF Everybody, p
<1>4. ListShowsScreen(me)
  <2> SUFFICES ASSUME NEW g \in Proper(me), me \in q.groups[g].members
               PROVE  Shown(me).groups[g].my_net = GroupDetail(q, me, g).members[me].net
    BY DEF ListShowsScreen, p
  <2>1. \A s \in SettlementsIn(q, g) :
          ~(Resolve(q, q.settlements[s].from) = me /\ Resolve(q, q.settlements[s].to) = me)
    BY DEF Proper, ToOneself, SettlementsIn, p
  <2>2. g \in DOMAIN q.groups
    BY DEF Proper, p
  <2>3. Shown(me).groups[g].my_net = NetOf(MyNetByGroup(q, me), g)
    BY <2>2 DEF Shown, Snapshot, GroupList, GroupSummary, AmountOf, NetOf, p
  <2>4. GroupDetail(q, me, g).members[me].net = NetOf(NetBalances(ForGroup(q, g)), me)
    BY DEF GroupDetail, MemberBalances, MemberBalance, Scoped, AmountOf, NetOf
  <2> HIDE DEF q, S
  <2> QED
    BY <1>1, <1>3, <2>1, <2>2, <2>3, <2>4, GroupNetsAgree
<1>5. FriendsAddUp(me)
  <2> DEFINE list == FriendList(q, me)
             owed == PairwiseWith(q, me)
  <2>1. SumOver(DOMAIN list, LAMBDA u : list[u].net)
          + SumFunctionOnSet(owed, DOMAIN owed \ (DOMAIN list \cup {me})) = OverallNet(q, me)
    <3> HIDE DEF q
    <3> QED
      BY <1>2, <1>3, FriendsAreOwed
  <2>2. Shown(me).friends = list /\ Shown(me).overall_net = OverallNet(q, me)
    BY DEF Shown, Snapshot, p
  <2> QED
    BY <2>1, <2>2 DEF FriendsAddUp, p
<1>6. Announced(me)
  <2>1. Shown(me).activity = Feed(S)
    BY DEF Shown, Snapshot, p
  <2>2. /\ \A e \in DOMAIN q.expenses :
              \E op \in S : op.expense = e /\ [kind |-> "expense", of |-> op] \in Feed(S)
        /\ \A s \in DOMAIN q.settlements :
              \E op \in S : op.settlement = s /\ [kind |-> "settlement", of |-> op] \in Feed(S)
    <3> HIDE DEF q, S
    <3> QED
      BY <1>1, FeedAnnounces
  <2> DEFINE shown(kind) == {entry.of : entry \in {x \in Feed(S) : x.kind = kind}}
  <2>3. \A kind, op : [kind |-> kind, of |-> op] \in Feed(S) => op \in shown(kind)
    <3> SUFFICES ASSUME NEW kind, NEW op, [kind |-> kind, of |-> op] \in Feed(S)
                 PROVE  op \in shown(kind)
      OBVIOUS
    <3> DEFINE entry == [kind |-> kind, of |-> op]
    <3>1. entry \in Feed(S) /\ entry.kind = kind /\ entry.of = op
      OBVIOUS
    <3> HIDE DEF entry
    <3> QED
      BY <3>1
  <2>4. /\ DOMAIN q.expenses \subseteq {op.expense : op \in shown("expense")}
        /\ DOMAIN q.settlements \subseteq {op.settlement : op \in shown("settlement")}
    <3> HIDE DEF shown
    <3> QED
      BY <2>2, <2>3
  <2> QED
    BY <2>1, <2>4 DEF Announced, p
<1> QED
  BY <1>4, <1>5, <1>6

(* and what holds for those nobody was merged with.                        *)
LEMMA ScreensOfUnmerged ==
  ASSUME LedgerInv, NEW me \in Unmerged
  PROVE  RowsExplainNet(me) /\ SharedExplainsDebt(me)
<1> DEFINE S == view.of
           q == view.model
<1>1. Arrived(S) /\ q = Project(S)
  BY ViewIsOfOpSet DEF LedgerInv
<1>2. Books(q) /\ Named(q)
  BY <1>1, ProjectionInBooks, ProjectionNamed
<1>3. \A u \in Unmerged : Resolve(q, u) = u /\ Alone(q, u)
  BY UnmergedAreAlone DEF Unmerged, Everybody, Merging, p
<1>4. RowsExplainNet(me)
  <2> SUFFICES ASSUME NEW g \in DOMAIN q.groups, me \in q.groups[g].members
               PROVE  LET screen == GroupDetail(q, me, g)
                          rows   == {e \in DOMAIN screen.expenses : screen.expenses[e].published}
                          paid   == {s \in DOMAIN screen.settlements : screen.settlements[s].from = me}
                          got    == {s \in DOMAIN screen.settlements : screen.settlements[s].to = me}
                      IN  SumFunctionOnSet([e \in rows |-> screen.expenses[e].my_net], rows)
                            + SumFunctionOnSet([s \in paid |-> screen.settlements[s].amount], paid)
                            - SumFunctionOnSet([s \in got |-> screen.settlements[s].amount], got)
                            = screen.members[me].net
    BY DEF RowsExplainNet, SumOver, SumFunction, p
  <2> HIDE DEF q, S
  <2> DEFINE screen == GroupDetail(q, me, g)
             rows   == {e \in DOMAIN screen.expenses : screen.expenses[e].published}
             paid   == {s \in DOMAIN screen.settlements : screen.settlements[s].from = me}
             got    == {s \in DOMAIN screen.settlements : screen.settlements[s].to = me}
  <2> SUFFICES SumFunctionOnSet([e \in rows |-> screen.expenses[e].my_net], rows)
                 + SumFunctionOnSet([s \in paid |-> screen.settlements[s].amount], paid)
                 - SumFunctionOnSet([s \in got |-> screen.settlements[s].amount], got)
                 = screen.members[me].net
    OBVIOUS
  <2>1. Alone(q, me)
    BY <1>3
  <2> QED
    BY <1>1, <2>1, RowsAddUp
<1>5. SharedExplainsDebt(me)
  <2> SUFFICES ASSUME NEW u \in DOMAIN Shown(me).friends \cap Unmerged,
                      FriendDetail(q, me, u).net # 0, DOMAIN FriendDetail(q, me, u).shared = {}
               PROVE  \E s \in DOMAIN q.settlements :
                         {q.settlements[s].from, q.settlements[s].to} = {me, u}
    BY DEF SharedExplainsDebt, p
  <2>1. me # u
    BY DEF Shown, Snapshot, FriendList, p
  <2>2. SharedWith(q, me, u) = {} /\ AmountOf(PairwiseWith(q, me), u) # 0
    BY DEF FriendDetail, FriendNet
  <2> HIDE DEF q, S
  <2>3. Owed(q, me, u) # 0
    <3>1. Resolve(q, me) = me
      BY <1>3
    <3> QED
      BY <2>2, <3>1, OwedIfShown
  <2> QED
    BY <1>2, <1>3, <2>1, <2>2, <2>3, DebtsAreExplained
<1> QED
  BY <1>4, <1>5

LEMMA ScreensAdd == LedgerInv => ScreensAgree
<1>1. ASSUME LedgerInv, NEW u \in Everybody, NEW v \in Everybody, v \in FriendsOfMine(p, u)
      PROVE  u \in FriendsOfMine(p, v)
  BY <1>1, FriendsAre DEF LedgerInv, Everybody, IsFriend, p
<1> QED
  BY <1>1, ScreensOfAll, ScreensOfUnmerged DEF ScreensAgree

(* Every screen of query.rs that a person can open, over whatever has      *)
(* arrived, agrees with the others.                                        *)
THEOREM ScreensTellOneStory == Spec => []ScreensAgree
BY ScreensAdd, LedgerInvHolds, PTL

-----------------------------------------------------------------------------
(* The records of a read model.                                            *)

Pooled(S) == S \subseteq OpPool /\ Arrived(S)

LEMMA PooledSubset == ASSUME NEW S, Pooled(S), NEW T, T \subseteq S PROVE Pooled(T)
BY ArrivedSubset DEF Pooled

(* What an op of the pool says is said.                                    *)
LEMMA IsSaid ==
  ASSUME NEW op \in OpPool, NEW field \in OpFields[op.kind]
  PROVE  op[field] \in Said(field)
BY KindsAssumption DEF Said

(* A register holds what some write to it says.                            *)
LEMMA RegisterIn ==
  ASSUME NEW W, Readings(W), NEW V, \A w \in W : w.value \in V, NEW k, NEW default
  PROVE  /\ k \in DOMAIN LastWrites(W) => LastWrites(W)[k].value \in V
         /\ ValueOr(LastWrites(W), k, default) \in V \cup {default}
<1>1. ASSUME k \in DOMAIN LastWrites(W) PROVE LastWrites(W)[k].value \in V
  BY <1>1, RegisterValue, LastWriteExists
<1> QED
  BY <1>1 DEF ValueOr

(* The registers left out above have readings, too.                        *)
LEMMA OtherReadings ==
  ASSUME NEW O, OpSet(O)
  PROVE  /\ Readings(NameWrites(O))
         /\ Readings(CurrencyWrites(O))
         /\ Readings(KeyWrites(O))
         /\ Readings(LockWrites(O))
<1>1. \A op \in O : op.hlc \in Nat
  BY OpsHaveOrder
<1>2. \A K \in SUBSET O : IsFiniteSet(K)
  BY FS_Subset DEF OpSet
<1>3. Readings(NameWrites(O))
  <2> DEFINE f == [op \in O |-> Write(op.group, op, op.name)]
             K == OfKind(O, "CreateGroup") \cup OfKind(O, "SetGroupName")
  <2>1. NameWrites(O) = {f[op] : op \in K} /\ K \in SUBSET O
    BY DEF NameWrites, OfKind
  <2>2. \A op \in O : f[op].hlc = op.hlc
    BY DEF Write
  <2> HIDE DEF f, K
  <2> QED
    BY <1>1, <1>2, <2>1, <2>2, FiniteImage DEF Readings
<1>4. Readings(CurrencyWrites(O))
  <2> DEFINE f == [op \in O |-> Write(op.group, op, op.currency)]
             K == OfKind(O, "SetGroupCurrency")
  <2>1. CurrencyWrites(O) = {f[op] : op \in K} /\ K \in SUBSET O
    BY DEF CurrencyWrites, OfKind
  <2>2. \A op \in O : f[op].hlc = op.hlc
    BY DEF Write
  <2> HIDE DEF f, K
  <2> QED
    BY <1>1, <1>2, <2>1, <2>2, FiniteImage DEF Readings
<1>5. Readings(KeyWrites(O))
  <2> DEFINE f == [op \in O |-> Write(op.user, op, op.key)]
             K == OfKind(O, "SetAgreementKey")
  <2>1. KeyWrites(O) = {f[op] : op \in K} /\ K \in SUBSET O
    BY DEF KeyWrites, OfKind
  <2>2. \A op \in O : f[op].hlc = op.hlc
    BY DEF Write
  <2> HIDE DEF f, K
  <2> QED
    BY <1>1, <1>2, <2>1, <2>2, FiniteImage DEF Readings
<1>6. Readings(LockWrites(O))
  <2> DEFINE f == [op \in O |-> Write(op.expense, op, op.locked)]
             K == OfKind(O, "SetExpenseLock")
  <2>1. LockWrites(O) = {f[op] : op \in K} /\ K \in SUBSET O
    BY DEF LockWrites, OfKind
  <2>2. \A op \in O : f[op].hlc = op.hlc
    BY DEF Write
  <2> HIDE DEF f, K
  <2> QED
    BY <1>1, <1>2, <2>1, <2>2, FiniteImage DEF Readings
<1> QED
  BY <1>3, <1>4, <1>5, <1>6

(* Whoever is named by an op, or acts by one, has an id that is in use,    *)
LEMMA NamedInUse ==
  ASSUME NEW S, Pooled(S), NEW u \in UserIds
  PROVE  Resolve(Build(S), u) \in UserIds
<1> DEFINE edges == AliasEdges(S)
<1>1. Resolve(Build(S), u) = Canon(edges, u)
  BY AliasesAre, ModelParts, ResolveIsCanon
<1>2. CASE u \notin Nodes(edges)
  BY <1>1, <1>2 DEF Canon
<1>3. CASE u \in Nodes(edges)
  <2>1. Canon(edges, u) \in Nodes(edges)
    BY <1>3, ArrivedIsOpSet, AliasEdgesOfUsers, CanonInComponent, InComponent DEF Pooled
  <2>2. PICK e \in edges : Canon(edges, u) = e[1] \/ Canon(edges, u) = e[2]
    BY <2>1, NodesAre
  <2>3. PICK op \in OfKind(Live(S), "AddAlias") : e = <<op.alias, op.canonical>>
    BY <2>2 DEF AliasEdges
  <2>4. op \in OpPool /\ op.kind = "AddAlias"
    BY <2>3 DEF OfKind, Live, Standing, Pooled
  <2>5. op.alias \in Said("alias") /\ op.canonical \in Said("canonical")
    BY <2>4, IsSaid DEF OpFields
  <2> QED
    BY <1>1, <2>2, <2>3, <2>5 DEF UserIds
<1> QED
  BY <1>2, <1>3

(* as has whoever acts by an op.                                           *)
LEMMA ActorInUse ==
  ASSUME NEW S, Pooled(S), NEW op \in S
  PROVE  Actor(Build(S), op) \in UserIds
<1> DEFINE devs == CollectDevices(S)
<1>1. IdentityOf(devs, op.author) \in {o.author : o \in OpPool}
  <2>1. CertsNumbered(S) /\ OpSet(S)
    BY KindsAssumption, ArrivedIsOpSet DEF CertsNumbered, SelfSigned, OfKind, Pooled
  <2>2. CASE op.author \in DOMAIN Project(S).devices
    <3>1. PICK c \in SelfSigned(S, "AuthorizeDevice") : IdentityOf(devs, op.author) = c.identity
      BY <2>1, <2>2, DevicesShown
    <3>2. c \in OpPool /\ c.author = c.identity
      BY <3>1 DEF SelfSigned, OfKind, Pooled
    <3> QED
      BY <3>1, <3>2
  <2>3. CASE op.author \notin DOMAIN Project(S).devices
    <3>1. op.author \notin DOMAIN devs.authorized
      BY <2>3, Stages DEF Project, ReadModel, Assemble, DeviceRecords
    <3> QED
      BY <3>1 DEF IdentityOf, Pooled
  <2> QED
    BY <2>2, <2>3
<1>2. RawActor(devs, op) \in UserIds
  BY <1>1 DEF RawActor, UserIds
<1>3. Actor(Build(S), op) = Resolve(Build(S), RawActor(devs, op))
  BY Stages DEF Actor
<1> QED
  BY <1>2, <1>3, NamedInUse

(* So has everybody who is in a group,                                     *)
LEMMA MembersInUse ==
  ASSUME NEW S, Pooled(S), NEW g
  PROVE  CurrentMembers(Build(S), g) \subseteq UserIds
<1> DEFINE who == Who(S)
           live == Live(S)
           founders == Founders(who, live)
<1>1. OpSet(live) /\ live \subseteq S
  BY ArrivedIsOpSet, ArrivedSubset DEF Live, Standing, Pooled
<1>2. /\ Build(S).membership = Membership(who, founders, live)
      /\ \A u : Resolve(who, u) = Resolve(Build(S), u)
      /\ \A op : Actor(who, op) = Actor(Build(S), op)
  BY Stages, ResolveSame, ActorSame
<1>3. ASSUME NEW h \in DOMAIN founders PROVE founders[h] \in UserIds
  <2> DEFINE C == {op \in OfKind(live, "CreateGroup") : op.group = h}
  <2>1. founders[h] = Actor(who, Earliest(C)) /\ C # {}
    BY <1>3 DEF Founders
  <2>2. OpSet(C) /\ C \subseteq S
    BY <1>1, OpSetSubset DEF OfKind
  <2>3. Earliest(C) \in C
    <3> HIDE DEF C
    <3> QED
      BY <2>1, <2>2, EarliestIsEarliest
  <2> QED
    BY <1>2, <2>1, <2>2, <2>3, ActorInUse
<1>4. ASSUME NEW e \in Build(S).membership PROVE e.user \in UserIds
  <2>1. e \in Seeds(founders) \cup {Event(who, op) : op \in Changes(live)}
    BY <1>1, <1>2, EventsAre
  <2>2. CASE e \in Seeds(founders)
    BY <1>3, <2>2 DEF Seeds
  <2>3. CASE e \in {Event(who, op) : op \in Changes(live)}
    <3>1. PICK op \in Changes(live) : e = Event(who, op)
      BY <2>3
    <3>2. op \in OpPool /\ op.kind = "SetMembership"
      BY <1>1, <3>1 DEF Changes, OfKind, Pooled
    <3>3. op.user \in UserIds
      BY <3>2, IsSaid DEF OpFields, UserIds
    <3> QED
      BY <1>2, <3>1, <3>3, NamedInUse DEF Event
  <2> QED
    BY <2>1, <2>2, <2>3
<1> QED
  BY <1>4 DEF CurrentMembers

(* and the friends of everybody.                                           *)
LEMMA FriendsInUse ==
  ASSUME NEW S, Pooled(S), NEW u \in DOMAIN Project(S).friends
  PROVE  Project(S).friends[u] \subseteq UserIds \ {u}
<1> DEFINE auth == Build(S)
<1>1. auth.friend_decls = FriendDecls(Who(S), Live(S))
  BY Stages
<1>2. ASSUME NEW d \in auth.friend_decls PROVE d[1] # d[2] /\ d[2] \in UserIds
  <2>1. PICK op \in OfKind(Live(S), "DeclareFriend") :
          d = <<Actor(Who(S), op), Resolve(Who(S), op.other)>>
    BY <1>1, <1>2 DEF FriendDecls
  <2>2. op \in OpPool /\ op.kind = "DeclareFriend"
    BY <2>1 DEF OfKind, Live, Standing, Pooled
  <2>3. op.other \in UserIds
    BY <2>2, IsSaid DEF OpFields, UserIds
  <2>4. Resolve(Who(S), op.other) = Resolve(Build(S), op.other)
    <3>1. Who(S).aliases = Build(S).aliases
      BY Stages
    <3> QED
      BY <3>1, ResolveSame
  <2> QED
    BY <1>1, <1>2, <2>1, <2>3, <2>4, NamedInUse DEF FriendDecls
<1>3. Project(S).friends = ConfirmedFriends(auth)
  BY DEF Project, ReadModel, Assemble
<1>4. Project(S).friends[u] = {b \in {d[2] : d \in auth.friend_decls} : IsFriend(auth, u, b)}
  BY <1>3 DEF ConfirmedFriends
<1>5. ASSUME NEW b \in Project(S).friends[u] PROVE b \in UserIds /\ b # u
  <2>1. <<u, b>> \in auth.friend_decls
    BY <1>4, <1>5 DEF IsFriend
  <2> QED
    BY <2>1, <1>2
<1> QED
  BY <1>5

(* The records of the five registers and of the devices.                   *)
LEMMA GroupsTyped ==
  ASSUME NEW S, Pooled(S), NEW g \in DOMAIN Project(S).groups
  PROVE  Project(S).groups[g] \in GroupRecord
<1> DEFINE O == EntitledOps(S, Build(S))
           f == FolderOf(O)
           m == CurrentMembers(Build(S), g)
<1>1. Pooled(O) /\ OpSet(O)
  BY PooledSubset, ArrivedIsOpSet DEF EntitledOps, Pooled
<1>2. /\ f.group_created = Created(O)
      /\ f.group_name = LastWrites(NameWrites(O))
      /\ f.group_currency = LastWrites(CurrencyWrites(O))
      /\ f.group_closed_until = LastWrites(ClosedWrites(O))
  BY DEF FolderOf
<1> HIDE DEF f
<1>3. /\ g \in Created(O)
      /\ Project(S).groups[g] =
            [name            |-> ValueOr(LastWrites(NameWrites(O)), g, ""),
             currency        |-> ValueOr(LastWrites(CurrencyWrites(O)), g, DefaultCurrency),
             members         |-> m,
             closed_until_ms |-> ValueOr(LastWrites(ClosedWrites(O)), g, 0)]
  <2>1. Project(S).groups = Assemble(f, Build(S)).groups
    BY DEF Project, ReadModel, f
  <2>2. Assemble(f, Build(S)).groups =
          [h \in f.group_created |->
             [name            |-> ValueOr(f.group_name, h, ""),
              currency        |-> ValueOr(f.group_currency, h, DefaultCurrency),
              members         |-> CurrentMembers(Build(S), h),
              closed_until_ms |-> ValueOr(f.group_closed_until, h, 0)]]
    BY DEF Assemble
  <2> QED
    BY <1>2, <2>1, <2>2
<1>4. ValueOr(LastWrites(NameWrites(O)), g, "") \in Said("name")
  <2> DEFINE W == NameWrites(O)
  <2>1. ASSUME NEW w \in W PROVE w.value \in Said("name")
    <3>1. PICK op \in OfKind(O, "CreateGroup") \cup OfKind(O, "SetGroupName") :
            w = Write(op.group, op, op.name)
      BY <2>1 DEF NameWrites
    <3>2. op \in OpPool /\ op.kind \in {"CreateGroup", "SetGroupName"}
      BY <1>1, <3>1 DEF OfKind, Pooled
    <3>3. op.name \in Said("name")
      BY <3>2, IsSaid DEF OpFields
    <3> QED
      BY <3>1, <3>3 DEF Write
  <2>2. g \in {w.key : w \in W}
    <3>1. PICK op \in OfKind(O, "CreateGroup") : op.group = g
      BY <1>3 DEF Created
    <3>2. Write(op.group, op, op.name) \in W
      BY DEF NameWrites
    <3>3. Write(op.group, op, op.name).key = g
      BY <3>1 DEF Write
    <3> HIDE DEF W
    <3> QED
      BY <3>2, <3>3
  <2>3. Readings(W)
    BY <1>1, OtherReadings
  <2> HIDE DEF W
  <2>4. g \in DOMAIN LastWrites(W)
    BY <2>2, RegisterValue
  <2>5. ValueOr(LastWrites(W), g, "") \in Said("name")
    BY <2>1, <2>3, <2>4, RegisterIn DEF ValueOr
  <2> QED
    BY <2>5 DEF W
<1>5. ValueOr(LastWrites(CurrencyWrites(O)), g, DefaultCurrency)
         \in Said("currency") \cup {DefaultCurrency}
  <2> DEFINE W == CurrencyWrites(O)
  <2>1. ASSUME NEW w \in W PROVE w.value \in Said("currency")
    <3>1. PICK op \in OfKind(O, "SetGroupCurrency") : w = Write(op.group, op, op.currency)
      BY <2>1 DEF CurrencyWrites
    <3>2. op \in OpPool /\ op.kind = "SetGroupCurrency"
      BY <1>1, <3>1 DEF OfKind, Pooled
    <3> QED
      BY <3>1, <3>2, IsSaid DEF Write, OpFields
  <2>2. Readings(W)
    BY <1>1, OtherReadings
  <2> HIDE DEF W
  <2>3. ValueOr(LastWrites(W), g, DefaultCurrency) \in Said("currency") \cup {DefaultCurrency}
    BY <2>1, <2>2, RegisterIn
  <2> QED
    BY <2>3 DEF W
<1>6. ValueOr(LastWrites(ClosedWrites(O)), g, 0) \in Said("until_ms") \cup {0}
  <2> DEFINE W == ClosedWrites(O)
  <2>1. ASSUME NEW w \in W PROVE w.value \in Said("until_ms")
    <3>1. PICK op \in OfKind(O, "SetClosedPeriod") : w = Write(op.group, op, op.until_ms)
      BY <2>1 DEF ClosedWrites
    <3>2. op \in OpPool /\ op.kind = "SetClosedPeriod"
      BY <1>1, <3>1 DEF OfKind, Pooled
    <3> QED
      BY <3>1, <3>2, IsSaid DEF Write, OpFields
  <2>2. Readings(W)
    BY <1>1, WritesHaveReadings
  <2> HIDE DEF W
  <2>3. ValueOr(LastWrites(W), g, 0) \in Said("until_ms") \cup {0}
    BY <2>1, <2>2, RegisterIn
  <2> QED
    BY <2>3 DEF W
<1>7. m \in SUBSET UserIds
  BY MembersInUse
<1> DEFINE name == ValueOr(LastWrites(NameWrites(O)), g, "")
           currency == ValueOr(LastWrites(CurrencyWrites(O)), g, DefaultCurrency)
           until == ValueOr(LastWrites(ClosedWrites(O)), g, 0)
<1>8. Project(S).groups[g] =
        [name |-> name, currency |-> currency, members |-> m, closed_until_ms |-> until]
  BY <1>3
<1>9. /\ name \in Said("name") /\ currency \in Said("currency") \cup {DefaultCurrency}
      /\ until \in Said("until_ms") \cup {0}
  BY <1>4, <1>5, <1>6
<1> HIDE DEF m, name, currency, until
<1> QED
  BY <1>7, <1>8, <1>9 DEF GroupRecord

(* Who has a profile, and what an expense shows.                           *)
LEMMA UsersTyped ==
  ASSUME NEW S, Pooled(S), NEW u \in DOMAIN Project(S).users
  PROVE  Project(S).users[u] \in UserRecord
<1> DEFINE O == EntitledOps(S, Build(S))
           W == ProfileWrites(O)
           K == KeyWrites(O)
<1>1. Pooled(O) /\ OpSet(O)
  BY PooledSubset, ArrivedIsOpSet DEF EntitledOps, Pooled
<1>2. /\ u \in DOMAIN LastWrites(W)
      /\ Project(S).users[u] = [name          |-> LastWrites(W)[u].value,
                                agreement_pub |-> ValueOr(LastWrites(K), u, "none")]
  <2>1. Project(S).users = UsersOf(FolderOf(O))
    BY ModelParts DEF Fold
  <2>2. FolderOf(O).agreement_keys = LastWrites(K) /\ FolderOf(O).profiles = LastWrites(W)
    BY DEF FolderOf
  <2> QED
    BY <2>1, <2>2 DEF UsersOf
<1>3. ASSUME NEW w \in W PROVE w.value \in Said("name")
  <2>1. PICK op \in OfKind(O, "UpsertProfile") : w = Write(op.user, op, op.name)
    BY <1>3 DEF ProfileWrites
  <2>2. op \in OpPool /\ op.kind = "UpsertProfile"
    BY <1>1, <2>1 DEF OfKind, Pooled
  <2> QED
    BY <2>1, <2>2, IsSaid DEF Write, OpFields
<1>4. ASSUME NEW w \in K PROVE w.value \in Said("key")
  <2>1. PICK op \in OfKind(O, "SetAgreementKey") : w = Write(op.user, op, op.key)
    BY <1>4 DEF KeyWrites
  <2>2. op \in OpPool /\ op.kind = "SetAgreementKey"
    BY <1>1, <2>1 DEF OfKind, Pooled
  <2> QED
    BY <2>1, <2>2, IsSaid DEF Write, OpFields
<1>5. Readings(W) /\ Readings(K)
  BY <1>1, WritesHaveReadings, OtherReadings
<1> HIDE DEF W, K
<1>6. LastWrites(W)[u].value \in Said("name")
  BY <1>2, <1>3, <1>5, RegisterIn
<1>7. ValueOr(LastWrites(K), u, "none") \in Said("key") \cup {"none"}
  BY <1>4, <1>5, RegisterIn
<1> QED
  BY <1>2, <1>6, <1>7 DEF UserRecord

(* What an expense shows was said, or is the default.                      *)
LEMMA ExpensesTyped ==
  ASSUME NEW S, Pooled(S), NEW e \in DOMAIN Project(S).expenses
  PROVE  Project(S).expenses[e] \in ExpenseRecord
<1> DEFINE O == EntitledOps(S, Build(S))
           G == GroupWrites(O)
           V == VersionWrites(O)
           L == LockWrites(O)
<1>1. Pooled(O) /\ OpSet(O)
  BY PooledSubset, ArrivedIsOpSet DEF EntitledOps, Pooled
<1>2. /\ e \in DOMAIN LastWrites(G) /\ e \in DOMAIN LastWrites(V)
      /\ Project(S).expenses[e] = [group     |-> LastWrites(G)[e].value,
                                   fields    |-> LastWrites(V)[e].value,
                                   locked    |-> ValueOr(LastWrites(L), e, FALSE),
                                   published |-> e \in Published(O)]
  <2>1. Project(S).expenses = ExpensesOf(FolderOf(O))
    BY ModelParts DEF Fold
  <2> DEFINE f == FolderOf(O)
  <2>2. /\ f.expense_group = LastWrites(G) /\ f.expense_version = LastWrites(V)
        /\ f.expense_locked = LastWrites(L) /\ f.expense_published = Published(O)
    BY FolderParts
  <2>3. Project(S).expenses = ExpensesOf(f)
    BY <2>1
  <2> HIDE DEF f
  <2>4. /\ e \in DOMAIN f.expense_group /\ e \in DOMAIN f.expense_version
        /\ Project(S).expenses[e] = [group     |-> f.expense_group[e].value,
                                     fields    |-> f.expense_version[e].value,
                                     locked    |-> ValueOr(f.expense_locked, e, FALSE),
                                     published |-> e \in f.expense_published]
    BY <2>3 DEF ExpensesOf
  <2> QED
    BY <2>2, <2>4, Zenon
<1>3. ASSUME NEW w \in G PROVE w.value \in Said("group")
  <2>1. PICK op \in OfKind(O, "CreateExpense") : w = Write(op.expense, op, op.group)
    BY <1>3 DEF GroupWrites
  <2>2. op \in OpPool /\ op.kind = "CreateExpense"
    BY <1>1, <2>1 DEF OfKind, Pooled
  <2> QED
    BY <2>1, <2>2, IsSaid DEF Write, OpFields
<1>4. ASSUME NEW w \in V PROVE w.value \in Said("fields")
  <2>1. PICK op \in OfKind(O, "CreateExpense") \cup OfKind(O, "EditExpense") :
          w = Write(op.expense, op, op.fields)
    BY <1>4 DEF VersionWrites
  <2>2. op \in OpPool /\ op.kind \in {"CreateExpense", "EditExpense"}
    BY <1>1, <2>1 DEF OfKind, Pooled
  <2>3. op.fields \in Said("fields")
    BY <2>2, IsSaid DEF OpFields
  <2> QED
    BY <2>1, <2>3 DEF Write
<1>5. ASSUME NEW w \in L PROVE w.value \in BOOLEAN
  <2>1. PICK op \in OfKind(O, "SetExpenseLock") : w = Write(op.expense, op, op.locked)
    BY <1>5 DEF LockWrites
  <2>2. op \in OpPool /\ op.kind = "SetExpenseLock"
    BY <1>1, <2>1 DEF OfKind, Pooled
  <2>3. op.locked \in BOOLEAN
    BY <2>2, KindsAssumption
  <2>4. w.value = op.locked
    BY <2>1 DEF Write
  <2> QED
    BY <2>3, <2>4, Zenon
<1>6. Readings(G) /\ Readings(V) /\ Readings(L)
  BY <1>1, WritesHaveReadings, OtherReadings
<1> HIDE DEF G, V, L
<1>7. LastWrites(G)[e].value \in Said("group") /\ LastWrites(V)[e].value \in Said("fields")
  BY <1>2, <1>3, <1>4, <1>6, RegisterIn
<1>8. ValueOr(LastWrites(L), e, FALSE) \in BOOLEAN
  <2>1. ValueOr(LastWrites(L), e, FALSE) \in BOOLEAN \cup {FALSE}
    BY <1>5, <1>6, RegisterIn
  <2> QED
    BY <2>1, Zenon
<1>9. (e \in Published(O)) \in BOOLEAN
  OBVIOUS
<1>10. PICK l \in BOOLEAN, b \in BOOLEAN :
          l = ValueOr(LastWrites(L), e, FALSE) /\ b = (e \in Published(O))
  BY <1>8, <1>9, Zenon
<1>11. Project(S).expenses[e] = [group     |-> LastWrites(G)[e].value,
                                fields    |-> LastWrites(V)[e].value,
                                locked    |-> l,
                                published |-> b]
  BY <1>2, <1>10, Zenon
<1> QED
  BY <1>7, <1>11 DEF ExpenseRecord

(* So does a settlement,                                                   *)
LEMMA SettlementsTyped ==
  ASSUME NEW S, Pooled(S), NEW s \in DOMAIN Project(S).settlements
  PROVE  Project(S).settlements[s] \in SettlementRecord
<1> DEFINE O == EntitledOps(S, Build(S))
           W == SettlementWrites(O)
<1>1. Pooled(O) /\ OpSet(O)
  BY PooledSubset, ArrivedIsOpSet DEF EntitledOps, Pooled
<1>2. s \in DOMAIN LastWrites(W) /\ Project(S).settlements[s] = LastWrites(W)[s].value
  <2>1. Project(S).settlements = SettlementsOf(FolderOf(O))
    BY ModelParts DEF Fold
  <2> QED
    BY <2>1, FolderParts DEF SettlementsOf
<1>3. ASSUME NEW w \in W PROVE w.value \in SettlementRecord
  <2>1. PICK op \in OfKind(O, "RecordSettlement") : w = Write(op.settlement, op, SettlementData(op))
    BY <1>3 DEF SettlementWrites
  <2>2. op \in OpPool /\ op.kind = "RecordSettlement"
    BY <1>1, <2>1 DEF OfKind, Pooled
  <2>3. /\ op.group \in Said("group") /\ op.from \in Said("from")
        /\ op.to \in Said("to") /\ op.amount \in Said("amount")
    BY <2>2, IsSaid DEF OpFields
  <2> QED
    BY <2>1, <2>3 DEF Write, SettlementData, SettlementRecord
<1>4. Readings(W)
  BY <1>1, WritesHaveReadings
<1> HIDE DEF W
<1> QED
  BY <1>2, <1>3, <1>4, RegisterIn

(* and a device.                                                           *)
LEMMA DevicesTyped ==
  ASSUME NEW S, Pooled(S), NEW d \in DOMAIN Project(S).devices
  PROVE  Project(S).devices[d] \in DeviceRecord
<1> DEFINE certs == SelfSigned(S, "AuthorizeDevice")
           devs == CollectDevices(S)
<1>1. CertsNumbered(S) /\ OpSet(S)
  BY KindsAssumption, ArrivedIsOpSet DEF CertsNumbered, SelfSigned, OfKind, Pooled
<1>2. devs.authorized = AuthorizedBy(certs) /\ d \in {c.device : c \in certs}
  BY <1>1, DevicesAre, DevicesShown DEF DevicesOf
<1>3. Project(S).devices[d] = [identity |-> devs.authorized[d].identity,
                               site     |-> devs.authorized[d].site,
                               revoked  |-> d \in DOMAIN devs.revoked]
  BY Stages DEF Project, ReadModel, Assemble, DeviceRecords
<1>4. PICK c \in certs :
        devs.authorized[d] = [hlc |-> c.hlc, identity |-> c.identity, site |-> c.site]
  BY <1>1, <1>2, LastCertificate
<1>5. c \in OpPool /\ c.kind = "AuthorizeDevice"
  BY DEF SelfSigned, OfKind, Pooled
<1>6. c.identity \in Said("identity") /\ c.site \in Said("site")
  BY <1>5, IsSaid DEF OpFields
<1> QED
  BY <1>3, <1>4, <1>6 DEF DeviceRecord

LEMMA ModelTyped == PoolInv => TypeOK
<1> SUFFICES ASSUME PoolInv PROVE TypeOK
  OBVIOUS
<1> DEFINE S == view.of
           q == view.model
<1>1. Pooled(S) /\ q = Project(S) /\ held \subseteq OpPool /\ S \subseteq held
  BY ViewIsOfOpSet DEF PoolInv, LedgerInv, Pooled
<1>2. IsProjection(q)
  BY <1>1, GroupsTyped, UsersTyped, ExpensesTyped, SettlementsTyped, DevicesTyped, FriendsInUse
     DEF IsProjection
<1>3. ASSUME NEW u \in DOMAIN q.aliases PROVE q.aliases[u] \notin DOMAIN q.aliases
  <2>1. Resolve(q, Resolve(q, u)) = Resolve(q, u)
    BY <1>1, ArrivedIsOpSet, ResolvedIsResolved DEF Pooled
  <2>2. \A v \in DOMAIN q.aliases : q.aliases[v] # v
    <3>1. \A edges : \A v \in DOMAIN ResolveAliases(edges) : ResolveAliases(edges)[v] # v
      BY DEF ResolveAliases
    <3>2. q.aliases = ResolveAliases(AliasEdges(S))
      BY <1>1, AliasesAre
    <3> QED
      BY <3>1, <3>2
  <2> HIDE DEF q
  <2>3. Resolve(q, u) = q.aliases[u]
    BY <1>3 DEF Resolve
  <2>4. ASSUME q.aliases[u] \in DOMAIN q.aliases PROVE FALSE
    <3>1. Resolve(q, q.aliases[u]) = q.aliases[q.aliases[u]]
      BY <2>4 DEF Resolve
    <3> QED
      BY <2>1, <2>2, <2>3, <2>4, <3>1
  <2> QED
    BY <2>4
<1> QED
  BY <1>1, <1>2, <1>3 DEF TypeOK

(* The read model holds nothing but what the ops of the pool say and the   *)
(* defaults of Folder::assemble, its members and friends are people the    *)
(* ops name, and no alias leads to another.                                *)
THEOREM LedgerIsTyped == Spec => []TypeOK
BY ModelTyped, PoolInvHolds, PTL
=============================================================================
