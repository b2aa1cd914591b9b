-------------------------- MODULE RepositoryProofs --------------------------
(***************************************************************************)
(* What the durable op-log promises, for every pool of ops, and what the   *)
(* readers of its projections are therefore owed.                          *)
(***************************************************************************)
EXTENDS Repository, FiniteSetTheorems, TLAPS

(* Where the materializer stands against the log at each step of append,   *)
(* and what a memoized projection shows.                                   *)
OpsFollowLog ==
    /\ step = "fold" => current \subseteq stored
    /\ step = "invalidate" => current \subseteq ops

CacheShowsOps ==
    step \in {"idle", "persist", "fold"} =>
        \A c \in cached : c = [of |-> ops, model |-> Project(ops)]

ClosedIsEmpty == step = "closed" => ops = {} /\ cached = {}

CacheIsOld == \A c \in cached : c.of \subseteq ops

RepositoryInv ==
    /\ TypeOK
    /\ NothingUnseen
    /\ OpsFollowLog
    /\ CacheShowsOps
    /\ ClosedIsEmpty
    /\ CacheIsOld

LEMMA InitInv == Init => RepositoryInv
  BY DEF Init, RepositoryInv, TypeOK, NothingUnseen, OpsFollowLog, CacheShowsOps,
         ClosedIsEmpty, CacheIsOld

LEMMA StepInv == RepositoryInv /\ [Next]_vars => RepositoryInv'
  <1> SUFFICES ASSUME RepositoryInv, [Next]_vars
               PROVE  RepositoryInv'
    OBVIOUS
  <1> USE DEF RepositoryInv, TypeOK, NothingUnseen, OpsFollowLog, CacheShowsOps,
              ClosedIsEmpty, CacheIsOld
  <1>1. CASE Open
    BY <1>1 DEF Open
  <1>2. ASSUME NEW op \in OpPool, Verify(op) PROVE RepositoryInv'
    BY <1>2 DEF Verify
  <1>3. ASSUME NEW op \in OpPool, Reject(op) PROVE RepositoryInv'
    BY <1>3 DEF Reject, vars
  <1>4. CASE Commit
    BY <1>4 DEF Commit, Return
  <1>5. CASE CommitFails
    BY <1>5 DEF CommitFails, Return
  <1>6. CASE Fold
    BY <1>6 DEF Fold
  <1>7. CASE Invalidate
    BY <1>7 DEF Invalidate, Return
  <1>8. CASE Read
    BY <1>8 DEF Read
  <1>9. CASE Crash
    BY <1>9 DEF Crash
  <1>10. CASE UNCHANGED vars
    BY <1>10 DEF vars
  <1> QED
    BY <1>1, <1>2, <1>3, <1>4, <1>5, <1>6, <1>7, <1>8, <1>9, <1>10 DEF Next

LEMMA Inductive == Spec => []RepositoryInv
  BY InitInv, StepInv, PTL DEF Spec

-----------------------------------------------------------------------------
(* Only verified ops are ever stored, and the materializer never has an op *)
(* the log lacks.                                                          *)
THEOREM TypeCorrect == Spec => []TypeOK
  <1>1. RepositoryInv => TypeOK
    BY DEF RepositoryInv
  <1> QED
    BY Inductive, <1>1, PTL

(* No crash, failed commit or reopening takes back what a reader was shown *)
(* or an append acknowledged.                                              *)
THEOREM Durable == Spec => []NothingUnseen
  <1>1. RepositoryInv => NothingUnseen
    BY DEF RepositoryInv
  <1> QED
    BY Inductive, <1>1, PTL

(* A read between two appends shows every acknowledged op.                 *)
THEOREM Fresh == Spec => []ReadYourWrites
  <1>1. RepositoryInv => ReadYourWrites
    BY DEF RepositoryInv, NothingUnseen, CacheShowsOps, ReadYourWrites
  <1> QED
    BY Inductive, <1>1, PTL

-----------------------------------------------------------------------------
(* Each step of the repository delivers an op to the ledger, replays the   *)
(* log, refreshes the view, or is invisible to the ledger.                 *)
LEMMA StepRefines ==
  RepositoryInv /\ [Next]_vars => [L!ReplayNext]_<<Loaded, served>>
  <1> SUFFICES ASSUME RepositoryInv, [Next]_vars
               PROVE  [L!ReplayNext]_<<Loaded, served>>
    OBVIOUS
  <1> USE DEF RepositoryInv, TypeOK, Loaded
  <1>1. CASE Fold
    <2>1. PICK op \in OpPool : current = {op}
      BY <1>1 DEF Fold
    <2>2. L!Deliver(op)
      BY <1>1, <2>1 DEF Fold, L!Deliver
    <2> QED
      BY <2>2 DEF L!ReplayNext, L!Next
  <1>2. CASE Read
    <2>1. served' = [of |-> ops, model |-> Project(ops)]
      BY <1>2 DEF Read, CacheShowsOps
    <2>2. L!Refresh
      BY <1>2, <2>1 DEF Read, L!Refresh
    <2> QED
      BY <2>2 DEF L!ReplayNext, L!Next
  <1>3. CASE Crash
    <2>1. stored \in SUBSET OpPool /\ L!Replay(stored)
      BY <1>3 DEF Crash, L!Replay
    <2> QED
      BY <2>1 DEF L!ReplayNext
  <1>4. CASE ~Fold /\ ~Read /\ ~Crash
    BY <1>4 DEF Next, Open, Verify, Reject, Commit, CommitFails, Invalidate, Return, vars
  <1> QED
    BY <1>1, <1>2, <1>3, <1>4

(* The repository implements the abstract ledger across crashes, failed    *)
(* commits and reopening.                                                  *)
THEOREM Implements == Spec => ImplementsLedger
  <1>1. Init => L!Init
    BY DEF Init, Loaded, L!Init
  <1> QED
    BY <1>1, Inductive, StepRefines, PTL DEF Spec, ImplementsLedger, L!ReplaySpec
-----------------------------------------------------------------------------
(* What the readers of the repository are shown.  Accounts states what a   *)
(* ledger owes its readers; here the ledger is what a repository has loaded*)
(* of the genuine ops, and its read models are those it serves.            *)
Served == INSTANCE AccountsProofs WITH held <- Loaded, view <- served, OpPool <- OpPool \ Forged

(* The projection of Accounts is the one the repository serves.            *)
LEMMA SameDevices == ASSUME NEW S PROVE Served!CollectDevices(S) = CollectDevices(S)
BY DEF Served!CollectDevices, CollectDevices, Served!SelfSigned, SelfSigned, Served!OfKind,
       OfKind, Served!CertAtOrBefore, CertAtOrBefore, Served!Min, Min

LEMMA SameIdentities == ASSUME NEW d, NEW O PROVE Served!Identities(d, O) = Identities(d, O)
BY DEF Served!Identities, Identities, Served!ResolveAliases, ResolveAliases, Served!Component,
       Component, Served!SmallestUser, SmallestUser, Served!SortsAtOrBefore, SortsAtOrBefore,
       Served!AliasAuthorized, AliasAuthorized, Served!IsPlaceholder, IsPlaceholder,
       Served!RawActor, RawActor, Served!UserIdFor, UserIdFor, Served!IdentityOf, IdentityOf,
       Served!OfKind, OfKind

LEMMA SameFounders == ASSUME NEW a, NEW O PROVE Served!Founders(a, O) = Founders(a, O)
BY DEF Served!Founders, Founders, Served!OfKind, OfKind, Served!Earliest, Earliest,
       Served!AtOrBefore, AtOrBefore, Served!OrderOf, OrderOf, Served!Actor, Actor,
       Served!Resolve, Resolve, Served!RawActor, RawActor, Served!UserIdFor, UserIdFor,
       Served!IdentityOf, IdentityOf

LEMMA SameFriends == ASSUME NEW a, NEW O PROVE Served!FriendDecls(a, O) = FriendDecls(a, O)
BY DEF Served!FriendDecls, FriendDecls, Served!OfKind, OfKind, Served!Actor, Actor,
       Served!Resolve, Resolve, Served!RawActor, RawActor, Served!UserIdFor, UserIdFor,
       Served!IdentityOf, IdentityOf

LEMMA SameMembership == ASSUME NEW a, NEW f, NEW O PROVE Served!Membership(a, f, O) =
       Membership(a, f, O)
BY DEF Served!Membership, Membership, Served!OfKind, OfKind, Served!IsMemberAsOf, IsMemberAsOf,
       Served!MinOrder, MinOrder, Served!Latest, Latest, Served!MapThenFoldSet, MapThenFoldSet,
       Served!AtOrBefore, AtOrBefore, Served!OrderOf, OrderOf, Served!Actor, Actor,
       Served!Resolve, Resolve, Served!RawActor, RawActor, Served!UserIdFor, UserIdFor,
       Served!IdentityOf, IdentityOf

LEMMA SameGrants == ASSUME NEW a, NEW f, NEW O PROVE Served!Grants(a, f, O) = Grants(a, f, O)
BY SameFriends, SameMembership DEF Served!Grants, Grants

LEMMA SameContexts == ASSUME NEW r, NEW O PROVE Served!Contexts(r, O) = Contexts(r, O)
BY DEF Served!Contexts, Contexts, Served!Bindings, Bindings, Served!OfKind, OfKind,
       Served!MayCreate, MayCreate, Served!Users, Users, Served!FieldUsers, FieldUsers,
       Served!BindingCreate, BindingCreate, Served!PartiesOf, PartiesOf, Served!FriendOpOk,
       FriendOpOk, Served!IsFriend, IsFriend, Served!IsPlaceholder, IsPlaceholder,
       Served!IsMemberAsOf, IsMemberAsOf, Served!AtOrBefore, AtOrBefore, Served!OrderOf,
       OrderOf, Served!Actor, Actor, Served!Resolve, Resolve, Served!RawActor, RawActor,
       Served!UserIdFor, UserIdFor, Served!IdentityOf, IdentityOf

LEMMA SameStages == ASSUME NEW w, NEW O PROVE Served!Staged(w, O) = Staged(w, O)
BY SameFounders, SameGrants, SameContexts DEF Served!Staged, Staged

LEMMA SameAuthority == ASSUME NEW S PROVE Served!Build(S) = Build(S)
BY SameDevices, SameIdentities, SameStages DEF Served!Build, Build, Served!FromDevices,
       FromDevices, Served!Standing, Standing, Served!RevokedAt, RevokedAt

LEMMA SameEntitled == ASSUME NEW S, NEW a PROVE Served!EntitledOps(S, a) = EntitledOps(S, a)
BY DEF Served!EntitledOps, EntitledOps, Served!Entitled, Entitled, Served!RevokedAt, RevokedAt,
       Served!EntityEntitled, EntityEntitled, Served!MayName, MayName, Served!MayCreate,
       MayCreate, Served!Users, Users, Served!FieldUsers, FieldUsers, Served!PartiesOf,
       PartiesOf, Served!FriendOpOk, FriendOpOk, Served!IsFriend, IsFriend,
       Served!IsPlaceholder, IsPlaceholder, Served!IsMemberAsOf, IsMemberAsOf,
       Served!AliasAuthorized, AliasAuthorized, Served!AtOrBefore, AtOrBefore, Served!OrderOf,
       OrderOf, Served!Actor, Actor, Served!Resolve, Resolve, Served!RawActor, RawActor,
       Served!UserIdFor, UserIdFor, Served!IdentityOf, IdentityOf

LEMMA SameFolder == ASSUME NEW O PROVE Served!FolderOf(O) = FolderOf(O)
BY DEF Served!FolderOf, FolderOf, Served!LastWrites, LastWrites, Served!LastWrite, LastWrite,
       Served!Write, Write, Served!OfKind, OfKind, Served!SettlementData, SettlementData,
       Served!NameWrites, NameWrites, Served!CurrencyWrites, CurrencyWrites,
       Served!ClosedWrites, ClosedWrites, Served!ProfileWrites, ProfileWrites, Served!KeyWrites,
       KeyWrites, Served!GroupWrites, GroupWrites, Served!VersionWrites, VersionWrites,
       Served!LockWrites, LockWrites, Served!SettlementWrites, SettlementWrites, Served!Created,
       Created, Served!Published, Published, Served!Voided, Voided, Served!VoidedSettlements,
       VoidedSettlements

LEMMA SameAssembly == ASSUME NEW f, NEW a PROVE Served!Assemble(f, a) = Assemble(f, a)
BY DEF Served!Assemble, Assemble, Served!ValueOr, ValueOr, Served!DefaultCurrency,
       DefaultCurrency, Served!CurrentMembers, CurrentMembers, Served!DeviceRecords,
       DeviceRecords, Served!ConfirmedFriends, ConfirmedFriends, Served!IsFriend, IsFriend,
       Served!AtOrBefore, AtOrBefore

LEMMA SameProjection == ASSUME NEW S PROVE Served!Project(S) = Project(S)
BY SameAuthority, SameEntitled, SameFolder, SameAssembly DEF Served!Project, Project,
       Served!ReadModel, ReadModel

(* The log is finite, and what is served was projected.                    *)
BooksInv ==
    /\ IsFiniteSet(stored)
    /\ served.model = Project(served.of)

LEMMA StepBooks == RepositoryInv /\ BooksInv /\ [Next]_vars => BooksInv'
  <1> SUFFICES ASSUME RepositoryInv, BooksInv, [Next]_vars
               PROVE  BooksInv'
    OBVIOUS
  <1>1. stored' \subseteq stored \cup current /\ IsFiniteSet(stored \cup current)
    <2>1. current = {} \/ \E op : current = {op}
      BY DEF RepositoryInv, TypeOK
    <2>2. IsFiniteSet(stored \cup current)
      BY <2>1, FS_AddElement DEF BooksInv
    <2> QED
      BY <2>2 DEF Next, vars, Open, Verify, Reject, Commit, CommitFails, Fold, Invalidate,
                  Return, Read, Crash
  <1>2. IsFiniteSet(stored')
    BY <1>1, FS_Subset
  <1>3. served'.model = Project(served'.of)
    <2>1. CASE Read
      BY <2>1 DEF Read, RepositoryInv, CacheShowsOps
    <2>2. CASE ~Read
      BY <2>2 DEF BooksInv, Next, vars, Open, Verify, Reject, Commit, CommitFails, Fold, Invalidate,
                  Return, Crash
    <2> QED
      BY <2>1, <2>2
  <1> QED
    BY <1>2, <1>3 DEF BooksInv

LEMMA BooksInvHolds == Spec => [](RepositoryInv /\ BooksInv)
  <1>1. Init => BooksInv
    BY FS_EmptySet DEF Init, BooksInv
  <1> QED
    BY <1>1, InitInv, StepInv, StepBooks, PTL DEF Spec

LEMMA ServedFinite == ASSUME NEW S PROVE Served!IsFiniteSet(S) <=> IsFiniteSet(S)
  BY DEF Served!IsFiniteSet, IsFiniteSet

(* So the invariant of Accounts holds of what is loaded and served,        *)
LEMMA ServedIsLedger ==
  ASSUME Served!KindsAssumption, Served!IdsAssumption, Served!AmountsAssumption
  PROVE  RepositoryInv /\ BooksInv => Served!PoolInv
  <1> SUFFICES ASSUME RepositoryInv, BooksInv PROVE Served!PoolInv
    OBVIOUS
  <1>1. /\ Loaded \subseteq stored /\ stored \subseteq OpPool \ Forged
        /\ served.of \subseteq Loaded
    BY DEF RepositoryInv, TypeOK, NothingUnseen, Loaded
  <1>2. IsFiniteSet(Loaded)
    BY <1>1, FS_Subset DEF BooksInv
  <1>3. served.model = Served!Project(served.of)
    BY SameProjection DEF BooksInv
  <1>4. \A op \in OpPool \ Forged : Served!Sound(op)
    BY OpPoolAssumption, Served!PoolIsSound
       DEF Served!KindsAssumption, Served!IdsAssumption, Served!AmountsAssumption, Served!OpPoolAssumption
  <1>5. Served!Arrived(Loaded)
    BY <1>1, <1>2, <1>4, ServedFinite DEF Served!Arrived
  <1> QED
    BY <1>1, <1>3, <1>5 DEF Served!PoolInv, Served!LedgerInv

(* and a later read model is of all that an earlier one showed.            *)
LEMMA ServedGrows == RepositoryInv /\ [Next]_vars => [served.of \subseteq served'.of]_served
  BY DEF RepositoryInv, NothingUnseen, CacheShowsOps, Next, vars, Open, Verify, Reject, Commit,
         CommitFails, Fold, Invalidate, Return, Read, Crash

(* Whatever crashes, fails or is replayed, every read model served keeps   *)
(* the books: balances sum to zero and move with merges, the views of them *)
(* and the screens agree, members were admitted and names are their own.   *)
THEOREM ServedBooksAgree ==
  ASSUME Served!KindsAssumption, Served!IdsAssumption, Served!AmountsAssumption
  PROVE  Spec => /\ [](/\ Served!TypeOK
                       /\ Served!ZeroSum /\ Served!PairwiseReconciles /\ Served!GroupsReconcile
                       /\ Served!ScreensAgree
                       /\ Served!NoSelfAdmission /\ Served!OwnersNameThemselves)
                 /\ Served!MergesAddUp
  <1>1. Served!PoolInv =>
            /\ Served!TypeOK
            /\ Served!ZeroSum /\ Served!PairwiseReconciles /\ Served!GroupsReconcile
            /\ Served!ScreensAgree
            /\ Served!NoSelfAdmission /\ Served!OwnersNameThemselves
    BY OpPoolAssumption, Served!ModelTyped, Served!NetsSumToZero, Served!DebtsAdd, Served!GroupsAdd, Served!ScreensAdd,
       Served!MembersAdmitted, Served!OwnersName
       DEF Served!KindsAssumption, Served!IdsAssumption, Served!AmountsAssumption, Served!OpPoolAssumption,
           Served!PoolInv
  <1>2. Served!LedgerInv /\ Served!LedgerInv' /\ [served.of \subseteq served'.of]_served =>
            [Served!OnlyMerges /\ Served!SameLedger =>
               Served!NetBalances(served'.model)
                 = Served!Merged(Served!NetBalances(served.model), served'.model)]_served
    BY OpPoolAssumption, Served!NetsMoved
       DEF Served!KindsAssumption, Served!IdsAssumption, Served!AmountsAssumption, Served!OpPoolAssumption
  <1> QED
    BY <1>1, <1>2, BooksInvHolds, ServedIsLedger, ServedGrows, PTL
       DEF Spec, Served!MergesAddUp, Served!PoolInv

(* With distinct readings, so are the contexts of expenses, and removals   *)
(* leave what earlier read models showed.                                  *)
THEOREM ServedPastIsKept ==
  ASSUME Served!KindsAssumption, Served!IdsAssumption, Served!AmountsAssumption,
         Served!DistinctHlcs
  PROVE  Spec => []Served!ContextsAgree /\ Served!RemovalPreservesPast
  <1>1. Served!PoolInv => Served!LedgerInv /\ Served!Apart(Loaded)
    BY OpPoolAssumption, Served!HeldApart
       DEF Served!KindsAssumption, Served!IdsAssumption, Served!AmountsAssumption, Served!OpPoolAssumption,
           Served!PoolInv
  <1>2. Served!LedgerInv /\ Served!Apart(Loaded) => Served!ContextsAgree
    BY OpPoolAssumption, Served!BoundAsShown
       DEF Served!KindsAssumption, Served!IdsAssumption, Served!AmountsAssumption, Served!OpPoolAssumption
  <1>3. Served!LedgerInv /\ Served!LedgerInv' /\ Served!Apart(Loaded)'
            /\ [served.of \subseteq served'.of]_served =>
            [(\A op \in served'.of \ served.of : Served!LaterRemoval(op, served.of)) =>
               /\ served'.model.expenses = served.model.expenses
               /\ served'.model.settlements = served.model.settlements]_served
    BY OpPoolAssumption, Served!PastKept
       DEF Served!KindsAssumption, Served!IdsAssumption, Served!AmountsAssumption, Served!OpPoolAssumption
  <1> QED
    BY <1>1, <1>2, <1>3, BooksInvHolds, ServedIsLedger, ServedGrows, PTL DEF Spec, Served!RemovalPreservesPast
=============================================================================
