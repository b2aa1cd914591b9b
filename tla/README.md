# Splittr in TLA+

Splittr splits expenses among people whose devices work offline. Each device
keeps a signed, append-only log of operations; state is a fold of the op-set,
devices exchange logs pairwise, and every decision (who may do what, which
write wins, who owes whom) must come out the same on every device that has the
same ops. The Rust engine is in `src/splittr-core/crates/`, the Flutter shell
in `src/lib/`.

These modules model the engine, the path of an amount from the expense form to
the balances, and the keys and lock of a device. TLC checks them on small
instances, TLAPS proves the main theorems for every instance.

## The system

| part | code | state | operations | hard |
|---|---|---|---|---|
| ops and clock order | `splittr-crdt` op.rs, clock.rs, identity.rs | none (values) | sign, verify, compare | equal readings |
| authorization | `splittr-crdt` authorize.rs | `Authority`, rebuilt per fold | `build` (devices, aliases, friends, founders, membership, bindings), `entitled` | ops arrive in any order and re-decide earlier ones; aliases merge people |
| value fold | `splittr-crdt` materialize.rs, projection.rs | `Materializer.ops`, `Folder` | `apply`, `projection`, `fold` | order and repetition of visits |
| balances | `splittr-crdt` balance.rs | none | `net_balances`, `my_net_by_group`, `pairwise_with`, `settle_up` | three views of one balance; claims |
| settle-up | `splittr-domain` debt.rs | the loop's lists | `simplify_debts` | nobody left over, termination |
| money, splits, currency | `splittr-domain` money.rs, split.rs, currency.rs | none | `split_equal`, `split_by_weights`, `convert` | remainders, width, negative totals |
| durable repository | `splittr-store` | the redb table, the materializer, the memoized projection | `open`, `append`, `projection` | crash between commit and fold, stale cache, failed commits |
| set reconciliation | `splittr-sync` | `SyncSession`, the byte stream, the log | `sync` (send, receive, `handle`) | blocking, breaks, partial ingest, left-over frames |
| clock generator | `splittr-app` clock.rs | `last`, in memory | `new`, `next`, `now` | restarts, clock set back, remote readings |
| engine commands | `splittr-app` app.rs, identity.rs | identity, repository, clock | one command per user intent, guarded, then `commit_signed` | guards are local; commands of several commits |
| queries | `splittr-app` query.rs | none | groups, friends, activity | screens must agree with the balances |
| FFI | `splittr-ffi` api.rs, convert.rs | `Mutex<App>` | one call per command | one call, several commits |
| app lock and keys | `lib/state/`, account_screen.dart, app.dart | PIN hash, sealed keys, root seed | onboarding, launch; set, change, remove the PIN; lock, unlock | several durable writes per operation |
| expense form | add_expense_screen.dart | the form | open, save | reopening what another form wrote |
| exchange rates, generated bindings, runners | `lib/services`, `lib/src`, platform directories | | | |

How they interact. A command in `App` reads the repository's projection for its
guards, takes a clock reading, signs an op and appends it. `Repository::append`
verifies, commits to the store, applies to the materializer and drops the
memoized projection; `projection` folds on demand: `Authority::build` over the
whole op-set, then each entitled op into the `Folder`. `sync` reads and appends
to a repository through `SyncStore`. Balances and queries read projections
only. Inside a process everything runs under one mutex, so the concurrency is
between devices, between an exchange's two ends, and between a process and its
crash. On the Dart side each write to the secret storage is awaited, so the
process may end between any two of them.

## Modules

| module | models | state and actions |
|---|---|---|
| `Ops`, `Pool` | op vocabulary, `(hlc, id)` order, user ids; `OpPool`, every op ever issued | operators |
| `Signatures`, `Secrets` | `Op::sign` and `verify`, certificates, invites; sealed blobs, PIN vaults, recovery phrases | operators, with perfect cryptography |
| `Authority` | authorize.rs | operators `Build` (one per stage) and `Entitled` |
| `Projection` | `Folder::assemble`, and the order-free meaning of a fold | `Project(S)`: the read model of an op-set |
| `Ledger` | abstract: ops arrive in any order, a read shows the projection of those held | `held`, `view`; `Deliver`, `Refresh`; `ReplaySpec` also lets several arrive at once |
| `Materialize` | `Materializer` and the loop of `fold` | `retained` (ops), `phase`, `authority`, `visited`, `folder`, `view`; `Apply`, `StartFold`, one action per op kind, `FinishFold` |
| `Rules` | properties of the authorization, on a `Ledger` | `held`, `view` |
| `Balance`, `Queries` | balance.rs and `for_group`; query.rs | operators |
| `Accounts` | what balances and screens owe their readers, on the ledger of `Rules` | properties |
| `Repository` | repository.rs over redb_store.rs | `stored`, `step`, `current`, `ops`, `cached`; `Open`, `Verify`, `Reject`, `Commit`, `CommitFails`, `Fold`, `Invalidate`, `Read`, `Crash`; ghosts `acked`, `served` |
| `OpSets` | abstract: replicas' op-sets only merge | `store`; `Issue`, `Copy` |
| `Sync` | transport.rs, reconcile.rs, framed.rs, message.rs | `store`, `sess`, `wire`; `Issue`, `Connect`, `Write`, `Receive` (with `Handle`), `Ingest`, `Finish`, `Abort`, `Break`, `Crash`; ghost `due` |
| `Clock` | clock.rs as `commit_signed` uses it | `wall`, `last`, `stamped`, `log`; `Commit`, `Waste` (a reading whose op is not committed), `Receive`, `Restart`, `Tick` |
| `Engine` | app.rs, identity.rs and the calls of api.rs, on several devices | the clock's, and `past`, `issued`, `view`, `open`, `root`, `todo` (the ops the running command still commits); one action per command, plus commits that fail and processes that end |
| `Split`, `Money` | split.rs; money.rs and currency.rs | operators; `split_by_weights` as a loop |
| `Debt`, `SettleUp` | `simplify_debts` as a function and as its loop | `balances`, `st`; one action per iteration |
| `Entry` | an expense from the form to the balances: `_save`, `convert_currency`, convert.rs, `build_fields`, split.rs, debt.rs, and the form reopened | `input`, `phase`, `total`, `sp`, `shares`, `first` |
| `Device` | lib/state (engine.dart, app_lock.dart, pin_sealed_key.dart) and the screens that call it | `plain`, `vault`, `idpub`, `dbkey`, `salt`, `hash`, `log` on disk; `screen`, `engine`, `pc`; one action per write |
| `MaterializeProofs`, `RepositoryProofs`, `SyncProofs`, `EngineProofs`, `DeviceProofs`, `AccountsProofs` (also for `Rules`), `EntryProofs` (also for `SettleUp`, `Split` and `Money`) | theorems | |
| `LedgerTheorems` | induction over finite sets, and what sums over them are; the stages of `Build`, the replay, the registers and the aliases of any op-set, and what one more op changes of them | lemmas |
| `MCWorld`, `MCMaterialize`, `MCLedger`, `MCRepository`, `MCSync`, `MCClock`, `MCEngine`, `MCEntry`, `MCDevice` | instances for TLC | |

How they compose. `Materialize` implements `Ledger` (its fold, in any order of
visits, yields `Project` of the ops retained); `Repository` implements `Ledger`
across crashes (its state is the ops loaded and the projection last served),
taking the fold as the operator `Project` that `Materialize` justifies; `Sync`
implements `OpSets`. `Rules` and `Accounts` state what users rely on once, on
`Ledger`, for all the implementations above: what is proved of a ledger is shown
to hold of the read models a `Repository` serves and of those the devices of the
`Engine` show. `Engine` extends `Clock`, and each
of its steps is one of the clock's or leaves the clocks alone; the guards of its
commands read `Project` of what their device holds. `Entry` composes `Money`,
`Split` and `SettleUp`.

Abstractions, throughout: an op is a record with the rank of its clock reading
and the number of its content id; a user is an identity key or a guest number,
in the order of the strings; texts, avatars and dates are single values; a
command that is refused changes nothing and is not a step. In the ledger modules
amounts are unbounded integers, where the code panics beyond 64 bits; `Entry`
has the width, with `MaxAmount` for the largest one. Cryptography is perfect: a
seal opens with its own key only, a signature is the signer's, equal hashes have
equal contents. `Engine` takes the contents of an expense as validated by
`build_fields`, which is in `Entry`. Amounts typed into the form pass through
doubles on their way; they are taken as exact, which they are up to about 2^53.
What is said of every 64-bit amount is therefore said of the amounts that reach
the FFI, beyond 2^53 not of those a user types. A commit of `Engine` that fails
has stored nothing; one that fails and is durable all the same is in
`Repository` only.

Definitions commented "(mutated form: ...)" are deliberate mistakes: each breaks
a property, which shows that the property depends on the code modelled.

## Runs

| run | specification and instance | shows |
|---|---|---|
| `materialize` | `Materialize`; four histories of 7 or 8 ops | registers hold the last entitled writes in mid-fold, a read model is a function of its op-set, refinement of `Ledger` |
| `ledgers` | `Accounts` on `Ledger`; three histories of 9 or 10 ops | `ContextsAgree`, `NoSelfAdmission`, `OwnersNameThemselves`, `RemovalPreservesPast`; balances sum to zero (`ZeroSum`), the pairwise and the per-group views add up to the net (`PairwiseReconciles`, `GroupsReconcile`), the screens agree with both (`ScreensAgree`), a merge of people adds their balances (`MergesAddUp`) |
| `repository` | `Repository`; 6 ops, three of them tampered with | durability (`NothingUnseen`), fresh reads (`ReadYourWrites`), refinement of `Ledger` |
| `trio` | `Sync`; 3 replicas, 3 ops, window 2, with symmetry | Ok means caught up, nothing is left over in the stream and frames stay in step (`FramesInStep`), nobody waits for one that has left and two wait for each other only in the middle of `Ops` frames (`OnlyDeltasJam`), every step of an exchange but its last uses up some of the work it began with (`EveryStepCounts`), refinement of `OpSets` |
| `quiesces` | `Sync` with fairness; 2 replicas, 3 ops, window 4, failing stores | every exchange ends |
| `engine` | `Engine`; two people on three devices, five pasts | `OwnOpsInOrder`; every op is attributed on its device, and to the identity that was opened unless somebody else has certified the device as well (`OwnOpsAreMine`); on a device shown as its owner's and not revoked, a group created in part is its founder's to repair (`FounderKeepsGroup`) and what a command accepted counts (`AcceptedCounts`); no command changes an expense its device has seen locked or closed (`ClosedBooksStay`) |
| `money` | `Entry` with fairness; forms and ledgers, see below | conversion to the nearest cent, no cent lost or handed out twice, fair shares, nothing that adds up refused, an expense saved as it was keeps its amounts, everybody is settled in at most n - 1 transfers, every loop ends |
| `device` | `Device`; two of each kind of value | no key is lost, the engine always opens as the enrolled identity, lock and root in sync, seed sealed under a lock |
| `void_terminal` | violation | a void can be un-done by a removal that arrives late |
| `claim_after_leaving` | violation | a claim changes balances |
| `small_window` | violation | an exchange whose streams buffer less than the deltas hangs |
| `unheard_clock` | violation | an op issued on top of another is ordered before it |

### Bounds, and why they are enough

- *Histories.* A history is the complete log of a small world: three people, a
  guest or two, one group, one or two expenses, the second device of one person.
  `MCSpec` restricts a behaviour to one history (`OneHistory`); within it every
  subset, every order, and every choice of when to read is explored. An
  authorization rule or a register is decided by at most four ops (a create, an
  admission, the write, a competing write or a removal), and each history holds
  several such constellations. Clock ranks and content ids run in opposite
  directions, so that a decision made by the wrong one of the two shows.
- *Sync.* An id counts as one part of a frame and an op as two, so frames are
  split at every place, and a delta of two ops exceeds `MaxFrame` (3) while the
  announcement of two ids does not: one side gives up while the other may be in
  the middle of a frame. Three replicas let one be in a stale session while the
  other two reconcile; replicas and ops are symmetric, and no property of that
  run is a liveness property. In `quiesces` the window (4) holds the largest
  frame that is admitted (3).
- *Repository.* Besides a group, its renaming and a member: an op that was
  altered, one altered and given its new id, and one signed by someone else;
  `VerifiedAssumption` checks that `Op::verify` tells them apart as it does.
- *Engine.* `Bounds` of `MCEngine` gives for each past the kinds and the number
  of ops issued on top of it, the keys that may be entered as a device's, the
  devices whose clocks move and those on which
  the App and the root key are opened and closed: 5 ops from nothing (enrolment
  and a first group, each command of which may be cut short), 3 where Bob has
  certified Alice's tablet after her (she may certify it again, and Bob's phone;
  each founds groups as whoever they then count), 2 in a group with
  a second member, on two devices of which one's clock can be set back, 3 on a
  draft (edits, voids and publications against locks and closed periods), 2
  between friends (aliases, profiles, invites, settlements; certificates and
  revocations of everybody's devices, and of an identity's key entered as a
  device's; invites may be altered). The site in a certificate, which decides
  only between certificates of one reading, is the certifier's. `MaxOps` (5) and `MaxWall` (1) bound the clocks.
- *Entry.* `MaxAmount` is 127 and `RateScale` 10, so that products and sums that
  leave the width occur among the inputs. The forms have every kind of plan,
  totals of 0, 1, 5, 11 and 127, up to four participants with repetition and
  every assignment of weights up to 4 to three people; payments that are empty,
  miss the total, name a user twice, or leave the width in passing; rates from
  -1 to 200 times par over currencies of 0, 2 and 3 decimals, among them a value
  half a cent above `MaxAmount`, which wraps. The expense is
  reopened once, with everybody, all but one payer or nobody still in the group.
  The ledgers are all those of five users with balances within 4 that sum to
  zero: greedy matching then settles two parties at once, one at a time, and
  ties decide.
- *Device.* Two identities, log keys, PINs and salts: enough for a value to be
  taken for another of its kind. Nothing else is bounded.
- *Clock.* In `unheard_clock` three milliseconds and three ops suffice for a
  device that is behind.

`CHECK_DEADLOCK FALSE` stands where the system may stop: a person who has used
up the bound on ops, a loop that has ended.

### Fairness

`FairSpec` of `Sync` has weak fairness of each replica's `Step`: the future
returned by `sync` is polled again when its stream becomes readable or writable,
and each of its steps stays enabled until taken. No fairness of `Issue`,
`Connect`, `Break` or `Crash`: nothing makes a user or a network act. `Entry`
has weak fairness of its next-state relation: the loops run on one thread, under
the engine's mutex, and a thread that runs goes on running; once everything is
settled nothing is left to be fair to.

## Findings

Each is a run that TLC must refute, with the line of code and the quoted claim
in `PROJECT.json`.

- *Voids are not terminal* (ADR-0001, rule 5). Entitlement is re-decided over the
  whole op-set, so a removal or revocation that is earlier by clock and later by
  arrival un-does a void already shown.
- *A claim can change balances* (ADR-0001, rule 7). Aliases merge membership
  timelines before ops are authorized; a guest's departure becomes the claimer's.
- *An exchange can hang* (reconcile.rs:50, "the exchange quiesces"). Both sides
  write their delta before they read the other's.
- *Clocks do not hear of received ops* (ADR-0001: "On receive: advance the local
  clock"). An edit on a device that is behind loses to the edit it was based on.

Not given a run of their own, but met while modelling and worth a reader's
attention:

- Once a claim makes the two ends of a settlement the same person, `pairwise_with`
  (balance.rs:125) and `my_net_by_group` count it where `net_balances` cancels
  it, so that the sum of balance.rs:93-94 is off. `create_settlement` rejects such
  settlements only when they are recorded. A history of the run `ledgers` has one:
  `PairwiseReconciles` speaks of what other people owe, and `GroupsReconcile` of
  groups without one.
- `HlcGenerator` repeats readings when its process is restarted after its clock
  was set back; equal readings make the fold depend on the order of its slice.
  `OwnOpsInOrder` and `DistinctHlcs` assume that this did not happen.
- `convert` (currency.rs:42) cuts its 128-bit product to 64 bits without a check,
  and the sum of the payments in `build_fields` (app.rs:594) is unchecked, in a
  release profile without overflow checks. `ConvertedToNearest` and
  `NothingValidRefused` are about amounts that fit. An exact value half a cent
  above the largest amount is rounded up, and so wraps as well.
- `net_balances` subtracts shares from payments with checked arithmetic. Exact
  shares may be negative, so that an expense that was accepted can leave somebody
  a balance beyond 64 bits and panic whenever it is read. `Entry` computes the
  balances without this panic (`Net`); `NothingValidRefused` is about entering.
- An append whose commit failed but was durable is answered `Duplicate` when it
  is retried (the store has the op), while the materializer has it only after the
  repository is reopened. `ReadYourWrites` speaks of ops answered `Stored`, and
  `NothingUnseen` of what was shown or so answered.
- Editing an expense with exact amounts or shares divides it anew in equal parts
  and drops the original amount and the notes; a single payer who has left the
  group is replaced by its first member, and several payers of whom one has left
  cannot be saved. `KeptByEditing` states what is kept; query.rs:61-62 says the
  view carries enough "to pre-fill the edit form".
- `authorize_device` and `revoke_device` (app.rs:449-465) sign for any key that
  is entered, and `collect_devices` (authorize.rs:90-111) takes whatever an
  identity signed itself: the latest certificate of a device decides whose it is,
  and anybody's revocation cuts it off. ADR-0005 has the root authorise "its *own*
  devices", and the code cannot tell which those are. A device that another
  identity certified later than its owner goes on, since `ensure_device_authorized`
  (app.rs:47) asks only whether it is enrolled: its ops count as that identity's,
  while the guards of its commands go on asking for the one it was opened with
  (app.rs:505). So what it accepts in a group may never count, and the creator of
  a group whose commits were lost in part may be out of it. A certificate of its
  owner, later than the other one, restores it. `OwnOpsAreMine` says who a
  device's ops are attributed to with this exception, and `FounderKeepsGroup` and
  `AcceptedCounts` speak of devices that are shown as their owner's
  (`InStanding`); the pasts of `engine` and its commands have such certificates,
  and all three fail without the exception.
- `create_group` and `set_my_name` commit several ops and do not
  undo the first ones on an error. Re-issuing a `DeclareFriend` is a new op, since
  an op's id covers its reading, where the comment at app.rs:103 says it is a
  deduplicated no-op.
- Membership is asked of the raw user id while members are resolved, so a user
  whose id lost in an alias is refused in his groups (app.rs:505), and screens
  compare raw ids, so a claimed guest's rows do not show as one's own.
- A crash inside a change of the PIN leaves lock and root under different PINs,
  or, between salt and hash, a lock that no PIN opens (account_screen.dart:150-152
  says they "stay in sync"). `InSync` excludes changes that were cut short.
- `simplify_debts` is greedy, so "as few transfers as possible" (debt.rs:24) is
  true only of its bound n - 1.
- An error of the store during an exchange is not reported: `OkMeansCaughtUp` is
  checked and proved with `StoreErrors = FALSE`.

## Proofs

Proved by TLAPS for every value of the constants:

| theorem | says | assumes |
|---|---|---|
| `MaterializeProofs!TypeCorrect` | the fold visits retained ops only and starts empty | |
| `MaterializeProofs!RegistersCorrect` | mid-fold, every register holds the greatest entitled write | |
| `MaterializeProofs!ViewConverges` | a read model is a function of its op-set | `DistinctHlcs` |
| `MaterializeProofs!Implements` | `Materialize` implements `Ledger` | `DistinctHlcs` |
| `RepositoryProofs!TypeCorrect`, `Durable`, `Fresh` | no verified op shown or acknowledged is lost, no read is stale | |
| `RepositoryProofs!Implements` | `Repository` implements `Ledger` across crashes | |
| `RepositoryProofs!ServedBooksAgree` | what a repository serves has the properties of `Accounts`: zero sum, agreeing views and screens, admissions, names, merges | those of `Accounts`, of the ops not tampered with |
| `RepositoryProofs!ServedPastIsKept` | and `ContextsAgree` and `RemovalPreservesPast` | the same, `DistinctHlcs` |
| `SyncProofs!TypeCorrect` | sessions and frames are well formed | `SyncAssumption` |
| `SyncProofs!Merges` | `Sync` implements `OpSets`, with breaks, crashes and store errors | `SyncAssumption` |
| `SyncProofs!OkIsCaughtUp` | an exchange that returns Ok has brought all its peer held when it opened | `SyncAssumption`, `~StoreErrors` |
| `SyncProofs!StreamStaysInStep` | frames never come apart; a side that returns Ok leaves nothing unread or unsaid in the stream | `SyncAssumption` |
| `SyncProofs!NobodyWaitsInVain` | whoever waits, waits for a peer that is still in the exchange; two wait for each other only in the middle of `Ops` frames longer than the window | `SyncAssumption` |
| `SyncProofs!RoomyStreamsNeverJam` | no two replicas ever wait for each other | `SyncAssumption`, `MaxFrame <= Window` |
| `SyncProofs!NoEndlessExchange` | an exchange begins with a bounded amount of work, which nothing adds to and each step but the last of a side uses up (`EveryStepCounts`) | `SyncAssumption`, finitely many ops |
| `EngineProofs!ReadingsIncrease` | a device's readings increase | no device is both set back and restarted |
| `EngineProofs!EngineIsTyped` | only a running App is in the middle of a command or has the root | `EngineAssumption` and the clock's |
| `EngineProofs!EngineKeepsClock` | `Engine` implements `ClockSpec` | the same |
| `EngineProofs!IssuedInOrder` | what the engine issues on a device is stamped in the order of issue | the same, and no device both set back and restarted |
| `EngineProofs!IssuedOpsAreMine` | every op a device issued is attributed on that device, and to the identity it was opened with unless somebody else has certified the device as well (`OwnOpsAreMine`) | `EngineAssumption`, `PastsAssumption` and the clock's |
| `EngineProofs!CreatorsCanRepair` | on a device shown as its owner's and not revoked, the creator of a group stays in it until somebody is removed, whatever failed (`FounderKeepsGroup`) | the same |
| `EngineProofs!GuardsAgree` | on such a device, what a command accepted counts in its author's ledger (`AcceptedCounts`) | the same |
| `EngineProofs!FrozenContentStays` | no command changes an expense its device has seen locked or closed (`ClosedBooksStay`) | the same |
| `EngineProofs!DevicesKeepBooks` | the ledger a device shows has the properties of `Accounts`: zero sum, agreeing views and screens, admissions, names, merges, and `ContextsAgree` while its ops have readings of their own | the same, `EnteredOK` |
| `EngineProofs!RemovalsKeepPast` | later removals and revocations leave a device's books as they were, while its ops have readings of their own | the same |
| `AccountsProofs!LedgerIsTyped` | a read model holds what ops say and the defaults, its members and friends are people ops name, an alias leads to no other (`TypeOK`) | `KindsAssumption`, `IdsAssumption`, `OpPoolAssumption` |
| `AccountsProofs!NamesAreTheirOwn` | nobody but its owner names a real person (`OwnersNameThemselves`) | `OpPoolAssumption` |
| `AccountsProofs!OthersAdmit` | a member of a group is its founder or was admitted by a live op of somebody else (`NoSelfAdmission`) | the same |
| `AccountsProofs!BoundWhereShown` | an expense or settlement is shown in the context its rights are decided in (`ContextsAgree`) | the same, `DistinctHlcs` |
| `AccountsProofs!RemovalsComeAfter` | later removals and revocations leave the books as they were (`RemovalPreservesPast`) | the same, `DistinctHlcs` |
| `AccountsProofs!MoneyIsKept` | balances sum to zero in every ledger and group (`ZeroSum`) | the same, `AmountsAssumption` |
| `AccountsProofs!ClaimsMoveBalances` | a merge of people adds their balances (`MergesAddUp`) | the same, `IdsAssumption` |
| `AccountsProofs!ListIsScreen`, `DebtsAddUp` | the per-group and the pairwise view add up to the net (`GroupsReconcile`, `PairwiseReconciles`) | the same |
| `AccountsProofs!ScreensTellOneStory` | lists, details, friends and activity agree with the balances (`ScreensAgree`) | the same |
| `EntryProofs!SettlesToTheCent` | the loop of `simplify_debts` ends with everybody settled, in fewer transfers than users (`SettlesEverybody`) | `BalancesAssumption` |
| `EntryProofs!SimplifiedSettles` | so do the transfers that `SimplifyDebts` returns, for any balances that sum to zero | the order of ids |
| `EntryProofs!EntriesSettle` | whatever expense is entered, the balances it leaves are settled (`SettlesEverybody`) | `EntryAssumption`, `MoneyAssumption`, `BalancesAssumption` |
| `EntryProofs!DividesExactly` | the shares of every plan add up to the total (`DivisionIsExact`) | the same |
| `EntryProofs!DividesFairly` | equal shares differ by a cent at most, a weighted one is less than a cent off, who weighs more owes no less (`SharesAreFair`) | the same |
| `EntryProofs!RefusesNothingValid` | a form that adds up is neither refused nor panicked on (`NothingValidRefused`) | the same |
| `EntryProofs!ConvertsToNearest` | a conversion gives the nearest amount that there is in 64 bits (`ConvertedToNearest`) | the same |
| `EntryProofs!EditingKeeps` | an expense reopened and saved as it is keeps its total, its payers and an equal division (`KeptByEditing`) | the same |
| `DeviceProofs!DeviceIsSound` | the inductive invariant of `Device` | `DeviceAssumption` |
| `DeviceProofs!NoKeyIsLost`, `EngineAlwaysOpens`, `LockAndRootInSync`, `SeedSealedAtRest` | the four properties of the run `device` | `DeviceAssumption` |

The arguments.

- *Materialize.* The invariant says of the folder, register by register, that it
  equals what the visited entitled ops leave in an order-free sense
  (`HoldsLastWrites`): the greatest write by clock. One lemma shows that `lww`
  maintains this for one more write and for a repeated one; each action then
  touches one or two registers. With distinct readings the greatest write is
  unique, so when all retained ops are visited the folder is `FolderOf` of the
  entitled ones. The authority is constant during a fold and is `Build` of the
  ops retained when it began; that, too, is part of the invariant.
- *Repository.* `RepositoryInv` places the materializer against the log at each
  step of `append`: it never has what the log lacks, and what is memoized is its
  fold except between `Fold` and `Invalidate`. `ReadYourWrites` and
  `NothingUnseen` follow; neither is inductive alone, since a crash is only
  harmless when the log is ahead of memory. The refinement maps the ledger's ops
  to those loaded, or while closed to those that will be.
- *Sync.* `MergeInv`: every op in an outbox, in flight or in an inbox is held by
  the replica it comes from. Stores only grow, so this survives every step, also
  of replicas that have gone on to other exchanges.
- *Caught up.* That an exchange caught up is known only when its second message
  was heard, long after the peer computed it. `CaughtInv` therefore follows what
  is still to be heard by a replica: of the messages on their way to it and, if
  its peer still talks to it, those in the peer's outbox, an `Ops` brings all
  that is due beyond its present store, and a `Have` names only what the peer
  holds and comes once. It rests on `MergeInv` and on the stores not failing: an
  ingest that fails loses ops that were heard.
- *Frames in step.* `StepsInv` says, for each side, what it has yet to say (a
  `Have`, the `Ops` that answer one, both or nothing, by how far its session is),
  what of that is in its outbox and in the stream, and that a frame cut short is
  the last thing in the stream and the one its writer is in the middle of. A side that is
  done has nothing left to say, so a peer that is done as well has read all of it.
- *Who waits for whom.* `Waits` says that a replica in an exchange has no step
  of `sync` to take, and `JamInv`, on top of `StepsInv`, what keeps it from
  waiting in vain. While its peer is in the exchange, an `Ops` it has not heard is
  in the stream or still to be said; once an `Ops` is in the stream and its writer
  has more to say, all that lies behind its first part belongs to that frame; and
  two that have heard nothing have sent one `Have` between them (`Forthcoming`). Of a
  peer that has left, all that it owed is in the stream (`Provided`). So two that
  read wait for each other never, nor one that reads and one that writes; two that
  write are both writing an `Ops` of which the window's worth is in the stream. With
  `MidFrame`, that a frame being written has parts left, a window as large as
  the largest frame leaves none: the hang of `small_window` is the only one there
  is.
- *No endless exchange.* `Work` weighs what an exchange has still to do: the
  messages still to be heard, those waiting to be written, the parts in the stream
  and the ops to be ingested, with weights such that hearing a message is worth
  more than the two answers it may call for, and writing one more than its parts.
  `Numbered` collects the bounds that make it a number. `SpentBy` says that a step
  of one side takes from its own share and leaves the other's alone; it holds also
  of one whose peer has gone on to another exchange. Together with
  `NobodyWaitsInVain` this is all of `Quiesces` but the fairness: somebody in an
  exchange can go on, unless its streams are too small, and that only a bounded
  number of times. That what can go on does is the scheduling's part, and stays
  with `quiesces`.
- *Rules and Accounts.* `LedgerInv` says that the read model is `Project` of a
  finite part of the pool; everything else follows from that. Sums, closures and
  the replay of memberships are reasoned about by induction over a finite set,
  taken as a set: the subsets for which the claim holds contain the empty one and
  are closed under adding an element (`LedgerTheorems`). So: an event of the replay
  is a seed or was granted by an earlier event of its actor; the canonical id of
  a person is the smallest of its component, a real one if there is one; an edge
  list moves as much into a balance as out of it; ops that only revoke or
  remove, all of them later than the rest, leave every right the rest had.
- *From Accounts to its implementations.* `LedgerInv` asks of a ledger only that
  what it shows is the projection of finitely many ops, each of them sound
  (`Sound`: numbers for readings and ids, ids of the two forms, an expense in
  balance), so it can be shown of any state that has a ledger in it. In
  `RepositoryProofs` the ledger is what is loaded and the projection last served:
  what is loaded was verified, hence sound, and readers are served more and more
  (`NothingUnseen`). In `EngineProofs` it is what any device (`Reader`) holds and
  shows: `WrittenOK` says what the commands may write, so that every op there is
  was sound when issued. The properties of steps, `MergesAddUp` and
  `RemovalPreservesPast`, carry over since a later ledger has all ops of an earlier
  one. Readings are distinct for a repository by assumption; of a device it is
  said only while its ops have readings of their own, since one that was set back
  and restarted repeats them.
- *SettleUp.* The loop invariant: what was paid and what is left add up to the
  balances, creditors and debtors are disjoint, and both sides sum to the same.
  Each transfer settles its creditor or its debtor, so the number of transfers is
  below the number of users, and the same sum on both sides means that neither
  list outlives the other.
- *Division.* `FoldLeft` of a list is shown to be the sum over its places, a sum
  over a map the one over its keys in order. With `W` the sum of the weights, the
  remainders of the shares rounded down add up to `W` times what is left over,
  and each is below `W`: so fewer cents are left over than there are remainders,
  the loop goes round at most once, and its state after `i` iterations has a closed
  form (`Given`): a cent more for the first `i` in the order of the remainders.
  No one without a remainder gets one, hence no share is a cent off; of two
  people with the same share rounded down the heavier has the larger remainder
  and comes first.
- *Entry.* `EntryInv` says at each phase what was validated, how far the division
  is, and that what was refused was not valid. Amounts that are not negative and
  sum to one that fits never leave the width in passing, so the checked sums of a
  valid form do not panic; this is the only place where the width matters.
  `EditInv` says of an expense that is reopened that the form filled in is valid,
  has its payers, and lists its participants each once in the order of the
  shares: as many of them as there are shares are the participants there were.
  `NetIsBalanced` sums what each is to get, person by person, to zero, and
  `LoopInv` takes over from there.
- *Clock.* Everything a device stamped is at or before the generator's last
  reading or, after a restart, before the system clock (`ReadingsBounded`); a
  clock that is not set back stays ahead of its readings (`ClockIsAhead`).
- *Engine.* Every command commits through `Issue`, which is `Commit` of the
  clock, a failed commit is `Waste`, the arrival of an op is `Receive`, and the
  rest leaves the clock's variables alone. So `ClockInv` holds of the engine, and
  the readings of what it issues increase. `EngineInv` adds that a command in
  progress belongs to an App that runs.
- *The engine's ledgers.* `Issues` gathers, for all commands, which op with which
  content may be issued by whom and what is left to do after it; each command is
  shown once to be one. `AppInv` is what such steps keep. `LedgersOK`: a device
  shows the projection of what it holds, runs only once it is certified, by
  whomever, and all it issued is signed by it or by its owner's root. Whose its ops
  are is for the latest of its certificates: that these are its owner's is not an
  invariant but a condition of the properties (`InStanding`). `FreshOK`: no
  op names an id still to be given out, so that a create is the only one of its
  id. `TodoOK`: what a command has still to do is the user's own key, or concerns
  a group the device has created and from which it knows of no removal; the
  guards of these ops were checked before the ops ahead of them in the command
  were committed. From there each property compares two authorizations, one op
  apart: an op that is no change of names, friends or members leaves the rights
  on all groups and expenses it does not create (`OneRights`, `OneBinding`,
  `OneEntitled`), and a change of members later than all the others is replayed
  last (`OneChange`).
- *Device.* `DeviceInv` has three layers. `Enrolment`: before the public key is
  recorded only a first run can have enrolled the device, with the seed still in
  clear; from then on all keys there are belong to it. `Lockstep`: at each step of
  a procedure, under which PIN the vault is sealed and which PIN the lock takes.
  `InClear`: when the seed may be in clear. None of the four properties is
  inductive alone: that a vault may be deleted depends on the seed being in clear
  at just that step.

The assumptions are about constants, and TLC evaluates each on the runs:

- `SyncAssumption`, `EngineAssumption`, `DeviceAssumption`, `ClockAssumption`: the
  kinds of the parameters, and that a replica can hold an op-set.
- `PastsAssumption`: on earlier days, too, ids
  were given out once, and readings, ids, keys and sites were numbers, the readings
  distinct. Who certified or revoked which device is free.
  `EngineAssumption` includes that no group is called like the absence of one.
- `OpPoolAssumption`: readings and content ids are numbers (only their order is
  used).
- `DistinctHlcs`: no two ops share a reading. It is the clock's promise, for
  readings name their site and a device's readings increase; a theorem that needs
  it has it as a premise.
- `AmountsAssumption`: amounts are integers, and the shares of an expense add up
  to what was paid, which is what `Entry` checks before an op is built.
- `KindsAssumption`: an op has the fields of its kind; keys and sites are numbers.
- `IdsAssumption`: users named in ops have ids of the two forms there are, and no
  group is called like the absence of one.
- `EntryAssumption`, `MoneyAssumption`: a form holds what the types of `ExpenseInput`
  admit (an amount of 64 bits, a rate, lists of users with integers, weights that
  are not negative; a foreign amount has a payer), user ids are ordered, and a
  group has finitely many members. What the form contains is otherwise free.
- `EnteredOK` (a premise, not an assumption): the contents that `Engine` takes for
  expenses are in balance and name users, as `build_fields` sees to (`Entry`), and
  the ops of earlier days are sound.
- `BalancesAssumption`: the argument of `simplify_debts` sums to zero, which
  `MoneyIsKept` shows of the balances it is called with.

Proved, and in no run of their own: `Sync!TypeOK`, and `ViewIsFunctionOfOpSet`,
which the refinement of `Ledger` checked by `materialize` implies.

Left to TLC:

- liveness (`Quiesces`, `Finishes`): fairness and ENABLED are outside what the
  prover supports.

No module uses RECURSIVE.

## Not modelled

- *Exchange-rate requests*: an HTTP request and a cache of its answer. `Entry`
  takes any rate.
- *Generated bindings, platform runners*: no logic of their own.
- *The remaining screens and providers*: they call the engine and render its
  views.
- *Pairing and key agreement* of splittr-crypto: no command of the engine uses
  them.
- *Recovery from a poisoned mutex*: a command that panics changed no state.
- *Encodings*: an id is a value rather than the digest of bytes, a frame a number
  of parts.
- *A device without a keystore*: no PIN can be set on it (the write throws), and
  where there is one the log's key is never sealed, so `PinSealedKey` is modelled
  for the root seed only. A keystore that fails to be read for a moment looks
  like a fresh install; `Device` assumes one that answers.
- *A tap during a procedure of the account screen*: its writes take a moment, and
  are taken to be done, or the process to have ended, before the next procedure.
- *A widget disposed during a procedure*: the rest of the procedure is then given
  up in a process that goes on. `Device` cuts procedures short only by the end of
  the process.
- *The device's own signing seed*: it is created once and never changed.

## What could come next

Oversized deltas (two replicas of which one always gives up never converge, and
no document promises otherwise); a device without a keystore.
