------------------------------- MODULE Engine -------------------------------
(***************************************************************************)
(* The commands of the engine (splittr-app: app.rs, identity.rs; the       *)
(* operations of the FFI's Engine, api.rs) on the devices of several       *)
(* people: each command checks its guard against the device's own read     *)
(* model, takes a clock reading and appends one op, or several in a row.   *)
(* The ops of other devices arrive whenever they do.                       *)
(*                                                                         *)
(* A command that is refused changes nothing and is not a step.  The mutex *)
(* of the FFI's Engine is held as long as todo is not empty.               *)
(***************************************************************************)
EXTENDS Clock, Projection, Signatures, TLC

CONSTANTS
    Owner,          \* per device, the identity key it is opened with
    Pasts,          \* the op-sets all devices may have in common at first
    Forms,          \* the contents an expense may be given (Entry validates)
    Names,          \* what people and groups may be called
    MemberLists,    \* the people a group may be created with, as sequences
    Currencies,
    Closings,       \* the ends an accounting period may be given
    Guests,         \* ids of guests that people may know of
    Keys,           \* what may be entered as the key of a device
    Invites,        \* what may be pasted as an invite
    Most(_),        \* bound: the ops issued on top of a past,
    Kinds(_)        \* bound: and their kinds

ASSUME EngineAssumption ==
    /\ Sites \subseteq Nat /\ IsFiniteSet(Sites)
    /\ Owner \in [Sites -> Nat]
    /\ Guests \subseteq {"id", "user"} \X Nat
    /\ MemberLists \subseteq Seq({"id", "user"} \X Nat)
    /\ Closings \subseteq Nat
    /\ Keys \subseteq Nat
    /\ NoGroup \notin {"group"} \X Nat

VARIABLES
    past,           \* the ops every device has from earlier days
    issued,         \* the ops of `stamped', in the same order
    view,           \* per device, the read model of its op-set (repo.cached)
    open,           \* per device, whether an App runs
    root,           \* per device, whether the root key is unlocked
    todo            \* per device, what the running command still commits

appVars == <<past, issued, view, open, root, todo>>
vars == <<clockVars, appVars>>

Held(d) == past \cup {issued[i] : i \in log[d]}

(* Readings as positions in the total order, all later than the past.      *)
PastBound == 100
Rank(hlc, s) ==
    PastBound + (hlc.wall_ms * (MaxOps + 1) + hlc.counter) * (Max(Sites) + 1) + s

Me(d) == UserIdFor(Owner[d])

(* Ids are fresh UUIDs.                                                    *)
Fresh(prefix) == <<prefix, PastBound + Len(issued)>>

(* What the devices have in common they issued on earlier days: the keys   *)
(* and ids are of their types, and no id is issued twice.  Who certified   *)
(* which device is left open, as the code does.                            *)
ASSUME PastsAssumption == \A S \in Pasts :
    /\ IsFiniteSet(S)
    /\ \A o, p \in S : o.hlc = p.hlc => o = p
    /\ \A op \in S :
        /\ op.hlc \in Nat /\ op.id \in Nat
        /\ op.kind = "AuthorizeDevice" /\ op.author = op.identity =>
              op.identity \in Nat /\ op.site \in Nat
        /\ op.kind = "AddAlias" => {op.alias, op.canonical} \subseteq {"id", "user"} \X Nat
        /\ op.kind = "SetClosedPeriod" => op.until_ms \in Nat
        /\ op.kind \in {"CreateGroup", "SetMembership", "CreateExpense", "RecordSettlement"} =>
              op.group \notin {"group"} \X {n \in Nat : n >= PastBound}
        /\ op.kind = "CreateExpense" =>
              op.expense \notin {"expense"} \X {n \in Nat : n >= PastBound}

Enrolled(d, model) == d \in DOMAIN model.devices

Init ==
    /\ ClockInit
    /\ past \in Pasts
    /\ issued = <<>>
    /\ view = [d \in Sites |-> Project(past)]
    /\ open = [d \in Sites |-> Enrolled(d, view[d])]
    /\ root = [d \in Sites |-> FALSE]
    /\ todo = [d \in Sites |-> <<>>]

-----------------------------------------------------------------------------
OpOf(id, hlc, author, content) ==
    [field \in {"id", "hlc", "author"} \cup DOMAIN content |->
        CASE field = "id" -> id [] field = "hlc" -> hlc [] field = "author" -> author
          [] OTHER -> content[field]]

(* commit_signed: a reading, a signature by the device key or the root     *)
(* key, and an append, after which the read model shows the op.            *)
Issue(d, author, content) ==
    LET hlc == Advance(last[d], wall[d])
        op == OpOf(1000 - Len(issued), Rank(hlc, d), author, content)
    IN  /\ content.kind \in Kinds(past) /\ Len(issued) < Most(past)
        /\ Commit(d)
        /\ issued' = Append(issued, op)
        /\ view' = [view EXCEPT ![d] = Project(Held(d) \cup {op})]

(* A command commits the first of its ops and has the others to do.        *)
Command(d, contents) ==
    /\ open[d] /\ todo[d] = <<>>
    /\ Issue(d, d, Head(contents))
    /\ todo' = [todo EXCEPT ![d] = Tail(contents)]
    /\ UNCHANGED <<past, open, root>>

AsRoot(d, content) ==
    /\ open[d] /\ todo[d] = <<>> /\ root[d]
    /\ Issue(d, Owner[d], content)
    /\ UNCHANGED <<past, open, root, todo>>

\* (mutated form: that the group exists is enough)
GroupExists(d, g) == g \in DOMAIN view[d].groups

RequireMember(d, g) == g \in DOMAIN view[d].groups /\ Me(d) \in view[d].groups[g].members

ClosedUntil(d, e) ==
    LET g == view[d].expenses[e].group
    IN  IF g \in DOMAIN view[d].groups THEN view[d].groups[g].closed_until_ms ELSE 0

\* (mutated form: the last millisecond of a closed period is open)
InOpenPeriod(d, e) ==
    /\ e \in DOMAIN view[d].expenses
    /\ ~view[d].expenses[e].locked
    /\ ~(ClosedUntil(d, e) > 0 /\ view[d].expenses[e].fields.date_ms < ClosedUntil(d, e))

RequireEditable(d, e) ==
    /\ e \in DOMAIN view[d].expenses
    /\ ~view[d].expenses[e].locked
    /\ ~(ClosedUntil(d, e) > 0 /\ view[d].expenses[e].fields.date_ms <= ClosedUntil(d, e))

(* The later ops of a command.  The currency of a new group is set by a    *)
(* command of its own behind the same lock, which may be refused.          *)
Continue(d) ==
    /\ todo[d] # <<>>
    /\ LET op == Head(todo[d])
       IN  IF op.kind = "SetGroupCurrency" /\ ~RequireMember(d, op.group)
           THEN todo' = [todo EXCEPT ![d] = <<>>] /\ UNCHANGED <<clockVars, issued, view>>
           ELSE todo' = [todo EXCEPT ![d] = Tail(@)] /\ Issue(d, d, op)
    /\ UNCHANGED <<past, open, root>>

(* A commit fails, and what the command had still to do is not done.  (An  *)
(* op that needs the root key while it is locked fails in the same way.)   *)
Fail(d) ==
    /\ open[d]
    /\ Waste(d)
    /\ todo' = [todo EXCEPT ![d] = <<>>]
    /\ UNCHANGED <<past, issued, view, open, root>>

-----------------------------------------------------------------------------
(* Opening: with both seeds, or device-only with the root locked.  Only an *)
(* unlocked root can certify a device that is not enrolled yet.            *)
Certificate(d) ==
    [kind |-> "AuthorizeDevice", identity |-> Owner[d], device |-> d, site |-> d]

\* (mutated form: a locked device is certified some other time)
CertifyIfUnlocked(d, unlocked) ==
    IF Enrolled(d, view[d]) \/ ~unlocked
    THEN UNCHANGED <<clockVars, issued, view>>
    ELSE Issue(d, Owner[d], Certificate(d))

EnsureDeviceAuthorized(d, unlocked) ==
    IF Enrolled(d, view[d])
    THEN UNCHANGED <<clockVars, issued, view>>
    ELSE unlocked /\ Issue(d, Owner[d], Certificate(d))

OpenApp(d, unlocked) ==
    /\ ~open[d]
    /\ EnsureDeviceAuthorized(d, unlocked)
    /\ open' = [open EXCEPT ![d] = TRUE]
    /\ root' = [root EXCEPT ![d] = unlocked]
    /\ UNCHANGED <<past, todo>>

(* The seed given must be the one of the identity the App was opened with. *)
Unlocks(d, seed) == seed = Owner[d]

UnlockRoot(d, seed) ==
    /\ open[d] /\ todo[d] = <<>> /\ ~root[d]
    /\ Unlocks(d, seed)
    /\ root' = [root EXCEPT ![d] = TRUE]
    /\ UNCHANGED <<clockVars, past, issued, view, open, todo>>

LockRoot(d) ==
    /\ open[d] /\ todo[d] = <<>> /\ root[d]
    /\ root' = [root EXCEPT ![d] = FALSE]
    /\ UNCHANGED <<clockVars, past, issued, view, open, todo>>

\* (mutated form: what was to do is done after the restart)
CrashAndResume(d) ==
    /\ Restart(d)
    /\ open' = [open EXCEPT ![d] = FALSE]
    /\ root' = [root EXCEPT ![d] = FALSE]
    /\ UNCHANGED <<past, issued, view, todo>>

(* The process ends, perhaps in the middle of a command, and the store is  *)
(* read again by the next one.                                             *)
CrashApp(d) ==
    /\ Restart(d)
    /\ open' = [open EXCEPT ![d] = FALSE]
    /\ root' = [root EXCEPT ![d] = FALSE]
    /\ todo' = [todo EXCEPT ![d] = <<>>]
    /\ UNCHANGED <<past, issued, view>>

(* An op of another device is ingested, between two commands.              *)
Ingest(d, i) ==
    /\ open[d] /\ todo[d] = <<>>
    /\ Receive(d, i)
    /\ view' = [view EXCEPT ![d] = Project(Held(d) \cup {issued[i]})]
    /\ UNCHANGED <<past, issued, open, root, todo>>

TimePasses(d) == Tick(d) /\ UNCHANGED appVars

-----------------------------------------------------------------------------
(* Profiles and people *)

SetMyName(d, name) ==
    Command(d, <<[kind |-> "UpsertProfile", user |-> Me(d), name |-> name]>>
        \o IF root[d] THEN <<[kind |-> "SetAgreementKey", user |-> Me(d), key |-> Owner[d]]>>
           ELSE <<>>)

AddPerson(d, name) ==
    Command(d, <<[kind |-> "UpsertProfile", user |-> Fresh("user"), name |-> name]>>)

AddAlias(d, alias, canonical) ==
    /\ alias # canonical
    /\ Command(d, <<[kind |-> "AddAlias", alias |-> alias, canonical |-> canonical]>>)

ClaimPerson(d, placeholder) == AddAlias(d, placeholder, Me(d))

MergePeople(d, duplicate, keep) == AddAlias(d, duplicate, keep)

AddFriend(d, other) ==
    /\ other # Me(d)
    /\ Command(d, <<[kind |-> "DeclareFriend", other |-> other]>>)

(* Invites are signed by the root key, which has to be unlocked, and leave *)
(* no trace: they travel outside of the program.                           *)
FriendContext == <<"friend">>

FriendInvite(identity, nonce, expiry_ms) ==
    CreateInvite(identity, FriendContext, nonce, expiry_ms)

GroupInvite(identity, g, nonce, expiry_ms) == CreateInvite(identity, g, nonce, expiry_ms)

(* A friend invite, valid when it was previewed, becomes a declaration; a  *)
(* group invite can only be looked at.                                     *)
AcceptInvite(d, invite) ==
    /\ \E now_ms \in 0..wall[d] : InviteValid(invite, now_ms)
    /\ invite.context = FriendContext
    /\ AddFriend(d, UserIdFor(invite.inviter))

-----------------------------------------------------------------------------
(* Groups *)

SetMembership(g, user, member) ==
    [kind |-> "SetMembership", group |-> g, user |-> user, member |-> member]

SetGroupCurrency(g, currency) ==
    [kind |-> "SetGroupCurrency", group |-> g, currency |-> currency]

(* The group, its creator, its other members, and a currency that is not   *)
(* the default.                                                            *)
CreateGroup(d, name, members, currency) ==
    LET g == Fresh("group")
    IN  Command(d, <<[kind |-> "CreateGroup", group |-> g, name |-> name],
                     SetMembership(g, Me(d), TRUE)>>
            \o [i \in DOMAIN members |-> SetMembership(g, members[i], TRUE)]
            \o IF currency # DefaultCurrency THEN <<SetGroupCurrency(g, currency)>> ELSE <<>>)

RenameGroup(d, g, name) ==
    /\ RequireMember(d, g)
    /\ Command(d, <<[kind |-> "SetGroupName", group |-> g, name |-> name]>>)

ChangeCurrency(d, g, currency) ==
    /\ RequireMember(d, g)
    /\ Command(d, <<SetGroupCurrency(g, currency)>>)

AddMember(d, g, user) ==
    /\ RequireMember(d, g)
    /\ Command(d, <<SetMembership(g, user, TRUE)>>)

RemoveMember(d, g, user) ==
    /\ RequireMember(d, g)
    /\ Command(d, <<SetMembership(g, user, FALSE)>>)

SetClosedPeriod(d, g, until_ms) ==
    /\ RequireMember(d, g)
    /\ Command(d, <<[kind |-> "SetClosedPeriod", group |-> g, until_ms |-> until_ms]>>)

-----------------------------------------------------------------------------
(* Expenses *)

AddExpense(d, g, fields, draft) ==
    /\ g = NoGroup \/ RequireMember(d, g)
    /\ Command(d, <<[kind |-> "CreateExpense", expense |-> Fresh("expense"), group |-> g,
                     fields |-> fields, draft |-> draft]>>)

EditExpense(d, e, fields) ==
    /\ RequireEditable(d, e)
    /\ Command(d, <<[kind |-> "EditExpense", expense |-> e, fields |-> fields]>>)

DeleteExpense(d, e) ==
    /\ RequireEditable(d, e)
    /\ Command(d, <<[kind |-> "VoidExpense", expense |-> e]>>)

PublishExpense(d, e) ==
    /\ e \in DOMAIN view[d].expenses
    /\ Command(d, <<[kind |-> "PublishExpense", expense |-> e]>>)

SetExpenseLock(d, e, locked) ==
    /\ e \in DOMAIN view[d].expenses
    /\ \/ view[d].expenses[e].group = NoGroup
       \/ RequireMember(d, view[d].expenses[e].group)
    /\ Command(d, <<[kind |-> "SetExpenseLock", expense |-> e, locked |-> locked]>>)

LockExpense(d, e)   == SetExpenseLock(d, e, TRUE)
UnlockExpense(d, e) == SetExpenseLock(d, e, FALSE)

-----------------------------------------------------------------------------
(* Settlements: the two ends must be two people, under whatever ids.       *)

Canonical(d, user) ==
    IF user \in DOMAIN view[d].aliases THEN view[d].aliases[user] ELSE user

RecordSettlement(d, g, from, to, amount) ==
    /\ g = NoGroup \/ RequireMember(d, g)
    /\ Canonical(d, from) # Canonical(d, to)
    /\ amount > 0
    /\ Command(d, <<[kind |-> "RecordSettlement", settlement |-> Fresh("settlement"),
                     group |-> g, from |-> from, to |-> to, amount |-> amount]>>)

DeleteSettlement(d, s) ==
    Command(d, <<[kind |-> "VoidSettlement", settlement |-> s]>>)

-----------------------------------------------------------------------------
(* Devices: nothing asks whose the device is.                              *)

AuthorizeDevice(d, device, site) ==
    AsRoot(d, [kind |-> "AuthorizeDevice", identity |-> Owner[d],
               device |-> device, site |-> site])

RevokeDevice(d, device) ==
    AsRoot(d, [kind |-> "RevokeDevice", identity |-> Owner[d], device |-> device])

-----------------------------------------------------------------------------
(* What the user of a device may ask for, section by section of api.rs.    *)

People == {UserIdFor(Owner[d]) : d \in Sites} \cup Guests
Groups(d) == DOMAIN view[d].groups
Expenses(d) == DOMAIN view[d].expenses

ProfileCommands(d) ==
    \/ \E name \in Names : SetMyName(d, name) \/ AddPerson(d, name)
    \/ \E user \in Guests : ClaimPerson(d, user)
    \/ \E user, keep \in People : MergePeople(d, user, keep)

FriendCommands(d) ==
    \/ \E user \in People : AddFriend(d, user)
    \/ \E invite \in Invites : AcceptInvite(d, invite)

GroupCommands(d) ==
    \/ \E name \in Names, members \in MemberLists, currency \in Currencies :
          CreateGroup(d, name, members, currency)
    \/ \E g \in Groups(d), name \in Names : RenameGroup(d, g, name)
    \/ \E g \in Groups(d), currency \in Currencies : ChangeCurrency(d, g, currency)
    \/ \E g \in Groups(d), user \in People : AddMember(d, g, user) \/ RemoveMember(d, g, user)
    \/ \E g \in Groups(d), until_ms \in Closings : SetClosedPeriod(d, g, until_ms)

ExpenseCommands(d) ==
    \/ \E g \in Groups(d) \cup {NoGroup}, fields \in Forms, draft \in BOOLEAN :
          AddExpense(d, g, fields, draft)
    \/ \E e \in Expenses(d), fields \in Forms : EditExpense(d, e, fields)
    \/ \E e \in Expenses(d) : DeleteExpense(d, e) \/ PublishExpense(d, e)
                              \/ LockExpense(d, e) \/ UnlockExpense(d, e)

SettlementCommands(d) ==
    \/ \E g \in Groups(d) \cup {NoGroup}, from, to \in People, amount \in 0..1 :
          RecordSettlement(d, g, from, to, amount)
    \/ \E s \in DOMAIN view[d].settlements : DeleteSettlement(d, s)

DeviceCommands(d) ==
    \E device \in Keys :
        \/ \E site \in Sites : AuthorizeDevice(d, device, site)
        \/ RevokeDevice(d, device)

Lifecycle(d) ==
    \/ \E unlocked \in BOOLEAN : OpenApp(d, unlocked)
    \/ \E seed \in Range(Owner) : UnlockRoot(d, seed)
    \/ LockRoot(d)
    \/ CrashApp(d)

Next ==
    \E d \in Sites :
        \/ Lifecycle(d)
        \/ ProfileCommands(d) \/ FriendCommands(d) \/ GroupCommands(d)
        \/ ExpenseCommands(d) \/ SettlementCommands(d) \/ DeviceCommands(d)
        \/ Continue(d) \/ Fail(d)
        \/ \E i \in 1..Len(issued) : Ingest(d, i)
        \/ TimePasses(d)

Spec == Init /\ [][Next]_vars

-----------------------------------------------------------------------------
(* Only a running App is in the middle of a command or has the root key,   *)
(* and it knows the ops it has.                                            *)
TypeOK ==
    /\ Len(issued) = Len(stamped)
    /\ \A d \in Sites :
          /\ todo[d] # <<>> \/ root[d] => open[d]
          /\ log[d] \subseteq DOMAIN issued

(* Who signed a certificate of d that d has.                               *)
Certifiers(d) ==
    {c.identity : c \in {op \in SelfSigned(Held(d), "AuthorizeDevice") : op.device = d}}

(* Everything a device issued is attributed on that device itself: its     *)
(* certificate comes before its ops.  It is attributed to the identity the *)
(* device was opened with, except where somebody else has certified the    *)
(* device as well, when the latest certificate decides.                    *)
OwnOpsAreMine ==
    \A d \in Sites : \A i \in log[d] :
        stamped[i].site = d =>
            \/ issued[i].author = Owner[d]
            \/ /\ issued[i].author = d
               /\ Enrolled(d, view[d])
               /\ Certifiers(d) \subseteq {Owner[d]} => view[d].devices[d].identity = Owner[d]

(* What a step issues on d.                                                *)
NewOps(d) == {issued'[i] : i \in {j \in DOMAIN issued' \ DOMAIN issued : stamped'[j].site = d}}

Timely(d, op)  == \A p \in Held(d) : p.hlc < op.hlc

(* The device is shown as its owner's, and as not revoked: nobody else     *)
(* certified it later than the owner did.                                  *)
InStanding(d) ==
    /\ Enrolled(d, view[d])
    /\ view[d].devices[d].identity = Owner[d]
    /\ ~view[d].devices[d].revoked

(* What is guarded by membership, and what only concerns the user.         *)
Guarded(d, op) ==
    \/ op.kind \in {"CreateGroup", "SetGroupName", "SetGroupCurrency", "SetClosedPeriod",
                    "SetMembership", "SetAgreementKey"}
    \/ op.kind = "UpsertProfile" /\ op.user = Me(d)
    \/ op.kind \in {"CreateExpense", "RecordSettlement"} /\ op.group # NoGroup
    \/ op.kind = "SetExpenseLock" /\ view[d].expenses[op.expense].group # NoGroup

Counts(auth, op) ==
    IF op.kind = "SetMembership"
    THEN \E event \in auth.membership : event.at = OrderOf(op)
    ELSE Entitled(auth, op)

(* The guards of the commands and the authorization of ops, written apart  *)
(* from each other, agree: what the engine of a device in standing accepts *)
(* in a group counts in its author's own ledger, unless its clock is       *)
(* behind an op it has received.  (The guards ask for the identity opened, *)
(* the authorization for that of the latest certificate.)                  *)
AcceptedCounts ==
    [][\A d \in Sites : \A op \in NewOps(d) :
          Guarded(d, op) /\ Timely(d, op) /\ InStanding(d) => Counts(Build(Held(d)'), op)]_vars

(* However many of its commits were lost, a group that was created can be  *)
(* repaired by its creator, on a device in standing: he is in it until     *)
(* somebody is removed from it.                                            *)
FounderKeepsGroup ==
    \A d \in Sites : \A i \in log[d] :
        /\ stamped[i].site = d /\ issued[i].kind = "CreateGroup"
        /\ InStanding(d) /\ Me(d) \notin DOMAIN view[d].aliases
        /\ \A op \in OfKind(Held(d), "SetMembership") : op.group = issued[i].group => op.member
        => RequireMember(d, issued[i].group)

(* Commands leave the content of what their device shows as locked, or     *)
(* closed up to and including the last millisecond, as it is, unless they  *)
(* change who is who.                                                      *)
Frozen(d, e) ==
    \/ view[d].expenses[e].locked
    \/ ClosedUntil(d, e) # 0 /\ view[d].expenses[e].fields.date_ms <= ClosedUntil(d, e)

WhoIsWho == {"SetMembership", "AddAlias", "DeclareFriend", "AuthorizeDevice", "RevokeDevice"}

ClosedBooksStay ==
    [][\A d \in Sites : \A op \in NewOps(d) : op.kind \notin WhoIsWho =>
          \A e \in Expenses(d) : Frozen(d, e) =>
              /\ e \in Expenses(d)'
              /\ view'[d].expenses[e].fields = view[d].expenses[e].fields]_vars
=============================================================================
