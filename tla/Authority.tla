----------------------------- MODULE Authority -----------------------------
(***************************************************************************)
(* Who may do what, derived from the whole op-set                          *)
(* (splittr-crdt/src/authorize.rs).  Build(S) is Authority::build over the *)
(* ops S; Entitled(auth, op) decides whether op may reach the value fold.  *)
(* Everything is an operator on sets of ops: the code's passes over an     *)
(* iterator compute maxima, minima, closures and one replay in (HLC, id)   *)
(* order.                                                                  *)
(***************************************************************************)
EXTENDS Ops, FiniteSetsExt

OfKind(S, kind) == {op \in S : op.kind = kind}

-----------------------------------------------------------------------------
(* Devices *)

(* Root-only enrolment: a certificate or a revocation counts only when the *)
(* identity itself signed it.                                              *)
SelfSigned(S, kind) == {op \in OfKind(S, kind) : op.author = op.identity}

(* The order of the tuples (hlc, identity, site) competing for a device.   *)
CertAtOrBefore(c, d) ==
    \/ c.hlc < d.hlc
    \/ c.hlc = d.hlc /\ c.identity < d.identity
    \/ c.hlc = d.hlc /\ c.identity = d.identity /\ c.site <= d.site

CollectDevices(S) ==
    LET certs   == SelfSigned(S, "AuthorizeDevice")
        revokes == SelfSigned(S, "RevokeDevice")
        For(O, d) == {op \in O : op.device = d}
    IN  [authorized |-> [d \in {op.device : op \in certs} |->
             LET cands == {[hlc |-> op.hlc, identity |-> op.identity, site |-> op.site]
                               : op \in For(certs, d)}
             IN  CHOOSE c \in cands : \A e \in cands : CertAtOrBefore(e, c)],
         revoked |-> [d \in {op.device : op \in revokes} |->
             Min({op.hlc : op \in For(revokes, d)})]]

IdentityOf(devices, key) ==
    IF key \in DOMAIN devices.authorized THEN devices.authorized[key].identity ELSE key

\* (mutated form: a revocation reaches back)
RevokedEver(devices, op) == op.author \in DOMAIN devices.revoked

RevokedAt(devices, op) ==
    /\ op.author \in DOMAIN devices.revoked
    /\ op.hlc >= devices.revoked[op.author]

-----------------------------------------------------------------------------
(* Aliases *)

AliasAuthorized(raw, alias, canonical) ==
    \/ raw \in {alias, canonical}
    \/ IsPlaceholder(alias) /\ IsPlaceholder(canonical)

(* The connected component of u in the undirected graph of the edges.      *)
Component(edges, u) ==
    LET nodes == UNION {{e[1], e[2]} : e \in edges}
        Closed(C) == \A e \in edges : e[1] \in C <=> e[2] \in C
    IN  {v \in nodes : \A C \in SUBSET nodes : u \in C /\ Closed(C) => v \in C}

\* (mutated form: an alias follows one edge only)
ResolveOneHop(edges) ==
    LET nodes == UNION {{e[1], e[2]} : e \in edges}
        nearest == [u \in nodes |->
            SmallestUser({u} \cup {v \in nodes : <<u, v>> \in edges \/ <<v, u>> \in edges})]
    IN  [u \in {v \in nodes : nearest[v] # v} |-> nearest[u]]

(* Each component collapses to its smallest id; the canonical id itself    *)
(* gets no entry.                                                          *)
ResolveAliases(edges) ==
    LET nodes == UNION {{e[1], e[2]} : e \in edges}
        canon == [u \in nodes |-> SmallestUser(Component(edges, u))]
    IN  [u \in {v \in nodes : canon[v] # v} |-> canon[u]]

Resolve(auth, user) ==
    IF user \in DOMAIN auth.aliases THEN auth.aliases[user] ELSE user

RawActor(devices, op) == UserIdFor(IdentityOf(devices, op.author))
Actor(auth, op)       == Resolve(auth, RawActor(auth.devices, op))

-----------------------------------------------------------------------------
(* Friendship and membership *)

IsFriend(auth, a, b) == <<a, b>> \in auth.friend_decls /\ <<b, a>> \in auth.friend_decls

FriendOpOk(auth, actor, parties) ==
    /\ actor \in parties
    /\ \A p \in parties : p = actor \/ IsPlaceholder(p) \/ IsFriend(auth, actor, p)

\* (mutated form: the latest event decides for all time)
IsMemberNow(membership, group, user, at) ==
    LET events == {e \in membership : e.group = group /\ e.user = user}
    IN  \E e \in events : e.member /\ \A f \in events : AtOrBefore(f.at, e.at)

(* membership is the set of authorized events [group, user, at, member];   *)
(* the latest event at or before an order decides.                         *)
IsMemberAsOf(membership, group, user, at) ==
    LET past == {e \in membership : e.group = group /\ e.user = user /\ AtOrBefore(e.at, at)}
    IN  \E e \in past : e.member /\ \A f \in past : AtOrBefore(f.at, e.at)

CurrentMembers(auth, group) ==
    LET events == {e \in auth.membership : e.group = group}
    IN  {u \in {e.user : e \in events} :
            \E e \in events : /\ e.user = u /\ e.member
                              /\ \A f \in events : f.user = u => AtOrBefore(f.at, e.at)}

PartiesOf(auth, users) == {Resolve(auth, u) : u \in users}

(* Whether a creating op is authorized in the context it names.            *)
MayCreate(auth, op, users) ==
    IF op.group = NoGroup
    THEN FriendOpOk(auth, Actor(auth, op), PartiesOf(auth, users))
    ELSE IsMemberAsOf(auth.membership, op.group, Actor(auth, op), OrderOf(op))

Users(op) == IF op.kind = "CreateExpense" THEN FieldUsers(op.fields) ELSE {op.from, op.to}

-----------------------------------------------------------------------------
(* Authority::build *)

FriendDecls(auth, live) ==
    {d \in {<<Actor(auth, op), Resolve(auth, op.other)>> : op \in OfKind(live, "DeclareFriend")} :
        d[1] # d[2]}

Founders(auth, live) ==
    LET creates == OfKind(live, "CreateGroup")
    IN  [g \in {op.group : op \in creates} |->
            Actor(auth, Earliest({op \in creates : op.group = g}))]

\* (mutated form: anybody may change a membership)
MembershipUnchecked(auth, founders, live) ==
    {[group |-> g, user |-> founders[g], at |-> MinOrder, member |-> TRUE]
        : g \in DOMAIN founders}
    \cup {[group |-> op.group, user |-> Resolve(auth, op.user), at |-> OrderOf(op),
           member |-> op.member] : op \in OfKind(live, "SetMembership")}

\* (mutated form: a founder is no member of his own right)
MembershipUnseeded(auth, founders, live) ==
    {[group |-> op.group, user |-> Resolve(auth, op.user), at |-> OrderOf(op),
      member |-> op.member] : op \in {p \in OfKind(live, "SetMembership") :
                                         founders[p.group] # Actor(auth, p)}}

(* Stage 3: replay the membership changes, earliest first; one whose actor *)
(* is a member by then becomes an event.                                   *)
Membership(auth, founders, live) ==
    LET seeds == {[group |-> g, user |-> founders[g], at |-> MinOrder, member |-> TRUE]
                      : g \in DOMAIN founders}
        Replay(op, events) ==
            IF IsMemberAsOf(events, op.group, Actor(auth, op), OrderOf(op))
            THEN events \cup {[group |-> op.group, user |-> Resolve(auth, op.user),
                               at |-> OrderOf(op), member |-> op.member]}
            ELSE events
    IN  MapThenFoldSet(Replay, seeds, LAMBDA op : op, Latest, OfKind(live, "SetMembership"))

\* (mutated form: the first authorized create binds)
FirstCreate(creates) == Earliest(creates)

(* Of an entity's authorized creates the one with the greatest HLC binds,  *)
(* the first in id order of equal ones.                                    *)
BindingCreate(creates) ==
    CHOOSE op \in creates : \A other \in creates :
        \/ other.hlc < op.hlc
        \/ other.hlc = op.hlc /\ other.id >= op.id

(* Stage 4: the context of each expense or settlement is that of its       *)
(* binding create.                                                         *)
Bindings(auth, live, kind, Entity(_)) ==
    LET creates == {op \in OfKind(live, kind) : MayCreate(auth, op, Users(op))}
        Winner(e) == BindingCreate({op \in creates : Entity(op) = e})
    IN  [e \in {Entity(op) : op \in creates} |->
            [group |-> Winner(e).group, parties |-> PartiesOf(auth, Users(Winner(e)))]]

(* The stages, each over what the earlier ones found.                      *)
Identities(devices, live) ==
    [devices |-> devices,
     aliases |-> ResolveAliases(
         {<<op.alias, op.canonical>> : op \in {o \in OfKind(live, "AddAlias") :
             AliasAuthorized(RawActor(devices, o), o.alias, o.canonical)}})]

Grants(who, founders, live) ==
    [devices      |-> who.devices,
     aliases      |-> who.aliases,
     founders     |-> founders,
     friend_decls |-> FriendDecls(who, live),
     membership   |-> Membership(who, founders, live)]

Contexts(rights, live) ==
    [devices      |-> rights.devices,
     aliases      |-> rights.aliases,
     founders     |-> rights.founders,
     friend_decls |-> rights.friend_decls,
     membership   |-> rights.membership,
     expenses     |-> Bindings(rights, live, "CreateExpense", LAMBDA op : op.expense),
     settlements  |-> Bindings(rights, live, "RecordSettlement", LAMBDA op : op.settlement)]

Staged(who, live) == Contexts(Grants(who, Founders(who, live), live), live)

Standing(S, devices) == {op \in S : ~RevokedAt(devices, op)}

FromDevices(devices, live) == Staged(Identities(devices, live), live)

Build(S) ==
    LET devices == CollectDevices(S)
    IN  FromDevices(devices, Standing(S, devices))

-----------------------------------------------------------------------------
(* Authority::entitled *)

(* expense_entitled / settlement_entitled: an op on an entity acts in the  *)
(* context of its authorized create.                                       *)
EntityEntitled(auth, bindings, entity, op) ==
    /\ entity \in DOMAIN bindings
    /\ LET bound == bindings[entity]
       IN  IF bound.group = NoGroup
           THEN FriendOpOk(auth, Actor(auth, op), bound.parties)
           ELSE IsMemberAsOf(auth.membership, bound.group, Actor(auth, op), OrderOf(op))

\* (mutated form: a claimed guest still counts as a guest)
MayNameRaw(auth, op) == Actor(auth, op) = Resolve(auth, op.user) \/ IsPlaceholder(op.user)

(* Guests are named by anybody, real users by themselves.                  *)
MayName(auth, op) ==
    \/ Actor(auth, op) = Resolve(auth, op.user)
    \/ IsPlaceholder(Resolve(auth, op.user))

Entitled(auth, op) ==
    /\ ~RevokedAt(auth.devices, op)
    /\ \/ /\ op.kind = "CreateGroup"
          /\ op.group \in DOMAIN auth.founders
          /\ auth.founders[op.group] = Actor(auth, op)
       \/ /\ op.kind \in {"SetGroupName", "SetGroupCurrency", "SetClosedPeriod"}
          /\ IsMemberAsOf(auth.membership, op.group, Actor(auth, op), OrderOf(op))
       \/ /\ op.kind \in {"CreateExpense", "RecordSettlement"}
          /\ MayCreate(auth, op, Users(op))
       \/ /\ op.kind \in {"EditExpense", "PublishExpense", "VoidExpense", "SetExpenseLock"}
          /\ EntityEntitled(auth, auth.expenses, op.expense, op)
       \/ /\ op.kind = "VoidSettlement"
          /\ EntityEntitled(auth, auth.settlements, op.settlement, op)
       \/ /\ op.kind = "AddAlias"
          /\ AliasAuthorized(RawActor(auth.devices, op), op.alias, op.canonical)
       \/ /\ op.kind = "UpsertProfile"
          /\ MayName(auth, op)
       \/ /\ op.kind = "SetAgreementKey"
          /\ Actor(auth, op) = Resolve(auth, op.user)

(* The read model's devices and friends.                                   *)
DeviceRecords(auth) ==
    [d \in DOMAIN auth.devices.authorized |->
        [identity |-> auth.devices.authorized[d].identity,
         site     |-> auth.devices.authorized[d].site,
         revoked  |-> d \in DOMAIN auth.devices.revoked]]

ConfirmedFriends(auth) ==
    [a \in {d[1] : d \in {e \in auth.friend_decls : IsFriend(auth, e[1], e[2])}} |->
        {b \in {d[2] : d \in auth.friend_decls} : IsFriend(auth, a, b)}]
=============================================================================
