-------------------------------- MODULE Sync --------------------------------
(***************************************************************************)
(* Pairwise reconciliation of op-logs (splittr-sync: the driver sync() of  *)
(* transport.rs, SyncSession of reconcile.rs, framing of framed.rs).       *)
(*                                                                         *)
(* An exchange runs between two replicas over an ordered, reliable stream  *)
(* that buffers at most Window parts of a frame in each direction; send    *)
(* returns when the whole frame is written.  sync() takes the store by     *)
(* &mut, so a replica is in one exchange at a time and issues no op during *)
(* it.  Connections break and replicas crash between any two steps; what   *)
(* was ingested is durable.                                                *)
(***************************************************************************)
EXTENDS Naturals, Sequences, FiniteSets

CONSTANTS
    Replica,
    Op,                \* every op that is ever issued
    NoPeer,
    Window,            \* parts of a frame the stream buffers in one direction
    MaxFrame,          \* MAX_FRAME_LEN, in parts
    StoreErrors        \* whether reads and appends of the store may fail

ASSUME SyncAssumption ==
    /\ NoPeer \notin Replica
    /\ Window \in Nat \ {0}
    /\ MaxFrame \in Nat
    /\ StoreErrors \in BOOLEAN

VARIABLES
    store,             \* the op-log of each replica
    sess,              \* sync()'s locals and its SyncSession, per replica
    wire,              \* <<from, to>>: the parts in flight
    due                \* ghost: what the peer held when the exchange opened

vars == <<store, sess, wire, due>>

Have(ids) == [type |-> "Have", ops |-> ids]
Ops(ops)  == [type |-> "Ops", ops |-> ops]

(* The length header, one part per id, and more per op than per id.        *)
Parts(msg) == 1 + Cardinality(msg.ops) * (IF msg.type = "Have" THEN 1 ELSE 2)

(* A session that starts, as an initiator's when there is something to say.*)
Session(peer, outbox) ==
    [peer |-> peer, sent_have |-> outbox # <<>>, heard |-> 0, outbox |-> outbox,
     written |-> 0, inbox |-> {}, alive |-> TRUE]

NoSession == Session(NoPeer, <<>>)

Active(r) == sess[r].peer # NoPeer

(* Whether the next step of r's sync() reads, or writes, the stream.       *)
Reads(r)  == Active(r) /\ sess[r].outbox = <<>> /\ sess[r].inbox = {} /\ sess[r].heard < 2
Writes(r) == Active(r) /\ sess[r].outbox # <<>>

Init ==
    /\ store = [r \in Replica |-> {}]
    /\ sess = [r \in Replica |-> NoSession]
    /\ wire = [p \in Replica \X Replica |-> <<>>]
    /\ due = [r \in Replica |-> {}]

(* What a read of r's log may return: op_ids() is empty on an error.       *)
OpIds(r) == {store[r]} \cup IF StoreErrors THEN {{}} ELSE {}

(* What missing_ops may return: an op that cannot be read is left out.     *)
MissingOps(r, theirs) ==
    IF StoreErrors THEN SUBSET (store[r] \ theirs) ELSE {store[r] \ theirs}

-----------------------------------------------------------------------------
(* A command appends an op of its own.                                     *)
Issue(r, op) ==
    /\ ~Active(r)
    /\ \A s \in Replica : op \notin store[s]
    /\ store' = [store EXCEPT ![r] = @ \cup {op}]
    /\ UNCHANGED <<sess, wire, due>>

(* Both sides enter sync(); the initiator announces its ids.               *)
OpenSessions(i, r) ==
    /\ \E ids \in OpIds(i) :
          sess' = [sess EXCEPT ![i] = Session(r, <<Have(ids)>>), ![r] = Session(i, <<>>)]
    /\ due' = [due EXCEPT ![i] = store[r], ![r] = store[i]]
    /\ UNCHANGED store

FreshStreams(i, r) ==
    wire' = [p \in Replica \X Replica |->
        IF p \in {<<i, r>>, <<r, i>>} THEN <<>> ELSE wire[p]]

\* (mutated form: the stream of the last exchange is used again)
ReuseStream(i, r) ==
    /\ i # r /\ ~Active(i) /\ ~Active(r)
    /\ OpenSessions(i, r)
    /\ UNCHANGED wire

\* (mutated form: a replica may reconcile with itself)
ConnectAny(i, r) ==
    /\ ~Active(i) /\ ~Active(r)
    /\ OpenSessions(i, r)
    /\ FreshStreams(i, r)

Connect(i, r) ==
    /\ i # r /\ ~Active(i) /\ ~Active(r)
    /\ OpenSessions(i, r)
    /\ FreshStreams(i, r)

(* FramedTransport::send, one part at a time; it waits for room.           *)
Write(r) ==
    LET to   == sess[r].peer
        msg  == Head(sess[r].outbox)
        last == sess[r].written + 1 = Parts(msg)
    IN  /\ Writes(r) /\ sess[r].alive
        /\ Parts(msg) <= MaxFrame
        /\ Len(wire[<<r, to>>]) < Window
        /\ wire' = [wire EXCEPT ![<<r, to>>] = Append(@, [msg |-> msg, last |-> last])]
        /\ sess' = [sess EXCEPT ![r] = [sess[r] EXCEPT
              !.written = IF last THEN 0 ELSE @ + 1,
              !.outbox  = IF last THEN Tail(@) ELSE @]]
        /\ UNCHANGED <<store, due>>

\* (mutated form: only ops count as a message)
AnswerUncounted(r, replies) ==
    sess' = [sess EXCEPT ![r] = [sess[r] EXCEPT !.sent_have = TRUE, !.outbox = replies]]

Answer(r, replies) ==
    sess' = [sess EXCEPT ![r] = [sess[r] EXCEPT !.heard = @ + 1, !.sent_have = TRUE,
                                                !.outbox = replies]]

Take(r, ops) ==
    sess' = [sess EXCEPT ![r] = [sess[r] EXCEPT !.heard = @ + 1, !.inbox = ops]]

(* Our ids, unless they were announced before.                             *)
Reciprocal(r, ids) == IF sess[r].sent_have THEN <<>> ELSE <<Have(ids)>>

\* (mutated form: every Have is answered with a Have)
AlwaysReciprocate(r, msg) ==
    \/ /\ msg.type = "Have"
       /\ \E ids \in OpIds(r), ops \in MissingOps(r, msg.ops) :
             Answer(r, <<Have(ids), Ops(ops)>>)
    \/ msg.type = "Ops" /\ Take(r, msg.ops)

\* (mutated form: the ops both hold are sent)
SendCommonOps(r, msg) ==
    \/ /\ msg.type = "Have"
       /\ \E ids \in OpIds(r) : Answer(r, Reciprocal(r, ids) \o <<Ops(store[r] \cap msg.ops)>>)
    \/ msg.type = "Ops" /\ Take(r, msg.ops)

\* (mutated form: no answer when the peer lacks nothing)
OmitEmptyDelta(r, msg) ==
    \/ /\ msg.type = "Have"
       /\ \E ids \in OpIds(r), ops \in MissingOps(r, msg.ops) :
             Answer(r, Reciprocal(r, ids) \o IF ops = {} THEN <<>> ELSE <<Ops(ops)>>)
    \/ msg.type = "Ops" /\ Take(r, msg.ops)

(* SyncSession::handle: a Have is answered with our Have, once, and the    *)
(* ops its sender lacks; Ops are ingested.                                 *)
Handle(r, msg) ==
    \/ /\ msg.type = "Have"
       /\ \E ids \in OpIds(r), ops \in MissingOps(r, msg.ops) :
             Answer(r, Reciprocal(r, ids) \o <<Ops(ops)>>)
    \/ msg.type = "Ops" /\ Take(r, msg.ops)

(* FramedTransport::recv, one part at a time; the last one is handled.     *)
Receive(r) ==
    LET from == sess[r].peer
        part == Head(wire[<<from, r>>])
    IN  /\ Reads(r)
        /\ wire[<<from, r>>] # <<>>
        /\ wire' = [wire EXCEPT ![<<from, r>>] = Tail(@)]
        /\ IF part.last THEN Handle(r, part.msg) ELSE UNCHANGED sess
        /\ UNCHANGED <<store, due>>

(* handle's loop over the received ops: each is ingested, or lost to an    *)
(* error of the store that ingest reports to nobody.                       *)
Ingest(r, op) ==
    /\ op \in sess[r].inbox
    /\ sess' = [sess EXCEPT ![r] = [sess[r] EXCEPT !.inbox = @ \ {op}]]
    /\ \/ store' = [store EXCEPT ![r] = @ \cup {op}]
       \/ StoreErrors /\ UNCHANGED store
    /\ UNCHANGED <<wire, due>>

(* sync() returns Ok after two messages.                                   *)
Done(r) == Active(r) /\ sess[r].heard = 2 /\ sess[r].outbox = <<>> /\ sess[r].inbox = {}

Finish(r) ==
    /\ Done(r)
    /\ sess' = [sess EXCEPT ![r] = NoSession]
    /\ UNCHANGED <<store, wire, due>>

(* sync() returns the transport's error, or that of a frame too large.     *)
Abort(r) ==
    LET to == sess[r].peer
    IN  /\ \/ ~sess[r].alive /\ Writes(r)
           \/ ~sess[r].alive /\ Reads(r) /\ wire[<<to, r>>] = <<>>
           \/ Writes(r) /\ Parts(Head(sess[r].outbox)) > MaxFrame
        /\ sess' = [s \in Replica |->
              IF s = r THEN NoSession
              ELSE IF s = to /\ sess[s].peer = r THEN [sess[s] EXCEPT !.alive = FALSE]
              ELSE sess[s]]
        /\ UNCHANGED <<store, wire, due>>

(* The connection between i and r breaks; what is in flight is lost.       *)
Break(i, r) ==
    /\ sess[i].peer = r /\ sess[i].alive
    /\ sess' = [s \in Replica |->
          IF <<s, sess[s].peer>> \in {<<i, r>>, <<r, i>>}
          THEN [sess[s] EXCEPT !.alive = FALSE]
          ELSE sess[s]]
    /\ FreshStreams(i, r)
    /\ UNCHANGED <<store, due>>

\* (mutated form: the log is in memory)
ForgetLog(r) ==
    /\ sess' = [s \in Replica |->
          IF s = r THEN NoSession
          ELSE IF sess[s].peer = r THEN [sess[s] EXCEPT !.alive = FALSE]
          ELSE sess[s]]
    /\ wire' = [p \in Replica \X Replica |-> IF r \in {p[1], p[2]} THEN <<>> ELSE wire[p]]
    /\ store' = [store EXCEPT ![r] = {}]
    /\ UNCHANGED due

(* The process of r dies: its connections break, its log stays.            *)
Crash(r) ==
    /\ sess' = [s \in Replica |->
          IF s = r THEN NoSession
          ELSE IF sess[s].peer = r THEN [sess[s] EXCEPT !.alive = FALSE]
          ELSE sess[s]]
    /\ wire' = [p \in Replica \X Replica |-> IF r \in {p[1], p[2]} THEN <<>> ELSE wire[p]]
    /\ UNCHANGED <<store, due>>

Step(r) ==
    \/ Write(r)
    \/ Receive(r)
    \/ \E op \in Op : Ingest(r, op)
    \/ Finish(r)
    \/ Abort(r)

Next ==
    \/ \E r \in Replica : Step(r) \/ Crash(r)
    \/ \E r \in Replica, op \in Op : Issue(r, op)
    \/ \E i, r \in Replica : Connect(i, r) \/ Break(i, r)

Spec == Init /\ [][Next]_vars

(* The executor polls a task again when its stream is ready.               *)
FairSpec == Spec /\ \A r \in Replica : WF_vars(Step(r))

-----------------------------------------------------------------------------
Message == [type : {"Have", "Ops"}, ops : SUBSET Op]

TypeOK ==
    /\ store \in [Replica -> SUBSET Op]
    /\ sess \in [Replica -> [peer : Replica \cup {NoPeer}, sent_have : BOOLEAN,
                             heard : 0..2, outbox : Seq(Message), written : Nat,
                             inbox : SUBSET Op, alive : BOOLEAN]]
    /\ wire \in [Replica \X Replica -> Seq([msg : Message, last : BOOLEAN])]
    /\ due \in [Replica -> SUBSET Op]
    /\ \A r \in Replica : sess[r].peer # r /\ (sess[r].inbox # {} => Active(r))

(* An exchange that returns Ok has brought everything the peer held when   *)
(* it opened, whatever breaks, crashes and other exchanges came between.   *)
OkMeansCaughtUp == \A r \in Replica : Done(r) => due[r] \subseteq store[r]

(* The stream stays in step with its frames: after an unfinished frame     *)
(* comes the rest of it, in the stream or from its writer; and when one    *)
(* side returns Ok, all that the other had to say was said and read, and   *)
(* nothing is left over to be taken for part of a later exchange.          *)
FramesInStep ==
    \A r \in Replica : Active(r) =>
        LET p == sess[r].peer
            s == wire[<<p, r>>]
        IN  /\ \A n \in 1..Len(s) : ~s[n].last =>
                  IF n < Len(s) THEN s[n + 1].msg = s[n].msg
                  ELSE \/ sess[p].peer = r /\ sess[p].written > 0 /\ Head(sess[p].outbox) = s[n].msg
                       \/ ~sess[r].alive
            /\ Done(r) =>
                  /\ s = <<>>
                  /\ sess[p].peer = r => sess[p].outbox = <<>> /\ sess[p].sent_have

(* One in an exchange that can do nothing until its peer has written or    *)
(* read: every other step of sync() needs nobody.                          *)
Waits(r) ==
    LET to == sess[r].peer
    IN  /\ Active(r) /\ sess[r].alive /\ sess[r].inbox = {}
        /\ \/ Reads(r) /\ wire[<<to, r>>] = <<>>
           \/ /\ Writes(r) /\ Parts(Head(sess[r].outbox)) <= MaxFrame
              /\ Len(wire[<<r, to>>]) >= Window

(* Nobody waits for one that has left, and two wait for each other only    *)
(* where both are in the middle of an Ops frame of which the streams hold  *)
(* all they can.                                                           *)
OnlyDeltasJam ==
    \A r \in Replica : Waits(r) =>
        LET p == sess[r].peer
            Jammed(s) == /\ sess[s].outbox # <<>> /\ Head(sess[s].outbox).type = "Ops"
                         /\ sess[s].written >= Window
        IN  /\ sess[p].peer = r
            /\ Waits(p) => Jammed(r) /\ Jammed(p)

(* No exchange goes on forever: what its two sides have still to hear, to  *)
(* write, to read and to ingest, in parts and ops, is bounded and never    *)
(* grows, and every step of either side but its last uses some of it up.   *)
Unit == 2 * Cardinality(Op) + 2

ToDo(q) ==
    Unit * (5 * (2 - q.heard) + 2 * Len(q.outbox)) - 2 * q.written + Cardinality(q.inbox)

Work(r) ==
    LET p == sess[r].peer
    IN  ToDo(sess[r]) + (IF sess[p].peer = r THEN ToDo(sess[p]) ELSE 0)
          + Len(wire[<<p, r>>]) + Len(wire[<<r, p>>])

EveryStepCounts ==
    [][\A r \in Replica : Active(r)' =>
          /\ Work(r)' \in 0..(22 * Unit)
          /\ Active(r) => Work(r)' <= Work(r)
          /\ Active(r) /\ Step(r) => Work(r)' < Work(r)]_vars

(* Every exchange ends, Ok or with an error.                               *)
Quiesces == \A r \in Replica : Active(r) ~> ~Active(r)

(* Synchronization only ever merges op-sets.                               *)
O == INSTANCE OpSets

MergesOpSets == O!Spec
=============================================================================
