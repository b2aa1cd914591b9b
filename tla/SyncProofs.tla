----------------------------- MODULE SyncProofs -----------------------------
(***************************************************************************)
(* First, synchronization only ever merges op-sets: for any replicas, ops, *)
(* stream window and frame limit, with breaks, crashes and store errors.   *)
(*                                                                         *)
(* Then, an exchange that returns Ok has caught up with its peer, as long  *)
(* as the stores have no errors.  That invariant follows what is still to  *)
(* be heard by a replica r: the parts on their way to it and, if its peer  *)
(* still talks to it, that peer's outbox.  A Have is heard once, so that   *)
(* the second message is the Ops with all that r lacks.                    *)
(*                                                                         *)
(* Then, frames never come apart, store errors or not.  That invariant     *)
(* says for each side what it has yet to say (a Have, then an Ops), what   *)
(* of it is in the stream, and that a frame cut short is being written.    *)
(* It also tells who waits for whom.                                       *)
(*                                                                         *)
(* Last, the work of an exchange: each step but the last of a side uses    *)
(* some of it up, and nothing that others do adds to it.                   *)
(***************************************************************************)
EXTENDS Sync, SequenceTheorems, FiniteSetTheorems, TLAPS

Sessions ==
    [peer : Replica \cup {NoPeer}, sent_have : BOOLEAN, heard : 0..2,
     outbox : Seq(Message), written : Nat, inbox : SUBSET Op, alive : BOOLEAN]

(* What r may truthfully say: the ops it sends are its own.                *)
Said(r) == {m \in Message : m.type = "Ops" => m.ops \subseteq store[r]}

Parted(r) == [msg : Said(r), last : BOOLEAN]

(* Every op on its way to a replica, written or not, is held by the one it *)
(* comes from.                                                             *)
SessionOK(r, s) ==
    /\ s \in Sessions
    /\ s.peer # r
    /\ s.inbox # {} => s.peer # NoPeer
    /\ s.outbox \in Seq(Said(r))
    /\ \A op \in s.inbox : op \in store[s.peer]

MergeInv ==
    /\ store \in [Replica -> SUBSET Op]
    /\ due \in [Replica -> SUBSET Op]
    /\ sess = [r \in Replica |-> sess[r]]
    /\ wire = [p \in Replica \X Replica |-> wire[p]]
    /\ \A r \in Replica : SessionOK(r, sess[r])
    /\ \A p, q \in Replica : wire[<<p, q>>] \in Seq(Parted(p))

LEMMA MergeInvType == MergeInv => TypeOK
  <1> SUFFICES ASSUME MergeInv PROVE TypeOK
    OBVIOUS
  <1>1. sess \in [Replica -> Sessions]
    BY DEF MergeInv, SessionOK
  <1>2. \A p \in Replica : Parted(p) \subseteq [msg : Message, last : BOOLEAN]
    BY DEF Parted, Said
  <1>3. \A pq \in Replica \X Replica : wire[pq] \in Seq([msg : Message, last : BOOLEAN])
    <2> TAKE pq \in Replica \X Replica
    <2>1. PICK p \in Replica, q \in Replica : pq = <<p, q>>
      OBVIOUS
    <2>2. wire[pq] \in Seq(Parted(p))
      BY <2>1 DEF MergeInv
    <2> QED
      BY <2>2, <1>2, SeqMonotonic
  <1>4. wire \in [Replica \X Replica -> Seq([msg : Message, last : BOOLEAN])]
    BY <1>3 DEF MergeInv
  <1>5. \A r \in Replica : sess[r].peer # r /\ (sess[r].inbox # {} => Active(r))
    BY DEF MergeInv, SessionOK, Active
  <1> QED
    BY <1>1, <1>4, <1>5 DEF MergeInv, TypeOK, Sessions

-----------------------------------------------------------------------------
(* Stores only grow, so what was truthful stays so.                        *)
LEMMA StaysTrue ==
  ASSUME MergeInv,
         \A r \in Replica : store[r] \subseteq store'[r]
  PROVE  /\ \A r \in Replica : SessionOK(r, sess[r])'  \/ sess'[r] # sess[r]
         /\ \A r \in Replica : Seq(Said(r)) \subseteq Seq(Said(r)')
         /\ \A r \in Replica : Seq(Parted(r)) \subseteq Seq(Parted(r)')
  <1>1. \A r \in Replica : Said(r) \subseteq Said(r)'
    BY DEF Said
  <1>2. \A r \in Replica : Parted(r) \subseteq Parted(r)'
    BY <1>1 DEF Parted
  <1>3. \A r \in Replica : Seq(Said(r)) \subseteq Seq(Said(r)')
    BY <1>1, SeqMonotonic
  <1>4. \A r \in Replica : Seq(Parted(r)) \subseteq Seq(Parted(r)')
    BY <1>2, SeqMonotonic
  <1>5. ASSUME NEW r \in Replica, sess'[r] = sess[r]
        PROVE  SessionOK(r, sess[r])'
    <2>1. SessionOK(r, sess[r])
      BY DEF MergeInv
    <2>2. \A op \in sess[r].inbox : op \in store'[sess[r].peer]
      BY <2>1 DEF SessionOK, Sessions
    <2> QED
      BY <1>3, <1>5, <2>1, <2>2 DEF SessionOK
  <1> QED
    BY <1>3, <1>4, <1>5

LEMMA InitMerge == Init => MergeInv
  <1> SUFFICES ASSUME Init PROVE MergeInv
    OBVIOUS
  <1>1. \A r \in Replica : SessionOK(r, NoSession)
    BY SyncAssumption DEF NoSession, Session, SessionOK, Sessions
  <1> QED
    BY <1>1 DEF Init, MergeInv

(* What an action that leaves the stores alone has to show.                *)
LEMMA StoreKept ==
  ASSUME MergeInv, store' = store, due' \in [Replica -> SUBSET Op],
         sess' = [r \in Replica |-> sess'[r]],
         wire' = [p \in Replica \X Replica |-> wire'[p]],
         \A r \in Replica : SessionOK(r, sess'[r]),
         \A p, q \in Replica : \/ wire'[<<p, q>>] \in Seq(Parted(p))
                               \/ wire'[<<p, q>>] \in {<<>>, wire[<<p, q>>]}
  PROVE  MergeInv'
  <1>1. \A p, q \in Replica : wire'[<<p, q>>] \in Seq(Parted(p))
    BY EmptySeq DEF MergeInv
  <1>2. (\A s \in Replica : SessionOK(s, sess[s]))'
    BY DEF SessionOK, Said
  <1>3. (\A p, q \in Replica : wire[<<p, q>>] \in Seq(Parted(p)))'
    BY <1>1 DEF Parted, Said
  <1> QED
    BY <1>2, <1>3 DEF MergeInv

(* ... and one that changes a single session.                              *)
LEMMA OneSession ==
  ASSUME MergeInv, UNCHANGED <<store, due>>,
         NEW r \in Replica, NEW s, SessionOK(r, s), sess' = [sess EXCEPT ![r] = s],
         wire' = [p \in Replica \X Replica |-> wire'[p]],
         \A p, q \in Replica : \/ wire'[<<p, q>>] \in Seq(Parted(p))
                               \/ wire'[<<p, q>>] \in {<<>>, wire[<<p, q>>]}
  PROVE  MergeInv'
  <1>1. \A q \in Replica : SessionOK(q, sess'[q])
    BY DEF MergeInv
  <1>2. sess' = [q \in Replica |-> sess'[q]] /\ due' \in [Replica -> SUBSET Op]
    BY DEF MergeInv
  <1> QED
    BY <1>1, <1>2, StoreKept

-----------------------------------------------------------------------------
(* The updates a session goes through keep it in order.                    *)
LEMMA Written ==
  ASSUME NEW r \in Replica, NEW s, SessionOK(r, s),
         NEW w \in Nat, NEW o \in Seq(Said(r))
  PROVE  SessionOK(r, [s EXCEPT !.written = w, !.outbox = o])
  <1>1. s \in Sessions /\ o \in Seq(Message)
    BY SeqMonotonic DEF SessionOK, Said
  <1> DEFINE t == [s EXCEPT !.written = w, !.outbox = o]
  <1>2. t \in Sessions
    BY <1>1 DEF Sessions
  <1>3. t.outbox = o /\ t.peer = s.peer /\ t.inbox = s.inbox
    BY <1>1 DEF Sessions
  <1> HIDE DEF t
  <1>4. SessionOK(r, t)
    BY <1>2, <1>3 DEF SessionOK
  <1> QED
    BY <1>4 DEF t

LEMMA Answered ==
  ASSUME NEW r \in Replica, NEW s, SessionOK(r, s), s.heard \in 0..1,
         NEW o \in Seq(Said(r))
  PROVE  SessionOK(r, [s EXCEPT !.heard = @ + 1, !.sent_have = TRUE, !.outbox = o])
  <1>1. s \in Sessions /\ o \in Seq(Message)
    BY SeqMonotonic DEF SessionOK, Said
  <1> DEFINE h == s.heard + 1
             t == [s EXCEPT !.heard = h, !.sent_have = TRUE, !.outbox = o]
  <1>5. h \in 0..2
    OBVIOUS
  <1> HIDE DEF h
  <1>2. t \in Sessions
    BY <1>1, <1>5 DEF Sessions
  <1>3. t.outbox = o /\ t.peer = s.peer /\ t.inbox = s.inbox
    BY <1>1 DEF Sessions
  <1> HIDE DEF t
  <1>4. SessionOK(r, t)
    BY <1>2, <1>3 DEF SessionOK
  <1> QED
    BY <1>4 DEF t, h

LEMMA Taken ==
  ASSUME NEW r \in Replica, NEW s, SessionOK(r, s), s.heard \in 0..1, s.peer # NoPeer,
         NEW ops \in SUBSET Op, ops \subseteq store[s.peer]
  PROVE  SessionOK(r, [s EXCEPT !.heard = @ + 1, !.inbox = ops])
  <1>1. s \in Sessions
    BY DEF SessionOK
  <1> DEFINE h == s.heard + 1
             t == [s EXCEPT !.heard = h, !.inbox = ops]
  <1>5. h \in 0..2
    OBVIOUS
  <1> HIDE DEF h
  <1>2. t \in Sessions
    BY <1>1, <1>5 DEF Sessions
  <1>3. t.outbox = s.outbox /\ t.peer = s.peer /\ t.inbox = ops
    BY <1>1 DEF Sessions
  <1> HIDE DEF t
  <1>4. SessionOK(r, t)
    BY <1>2, <1>3 DEF SessionOK
  <1> QED
    BY <1>4 DEF t, h

LEMMA Ingested ==
  ASSUME NEW r \in Replica, NEW s, SessionOK(r, s), NEW op
  PROVE  SessionOK(r, [s EXCEPT !.inbox = @ \ {op}])
  <1>1. s \in Sessions
    BY DEF SessionOK
  <1> DEFINE t == [s EXCEPT !.inbox = @ \ {op}]
  <1>2. t \in Sessions
    BY <1>1 DEF Sessions
  <1>3. t.outbox = s.outbox /\ t.peer = s.peer /\ t.inbox \subseteq s.inbox
    BY <1>1 DEF Sessions
  <1> HIDE DEF t
  <1>4. SessionOK(r, t)
    BY <1>2, <1>3 DEF SessionOK
  <1> QED
    BY <1>4 DEF t

LEMMA Broken ==
  ASSUME NEW r \in Replica, NEW s, SessionOK(r, s)
  PROVE  SessionOK(r, [s EXCEPT !.alive = FALSE])
  <1>1. s \in Sessions
    BY DEF SessionOK
  <1> DEFINE t == [s EXCEPT !.alive = FALSE]
  <1>2. t \in Sessions
    BY <1>1 DEF Sessions
  <1>3. t.outbox = s.outbox /\ t.peer = s.peer /\ t.inbox = s.inbox
    BY <1>1 DEF Sessions
  <1> HIDE DEF t
  <1>4. SessionOK(r, t)
    BY <1>2, <1>3 DEF SessionOK
  <1> QED
    BY <1>4 DEF t

LEMMA Ended == \A r \in Replica : SessionOK(r, NoSession)
  BY SyncAssumption DEF NoSession, Session, SessionOK, Sessions

-----------------------------------------------------------------------------
(* One lemma per action: the invariant is preserved.                       *)
LEMMA IssueMerge ==
  ASSUME MergeInv, NEW r \in Replica, NEW op \in Op, Issue(r, op)
  PROVE  MergeInv'
  <1>1. \A s \in Replica : store[s] \subseteq store'[s]
    BY DEF MergeInv, Issue
  <1>2. store' \in [Replica -> SUBSET Op]
    BY DEF MergeInv, Issue
  <1>3. \A s \in Replica : SessionOK(s, sess[s])'
    BY <1>1, StaysTrue DEF Issue
  <1>4. \A p, q \in Replica : wire'[<<p, q>>] \in Seq(Parted(p)')
    BY <1>1, StaysTrue DEF MergeInv, Issue
  <1> QED
    BY <1>2, <1>3, <1>4 DEF MergeInv, Issue

LEMMA ConnectMerge ==
  ASSUME MergeInv, NEW i \in Replica, NEW r \in Replica, Connect(i, r)
  PROVE  MergeInv'
  <1>1. PICK ids \in OpIds(i) :
          sess' = [sess EXCEPT ![i] = Session(r, <<Have(ids)>>), ![r] = Session(i, <<>>)]
    BY DEF Connect, OpenSessions
  <1>2. i # r /\ UNCHANGED store /\ due' \in [Replica -> SUBSET Op]
    BY DEF Connect, OpenSessions, MergeInv
  <1>3. Have(ids) \in Said(i)
    BY DEF Have, Message, Said, OpIds, MergeInv
  <1>4. <<Have(ids)>> \in Seq(Said(i)) /\ <<Have(ids)>> \in Seq(Message)
    BY <1>3 DEF Said
  <1>5. SessionOK(i, Session(r, <<Have(ids)>>))
    BY <1>2, <1>4, SyncAssumption DEF Session, SessionOK, Sessions
  <1>6. SessionOK(r, Session(i, <<>>))
    BY <1>2, SyncAssumption DEF Session, SessionOK, Sessions
  <1>7. sess' = [s \in Replica |-> sess'[s]]
    BY <1>1 DEF MergeInv
  <1>8. \A s \in Replica : SessionOK(s, sess'[s])
    BY <1>1, <1>2, <1>5, <1>6 DEF MergeInv
  <1> QED
    BY <1>2, <1>7, <1>8, StoreKept DEF Connect, FreshStreams

LEMMA WriteMerge ==
  ASSUME MergeInv, NEW r \in Replica, Write(r)
  PROVE  MergeInv'
  <1> DEFINE s == sess[r]
             to == s.peer
             msg == Head(s.outbox)
             part == [msg |-> msg, last |-> s.written + 1 = Parts(msg)]
  <1>1. SessionOK(r, s) /\ s.outbox # <<>> /\ to \in Replica
    BY DEF MergeInv, SessionOK, Sessions, Write, Writes, Active
  <1>2. msg \in Said(r) /\ Tail(s.outbox) \in Seq(Said(r)) /\ Tail(s.outbox) \in Seq(Message)
    BY <1>1, HeadTailProperties DEF SessionOK, Sessions
  <1>3. part \in Parted(r)
    BY <1>2 DEF Parted
  <1> DEFINE last == s.written + 1 = Parts(msg)
             w == IF last THEN 0 ELSE s.written + 1
             o == IF last THEN Tail(s.outbox) ELSE s.outbox
  <1>4. sess' = [sess EXCEPT ![r] = [s EXCEPT !.written = w, !.outbox = o]]
    BY DEF Write
  <1>5. SessionOK(r, [s EXCEPT !.written = w, !.outbox = o])
    <2>1. w \in Nat /\ o \in Seq(Said(r))
      BY <1>1, <1>2 DEF SessionOK, Sessions
    <2> HIDE DEF s, w, o
    <2> QED
      BY <1>1, <2>1, Written
  <1>6. /\ wire' = [wire EXCEPT ![<<r, to>>] = Append(@, part)]
        /\ UNCHANGED <<store, due>>
    BY DEF Write
  <1> HIDE DEF s, part, w, o
  <1>7. Append(wire[<<r, to>>], part) \in Seq(Parted(r))
    BY <1>1, <1>3, AppendProperties DEF MergeInv
  <1>8. \A p, q \in Replica : \/ wire'[<<p, q>>] \in Seq(Parted(p))
                              \/ wire'[<<p, q>>] \in {<<>>, wire[<<p, q>>]}
    BY <1>1, <1>6, <1>7 DEF MergeInv
  <1>9. wire' = [p \in Replica \X Replica |-> wire'[p]]
    BY <1>6 DEF MergeInv
  <1> QED
    BY <1>4, <1>5, <1>6, <1>8, <1>9, OneSession

LEMMA ReceiveMerge ==
  ASSUME MergeInv, NEW r \in Replica, Receive(r)
  PROVE  MergeInv'
  <1> DEFINE s == sess[r]
             from == s.peer
             part == Head(wire[<<from, r>>])
  <1>1. SessionOK(r, s) /\ s.heard \in 0..1 /\ from \in Replica
    BY DEF MergeInv, SessionOK, Sessions, Receive, Reads, Active
  <1>2. /\ wire[<<from, r>>] # <<>>
        /\ wire' = [wire EXCEPT ![<<from, r>>] = Tail(@)]
        /\ UNCHANGED <<store, due>>
    BY DEF Receive
  <1>3. part \in Parted(from) /\ Tail(wire[<<from, r>>]) \in Seq(Parted(from))
    BY <1>1, <1>2, HeadTailProperties DEF MergeInv
  <1>4. \A p, q \in Replica : \/ wire'[<<p, q>>] \in Seq(Parted(p))
                              \/ wire'[<<p, q>>] \in {<<>>, wire[<<p, q>>]}
    BY <1>1, <1>2, <1>3 DEF MergeInv
  <1>5. wire' = [p \in Replica \X Replica |-> wire'[p]]
    BY <1>2 DEF MergeInv
  <1>6. part.msg \in Said(from) /\ part.msg \in Message
    BY <1>3 DEF Parted, Said
  <1>7. CASE UNCHANGED sess
    <2>1. sess' = [sess EXCEPT ![r] = sess[r]]
      BY <1>7 DEF MergeInv
    <2> QED
      BY <1>1, <1>2, <1>4, <1>5, <2>1, OneSession
  <1>8. ASSUME NEW ids \in OpIds(r), NEW ops \in MissingOps(r, part.msg.ops),
               Answer(r, Reciprocal(r, ids) \o <<Ops(ops)>>)
        PROVE  MergeInv'
    <2> DEFINE replies == Reciprocal(r, ids) \o <<Ops(ops)>>
    <2>1. ids \subseteq Op /\ ops \subseteq store[r] /\ store[r] \subseteq Op
      BY DEF OpIds, MissingOps, MergeInv
    <2>2. Have(ids) \in Said(r) /\ Ops(ops) \in Said(r)
      BY <2>1 DEF Have, Ops, Said, Message
    <2>3. Reciprocal(r, ids) \in Seq(Said(r)) /\ <<Ops(ops)>> \in Seq(Said(r))
      BY <2>2, EmptySeq DEF Reciprocal
    <2>4. replies \in Seq(Said(r))
      BY <2>3, ConcatProperties
    <2> HIDE DEF replies, s
    <2>6. SessionOK(r, [s EXCEPT !.heard = @ + 1, !.sent_have = TRUE, !.outbox = replies])
      BY <1>1, <2>4, Answered
    <2>7. sess' = [sess EXCEPT ![r] =
              [s EXCEPT !.heard = @ + 1, !.sent_have = TRUE, !.outbox = replies]]
      BY <1>8 DEF Answer, replies, s
    <2> QED
      BY <1>2, <1>4, <1>5, <2>6, <2>7, OneSession
  <1>9. CASE part.msg.type = "Ops" /\ Take(r, part.msg.ops)
    <2>1. part.msg.ops \subseteq store[from] /\ part.msg.ops \subseteq Op
      BY <1>6, <1>9 DEF Said, Message
    <2> DEFINE ops == part.msg.ops
    <2>2. sess' = [sess EXCEPT ![r] = [s EXCEPT !.heard = @ + 1, !.inbox = ops]]
      BY <1>9 DEF Take
    <2>3. from # NoPeer
      BY <1>1, SyncAssumption
    <2> HIDE DEF s, ops
    <2>4. SessionOK(r, [s EXCEPT !.heard = @ + 1, !.inbox = ops])
      BY <1>1, <2>1, <2>3, Taken DEF ops
    <2> QED
      BY <1>2, <1>4, <1>5, <2>2, <2>4, OneSession
  <1>10. \/ UNCHANGED sess
         \/ \E ids \in OpIds(r), ops \in MissingOps(r, part.msg.ops) :
               Answer(r, Reciprocal(r, ids) \o <<Ops(ops)>>)
         \/ part.msg.type = "Ops" /\ Take(r, part.msg.ops)
    BY DEF Receive, Handle
  <1> QED
    BY <1>7, <1>8, <1>9, <1>10

LEMMA IngestMerge ==
  ASSUME MergeInv, NEW r \in Replica, NEW op \in Op, Ingest(r, op)
  PROVE  MergeInv'
  <1> DEFINE s == sess[r]
             rest == [s EXCEPT !.inbox = @ \ {op}]
  <1>1. SessionOK(r, s)
    BY DEF MergeInv
  <1>2. sess' = [sess EXCEPT ![r] = rest]
    BY DEF Ingest
  <1> HIDE DEF s
  <1>3. SessionOK(r, rest)
    BY <1>1, Ingested
  <1> HIDE DEF rest
  <1>4. \A q \in Replica : store[q] \subseteq store'[q]
    BY DEF Ingest, MergeInv
  <1>5. /\ store' \in [Replica -> SUBSET Op]
        /\ UNCHANGED <<wire, due>>
    BY DEF Ingest, MergeInv
  <1>6. \A q \in Replica : SessionOK(q, sess'[q])
    BY <1>2, <1>3 DEF MergeInv
  <1>7. (\A q \in Replica : SessionOK(q, sess[q]))'
    BY <1>4, <1>6, StaysTrue DEF SessionOK, Sessions
  <1>8. (\A p, q \in Replica : wire[<<p, q>>] \in Seq(Parted(p)))'
    BY <1>4, <1>5, StaysTrue DEF MergeInv
  <1>9. sess' = [q \in Replica |-> sess'[q]]
    BY <1>2 DEF MergeInv
  <1> QED
    BY <1>5, <1>7, <1>8, <1>9 DEF MergeInv

LEMMA FinishMerge ==
  ASSUME MergeInv, NEW r \in Replica, Finish(r)
  PROVE  MergeInv'
  BY Ended, OneSession DEF Finish, MergeInv

LEMMA AbortMerge ==
  ASSUME MergeInv, NEW r \in Replica, Abort(r)
  PROVE  MergeInv'
  <1>1. \A s \in Replica : SessionOK(s, sess[s]) /\ SessionOK(s, NoSession)
                           /\ SessionOK(s, [sess[s] EXCEPT !.alive = FALSE])
    BY Ended, Broken DEF MergeInv
  <1>2. \A s \in Replica : sess'[s] \in {NoSession, [sess[s] EXCEPT !.alive = FALSE], sess[s]}
    BY DEF Abort
  <1>3. \A s \in Replica : SessionOK(s, sess'[s])
    BY <1>1, <1>2
  <1> QED
    BY <1>3, StoreKept DEF Abort, MergeInv

LEMMA BreakMerge ==
  ASSUME MergeInv, NEW i \in Replica, NEW r \in Replica, Break(i, r)
  PROVE  MergeInv'
  <1>1. \A s \in Replica : SessionOK(s, sess[s]) /\ SessionOK(s, [sess[s] EXCEPT !.alive = FALSE])
    BY Broken DEF MergeInv
  <1>2. \A s \in Replica : sess'[s] \in {[sess[s] EXCEPT !.alive = FALSE], sess[s]}
    BY DEF Break
  <1>3. \A s \in Replica : SessionOK(s, sess'[s])
    BY <1>1, <1>2
  <1>4. sess' = [s \in Replica |-> sess'[s]]
    BY DEF Break
  <1> QED
    BY <1>3, <1>4, StoreKept DEF Break, FreshStreams, MergeInv

LEMMA CrashMerge ==
  ASSUME MergeInv, NEW r \in Replica, Crash(r)
  PROVE  MergeInv'
  <1>1. \A s \in Replica : SessionOK(s, sess[s]) /\ SessionOK(s, NoSession)
                           /\ SessionOK(s, [sess[s] EXCEPT !.alive = FALSE])
    BY Ended, Broken DEF MergeInv
  <1>2. \A s \in Replica : sess'[s] \in {NoSession, [sess[s] EXCEPT !.alive = FALSE], sess[s]}
    BY DEF Crash
  <1>3. \A s \in Replica : SessionOK(s, sess'[s])
    BY <1>1, <1>2
  <1>4. sess' = [s \in Replica |-> sess'[s]]
    BY DEF Crash
  <1>5. \A p, q \in Replica : wire'[<<p, q>>] \in {<<>>, wire[<<p, q>>]}
    BY DEF Crash
  <1>6. wire' = [p \in Replica \X Replica |-> wire'[p]]
    BY DEF Crash
  <1> QED
    BY <1>3, <1>4, <1>5, <1>6, StoreKept DEF Crash, MergeInv

LEMMA StepMerge == MergeInv /\ [Next]_vars => MergeInv'
  <1> SUFFICES ASSUME MergeInv, [Next]_vars
               PROVE  MergeInv'
    OBVIOUS
  <1>1. CASE UNCHANGED vars
    BY <1>1 DEF vars, MergeInv, SessionOK, Said, Parted
  <1>2. CASE Next
    BY <1>2, IssueMerge, ConnectMerge, WriteMerge, ReceiveMerge, IngestMerge, FinishMerge,
       AbortMerge, BreakMerge, CrashMerge
    DEF Next, Step
  <1> QED
    BY <1>1, <1>2

-----------------------------------------------------------------------------
(* Every variable keeps its shape, no replica reconciles with itself and   *)
(* nobody without a peer has ops to ingest.                                *)
THEOREM TypeCorrect == Spec => []TypeOK
  BY InitMerge, StepMerge, MergeInvType, PTL DEF Spec

(* A step of synchronization copies at most one op from a replica that has *)
(* it, or issues a new one, or leaves every op-set alone.                  *)
LEMMA StepRefines == MergeInv /\ [Next]_vars => [O!Next]_store
  <1> SUFFICES ASSUME MergeInv, [Next]_vars, store' # store
               PROVE  O!Next
    OBVIOUS
  <1>1. ASSUME NEW r \in Replica, NEW op \in Op, Issue(r, op)
        PROVE  O!Next
    BY <1>1 DEF Issue, O!Next, O!Issue, O!Grow
  <1>2. ASSUME NEW r \in Replica, NEW op \in Op, Ingest(r, op)
        PROVE  O!Next
    <2>1. sess[r].peer \in Replica /\ op \in store[sess[r].peer]
      BY <1>2 DEF Ingest, MergeInv, SessionOK, Sessions
    <2>2. store' = [store EXCEPT ![r] = @ \cup {op}]
      BY <1>2 DEF Ingest
    <2> QED
      BY <2>1, <2>2 DEF O!Next, O!Copy, O!Grow
  <1>3. \/ \E r \in Replica, op \in Op : Issue(r, op)
        \/ \E r \in Replica, op \in Op : Ingest(r, op)
    BY DEF Next, Step, vars, Write, Receive, Finish, Abort, Crash, Connect, OpenSessions, Break
  <1> QED
    BY <1>1, <1>2, <1>3

(* Replicas only ever gain ops, and only ops issued somewhere: for all     *)
(* replicas, windows and frame limits, with breaks, crashes, store errors. *)
THEOREM Merges == Spec => MergesOpSets
  <1>1. Init => O!Init
    BY DEF Init, O!Init
  <1> QED
    BY <1>1, InitMerge, StepMerge, StepRefines, PTL DEF Spec, MergesOpSets, O!Spec

-----------------------------------------------------------------------------
Caught(r) == due[r] \subseteq store[r] \cup sess[r].inbox

(* What a message on its way to r is worth when it arrives.                *)
Good(m, r) ==
    IF m.type = "Have"
    THEN /\ m.ops \subseteq store[sess[r].peer]
         /\ sess[r].heard = 0 \/ Caught(r)
    ELSE due[r] \subseteq store[r] \cup m.ops

(* What is on its way from p to r, and what p has still to say to it.      *)
WorthHearing(p, r) == \A n \in 1..Len(wire[<<p, r>>]) : Good(wire[<<p, r>>][n].msg, r)

OpsFollow(s) ==
    \A n, k \in 1..Len(s) :
        s[n].last /\ s[n].msg.type = "Have" /\ n < k => s[k].msg.type = "Ops"

WorthSaying(p, r) == \A n \in 1..Len(sess[p].outbox) : Good(sess[p].outbox[n], r)

HaveFirst(o, said) ==
    \A n \in 1..Len(o) : o[n].type = "Have" =>
        said /\ \A k \in 1..Len(o) : n < k => o[k].type = "Ops"

HaveOnce(s, o, said) ==
    \A n \in 1..Len(s) : s[n].last /\ s[n].msg.type = "Have" =>
        said /\ \A k \in 1..Len(o) : o[k].type = "Ops"

HaveSaid(p, r) == sess[r].heard > 0 => Caught(r) \/ sess[p].sent_have

StreamOK(r) == WorthHearing(sess[r].peer, r) /\ OpsFollow(wire[<<sess[r].peer, r>>])

SenderOK(r) ==
    LET p == sess[r].peer
    IN  sess[p].peer = r =>
            /\ WorthSaying(p, r)
            /\ HaveFirst(sess[p].outbox, sess[p].sent_have)
            /\ HaveOnce(wire[<<p, r>>], sess[p].outbox, sess[p].sent_have)
            /\ HaveSaid(p, r)

ReceiverOK(r) ==
    Active(r) =>
        /\ due[r] \subseteq store[sess[r].peer]
        /\ sess[r].heard = 2 => Caught(r)
        /\ StreamOK(r)
        /\ SenderOK(r)

CaughtInv == \A r \in Replica : ReceiverOK(r)

-----------------------------------------------------------------------------
LEMMA InitCaught == Init => CaughtInv
BY DEF Init, CaughtInv, ReceiverOK, Active, NoSession, Session

(* Types at hand.                                                          *)
LEMMA Typing ==
  ASSUME MergeInv, NEW r \in Replica, Active(r)
  PROVE  /\ sess[r].peer \in Replica /\ sess[r].peer # r
         /\ sess[r] \in Sessions
         /\ sess[r].heard \in 0..2
         /\ sess[r].outbox \in Seq(Message)
         /\ wire[<<sess[r].peer, r>>] \in Seq([msg : Message, last : BOOLEAN])
         /\ sess[sess[r].peer].outbox \in Seq(Message)
<1>1. TypeOK
  BY MergeInvType
<1>2. sess[r].peer \in Replica
  BY <1>1 DEF TypeOK, Active
<1> QED
  BY <1>1, <1>2 DEF TypeOK, Sessions

(* A step that takes nothing a replica has, and neither adds to what is on *)
(* its way to it nor moves it, leaves it in order.                         *)
LEMMA Undisturbed ==
  ASSUME MergeInv, NEW r \in Replica, ReceiverOK(r),
         \A q \in Replica : store[q] \subseteq store'[q],
         Active(r)' =>
             /\ due'[r] = due[r]
             /\ sess'[r].peer = sess[r].peer /\ sess'[r].heard = sess[r].heard
             /\ store[r] \cup sess[r].inbox \subseteq store'[r] \cup sess'[r].inbox
             /\ wire'[<<sess[r].peer, r>>] \in {<<>>, wire[<<sess[r].peer, r>>]}
             /\ sess'[sess[r].peer].peer = r =>
                    /\ sess[sess[r].peer].peer = r
                    /\ sess'[sess[r].peer].outbox = sess[sess[r].peer].outbox
                    /\ sess'[sess[r].peer].sent_have = sess[sess[r].peer].sent_have
  PROVE  ReceiverOK(r)'
<1> SUFFICES ASSUME Active(r)' PROVE ReceiverOK(r)'
  BY DEF ReceiverOK
<1> DEFINE p == sess[r].peer
           s == wire[<<p, r>>]
<1>1. Active(r) /\ p \in Replica /\ sess'[r].peer = p
  BY Typing DEF Active
<1>2. Caught(r) => Caught(r)'
  BY DEF Caught
<1>3. \A m : Good(m, r) => Good(m, r)'
  BY <1>1, <1>2 DEF Good
<1>4. s' = <<>> \/ s' = s
  BY <1>1
<1>5. StreamOK(r) /\ SenderOK(r)
  BY <1>1 DEF ReceiverOK
<1>6. StreamOK(r)'
  <2>1. WorthHearing(p, r)' /\ OpsFollow(wire'[<<p, r>>])
    <3>1. CASE s' = <<>>
      BY <3>1 DEF WorthHearing, OpsFollow
    <3>2. CASE s' = s
      BY <1>3, <1>5, <3>2 DEF StreamOK, WorthHearing
    <3> QED
      BY <1>4, <3>1, <3>2
  <2> QED
    BY <1>1, <2>1 DEF StreamOK
<1>7. SenderOK(r)'
  <2> SUFFICES ASSUME sess'[p].peer = r
               PROVE  /\ WorthSaying(p, r)'
                      /\ HaveFirst(sess'[p].outbox, sess'[p].sent_have)
                      /\ HaveOnce(wire'[<<p, r>>], sess'[p].outbox, sess'[p].sent_have)
                      /\ HaveSaid(p, r)'
    BY <1>1 DEF SenderOK
  <2>1. /\ sess[p].peer = r /\ sess'[p].outbox = sess[p].outbox
        /\ sess'[p].sent_have = sess[p].sent_have
    BY <1>1
  <2>2. /\ WorthSaying(p, r) /\ HaveFirst(sess[p].outbox, sess[p].sent_have)
        /\ HaveOnce(wire[<<p, r>>], sess[p].outbox, sess[p].sent_have) /\ HaveSaid(p, r)
    BY <1>5, <2>1 DEF SenderOK
  <2>3. WorthSaying(p, r)'
    BY <1>3, <2>1, <2>2 DEF WorthSaying
  <2>4. HaveFirst(sess'[p].outbox, sess'[p].sent_have)
    BY <2>1, <2>2
  <2>5. HaveOnce(wire'[<<p, r>>], sess'[p].outbox, sess'[p].sent_have)
    <3>1. CASE s' = <<>>
      BY <3>1 DEF HaveOnce
    <3>2. CASE s' = s
      BY <2>1, <2>2, <3>2
    <3> QED
      BY <1>4, <3>1, <3>2
  <2>6. HaveSaid(p, r)'
    BY <1>1, <1>2, <2>1, <2>2 DEF HaveSaid
  <2> QED
    BY <2>3, <2>4, <2>5, <2>6
<1> QED
  BY <1>1, <1>2, <1>6, <1>7 DEF ReceiverOK

-----------------------------------------------------------------------------
(* The steps that disturb nobody.                                          *)
LEMMA IssueCaught ==
  ASSUME MergeInv, CaughtInv, NEW x \in Replica, NEW op \in Op, Issue(x, op)
  PROVE  CaughtInv'
<1>1. \A q \in Replica : store[q] \subseteq store'[q]
  BY DEF Issue, MergeInv
<1>2. ASSUME NEW r \in Replica PROVE ReceiverOK(r)'
  BY <1>1, Undisturbed DEF Issue, CaughtInv, Active
<1> QED
  BY <1>2 DEF CaughtInv

LEMMA IngestCaught ==
  ASSUME ~StoreErrors, MergeInv, CaughtInv, NEW x \in Replica, NEW op \in Op, Ingest(x, op)
  PROVE  CaughtInv'
<1> DEFINE rest == [sess[x] EXCEPT !.inbox = @ \ {op}]
<1>1. /\ store' = [store EXCEPT ![x] = @ \cup {op}]
      /\ sess' = [sess EXCEPT ![x] = rest]
      /\ wire' = wire /\ due' = due
  BY DEF Ingest
<1>2. \A q \in Replica : store[q] \subseteq store'[q]
  BY <1>1 DEF MergeInv
<1>3. sess[x] \in Sessions
  BY DEF MergeInv, SessionOK
<1>4. /\ rest.peer = sess[x].peer /\ rest.heard = sess[x].heard
      /\ rest.outbox = sess[x].outbox /\ rest.sent_have = sess[x].sent_have
      /\ rest.inbox = sess[x].inbox \ {op}
  BY <1>3 DEF Sessions
<1> HIDE DEF rest
<1>5. ASSUME NEW q \in Replica
      PROVE  /\ sess'[q].peer = sess[q].peer /\ sess'[q].heard = sess[q].heard
             /\ sess'[q].outbox = sess[q].outbox /\ sess'[q].sent_have = sess[q].sent_have
             /\ store[q] \cup sess[q].inbox \subseteq store'[q] \cup sess'[q].inbox
  BY <1>1, <1>4 DEF MergeInv
<1>6. ASSUME NEW r \in Replica PROVE ReceiverOK(r)'
  <2> SUFFICES ASSUME Active(r)' PROVE ReceiverOK(r)'
    BY DEF ReceiverOK
  <2>1. Active(r)
    BY <1>5 DEF Active
  <2>2. sess[r].peer \in Replica
    BY <2>1, Typing
  <2> QED
    BY <1>1, <1>2, <1>5, <2>2, Undisturbed DEF CaughtInv
<1> QED
  BY <1>6 DEF CaughtInv

(* Sessions that end or lose their connection disturb nobody else.         *)
LEMMA EndingsCaught ==
  ASSUME MergeInv, CaughtInv, UNCHANGED <<store, due>>,
         \A q \in Replica : \/ sess'[q] = NoSession
                            \/ sess'[q] = [sess[q] EXCEPT !.alive = FALSE]
                            \/ sess'[q] = sess[q],
         \A p, q \in Replica : wire'[<<p, q>>] \in {<<>>, wire[<<p, q>>]}
  PROVE  CaughtInv'
<1>1. ASSUME NEW q \in Replica, sess'[q].peer # NoPeer
      PROVE  /\ sess'[q].peer = sess[q].peer /\ sess'[q].heard = sess[q].heard
             /\ sess'[q].outbox = sess[q].outbox /\ sess'[q].sent_have = sess[q].sent_have
             /\ sess'[q].inbox = sess[q].inbox
  <2>1. sess[q] \in Sessions
    BY DEF MergeInv, SessionOK
  <2>2. sess'[q] # NoSession
    BY <1>1 DEF NoSession, Session
  <2> QED
    BY <1>1, <2>1, <2>2 DEF Sessions
<1>2. ASSUME NEW r \in Replica PROVE ReceiverOK(r)'
  <2> SUFFICES ASSUME Active(r)' PROVE ReceiverOK(r)'
    BY DEF ReceiverOK
  <2>1. Active(r) /\ sess'[r].peer = sess[r].peer
    BY <1>1 DEF Active
  <2>2. sess[r].peer \in Replica
    BY <2>1, Typing
  <2>3. r # NoPeer
    BY SyncAssumption
  <2> QED
    BY <1>1, <2>1, <2>2, <2>3, Undisturbed DEF CaughtInv, Active
<1> QED
  BY <1>2 DEF CaughtInv

LEMMA FinishCaught ==
  ASSUME MergeInv, CaughtInv, NEW x \in Replica, Finish(x)
  PROVE  CaughtInv'
BY EndingsCaught DEF Finish, MergeInv

LEMMA AbortCaught ==
  ASSUME MergeInv, CaughtInv, NEW x \in Replica, Abort(x)
  PROVE  CaughtInv'
BY EndingsCaught DEF Abort

LEMMA BreakCaught ==
  ASSUME MergeInv, CaughtInv, NEW x \in Replica, NEW y \in Replica, Break(x, y)
  PROVE  CaughtInv'
BY EndingsCaught DEF Break, FreshStreams

LEMMA CrashCaught ==
  ASSUME MergeInv, CaughtInv, NEW x \in Replica, Crash(x)
  PROVE  CaughtInv'
BY EndingsCaught DEF Crash

-----------------------------------------------------------------------------
LEMMA InitiatorSays ==
  ASSUME NEW peer, NEW outbox, outbox # <<>>
  PROVE  Session(peer, outbox).sent_have
<1> DEFINE says == outbox # <<>>
<1>1. says = TRUE
  OBVIOUS
<1> HIDE DEF says
<1>2. Session(peer, outbox).sent_have = says
  BY DEF Session, says
<1> QED
  BY <1>1, <1>2

(* A session that opens: the responder has nothing to hear yet but the     *)
(* initiator's Have.                                                       *)
LEMMA ConnectCaught ==
  ASSUME MergeInv, CaughtInv, NEW i \in Replica, NEW x \in Replica, Connect(i, x)
  PROVE  CaughtInv'
<1>1. PICK ids \in OpIds(i) :
        sess' = [sess EXCEPT ![i] = Session(x, <<Have(ids)>>), ![x] = Session(i, <<>>)]
  BY DEF Connect, OpenSessions
<1>2. /\ i # x /\ store' = store
      /\ due' = [due EXCEPT ![i] = store[x], ![x] = store[i]]
      /\ wire' = [p \in Replica \X Replica |->
                     IF p \in {<<i, x>>, <<x, i>>} THEN <<>> ELSE wire[p]]
  BY DEF Connect, OpenSessions, FreshStreams
<1>3. /\ sess'[i] = Session(x, <<Have(ids)>>) /\ sess'[x] = Session(i, <<>>)
      /\ \A q \in Replica \ {i, x} : sess'[q] = sess[q] /\ due'[q] = due[q]
      /\ due'[i] = store[x] /\ due'[x] = store[i]
  BY <1>1, <1>2 DEF MergeInv
<1>4. /\ sess'[i].peer = x /\ sess'[i].heard = 0 /\ sess'[i].outbox = <<Have(ids)>>
      /\ sess'[i].sent_have
      /\ sess'[x].peer = i /\ sess'[x].heard = 0 /\ sess'[x].outbox = <<>>
  <2>1. <<Have(ids)>> # <<>>
    OBVIOUS
  <2>2. sess'[i].sent_have
    BY <1>3, <2>1, InitiatorSays
  <2>3. /\ sess'[i].peer = x /\ sess'[i].heard = 0 /\ sess'[i].outbox = <<Have(ids)>>
        /\ sess'[x].peer = i /\ sess'[x].heard = 0 /\ sess'[x].outbox = <<>>
    BY <1>3 DEF Session
  <2> QED
    BY <2>1, <2>2, <2>3
<1>5. wire'[<<i, x>>] = <<>> /\ wire'[<<x, i>>] = <<>>
  BY <1>2
<1>6. ids \subseteq store[i]
  BY DEF OpIds
<1>7. ReceiverOK(i)'
  <2>1. /\ WorthHearing(x, i)' /\ OpsFollow(wire'[<<x, i>>])
        /\ HaveOnce(wire'[<<x, i>>], sess'[x].outbox, sess'[x].sent_have)
    BY <1>5 DEF WorthHearing, OpsFollow, HaveOnce
  <2>2. WorthSaying(x, i)' /\ HaveFirst(sess'[x].outbox, sess'[x].sent_have) /\ HaveSaid(x, i)'
    BY <1>4 DEF WorthSaying, HaveFirst, HaveSaid
  <2> QED
    BY <1>2, <1>3, <1>4, <2>1, <2>2 DEF ReceiverOK, StreamOK, SenderOK
<1>8. ReceiverOK(x)'
  <2>1. Good(Have(ids), x)'
    BY <1>2, <1>4, <1>6 DEF Good, Have
  <2>2. /\ WorthHearing(i, x)' /\ OpsFollow(wire'[<<i, x>>])
        /\ HaveOnce(wire'[<<i, x>>], sess'[i].outbox, sess'[i].sent_have)
    BY <1>5 DEF WorthHearing, OpsFollow, HaveOnce
  <2>3. WorthSaying(i, x)' /\ HaveFirst(sess'[i].outbox, sess'[i].sent_have) /\ HaveSaid(i, x)'
    <3>1. WorthSaying(i, x)'
      BY <1>4, <2>1 DEF WorthSaying
    <3>2. HaveFirst(sess'[i].outbox, sess'[i].sent_have) /\ HaveSaid(i, x)'
      BY <1>4 DEF HaveFirst, HaveSaid
    <3> QED
      BY <3>1, <3>2
  <2> QED
    BY <1>2, <1>3, <1>4, <2>2, <2>3 DEF ReceiverOK, StreamOK, SenderOK
<1>9. ASSUME NEW r \in Replica \ {i, x} PROVE ReceiverOK(r)'
  <2> SUFFICES ASSUME Active(r)' PROVE ReceiverOK(r)'
    BY DEF ReceiverOK
  <2>1. Active(r)
    BY <1>3 DEF Active
  <2>2. sess[r].peer \in Replica
    BY <2>1, Typing
  <2>3. wire'[<<sess[r].peer, r>>] = wire[<<sess[r].peer, r>>]
    BY <1>2, <2>2
  <2>4. sess'[sess[r].peer].peer = r => sess'[sess[r].peer] = sess[sess[r].peer]
    BY <1>3, <1>4, <2>2
  <2> QED
    BY <1>2, <1>3, <2>2, <2>3, <2>4, Undisturbed DEF CaughtInv
<1> QED
  BY <1>7, <1>8, <1>9 DEF CaughtInv

LEMMA AppendElements ==
  ASSUME NEW S, NEW s \in Seq(S), NEW e \in S, NEW t, t = Append(s, e)
  PROVE  /\ Len(s) \in Nat /\ Len(t) = Len(s) + 1
         /\ \A n \in 1..Len(t) : \/ n \in 1..Len(s) /\ t[n] = s[n]
                                 \/ n = Len(s) + 1 /\ t[n] = e
OBVIOUS

(* A part that is written was in the outbox, and is worth as much on its   *)
(* way; after the last one of a Have nothing but Ops follows.              *)
LEMMA WriteCaught ==
  ASSUME MergeInv, CaughtInv, NEW x \in Replica, Write(x)
  PROVE  CaughtInv'
<1> DEFINE to == sess[x].peer
           o == sess[x].outbox
           msg == Head(o)
           last == sess[x].written + 1 = Parts(msg)
           w == IF last THEN 0 ELSE sess[x].written + 1
           rest == IF last THEN Tail(o) ELSE o
           part == [msg |-> msg, last |-> last]
           s == wire[<<x, to>>]
<1>1. Active(x) /\ o # <<>>
  BY DEF Write, Writes
<1>2. to \in Replica /\ to # x /\ sess[x] \in Sessions /\ o \in Seq(Message)
  BY <1>1, Typing
<1>3. /\ store' = store /\ due' = due
      /\ wire' = [wire EXCEPT ![<<x, to>>] = Append(@, part)]
      /\ sess' = [sess EXCEPT ![x] = [sess[x] EXCEPT !.written = w, !.outbox = rest]]
  BY DEF Write
<1>4. /\ sess'[x].peer = to /\ sess'[x].heard = sess[x].heard /\ sess'[x].outbox = rest
      /\ sess'[x].sent_have = sess[x].sent_have /\ sess'[x].inbox = sess[x].inbox
      /\ \A q \in Replica \ {x} : sess'[q] = sess[q]
  <2> HIDE DEF w, rest
  <2> QED
    BY <1>2, <1>3 DEF MergeInv, Sessions
<1>5. /\ wire'[<<x, to>>] = Append(s, part)
      /\ \A p, q \in Replica : <<p, q>> # <<x, to>> => wire'[<<p, q>>] = wire[<<p, q>>]
  BY <1>2, <1>3 DEF MergeInv
<1>6. ASSUME NEW r \in Replica, ~(r = to /\ sess[r].peer = x)
      PROVE  ReceiverOK(r)'
  <2> SUFFICES ASSUME Active(r)' PROVE ReceiverOK(r)'
    BY DEF ReceiverOK
  <2>1. Active(r) /\ sess'[r].peer = sess[r].peer
    BY <1>4 DEF Active
  <2>2. sess[r].peer \in Replica
    BY <2>1, Typing
  <2>3. wire'[<<sess[r].peer, r>>] = wire[<<sess[r].peer, r>>]
    BY <1>5, <1>6, <2>2
  <2>4. /\ sess'[r].heard = sess[r].heard /\ sess'[r].inbox = sess[r].inbox
        /\ sess'[sess[r].peer].peer = r => sess'[sess[r].peer] = sess[sess[r].peer]
    BY <1>4, <1>6, <2>2
  <2> HIDE DEF rest
  <2> QED
    BY <1>3, <2>1, <2>2, <2>3, <2>4, Undisturbed DEF CaughtInv
<1>7. ASSUME NEW y \in Replica, y = to, sess[y].peer = x
      PROVE  ReceiverOK(y)'
  <2>1. Active(y) /\ ReceiverOK(y)
    BY <1>2, <1>7, SyncAssumption DEF Active, CaughtInv
  <2>2. s \in Seq([msg : Message, last : BOOLEAN])
    BY <1>7, <2>1, <1>2, Typing
  <2>3. /\ sess'[y] = sess[y]
        /\ Caught(y) => Caught(y)'
        /\ \A m : Good(m, y) => Good(m, y)'
    BY <1>2, <1>3, <1>4, <1>7 DEF Caught, Good
  <2> DEFINE t == wire'[<<x, y>>]
  <2>4. t = Append(s, part) /\ part.msg = msg /\ part.last = last
    BY <1>5, <1>7
  <2>5. /\ Len(rest) \in Nat
        /\ \A n \in 1..Len(rest) : rest[n] \in Message /\
              \E k \in 1..Len(o) : rest[n] = o[k] /\ (last => k = n + 1) /\ (~last => k = n)
    BY <1>1, <1>2
  <2>6. msg = o[1] /\ msg \in Message /\ Len(o) > 0 /\ Len(o) \in Nat
    BY <1>1, <1>2
  <2>7. /\ \A n \in 1..Len(o) : Good(o[n], y)
        /\ \A n \in 1..Len(o) : o[n].type = "Have" =>
              sess[x].sent_have /\ \A k \in 1..Len(o) : n < k => o[k].type = "Ops"
        /\ \A n \in 1..Len(s) : s[n].last /\ s[n].msg.type = "Have" =>
              sess[x].sent_have /\ \A k \in 1..Len(o) : o[k].type = "Ops"
        /\ sess[y].heard > 0 => Caught(y) \/ sess[x].sent_have
    <3>1. /\ WorthSaying(x, y) /\ HaveFirst(sess[x].outbox, sess[x].sent_have)
          /\ HaveOnce(wire[<<x, y>>], sess[x].outbox, sess[x].sent_have) /\ HaveSaid(x, y)
      BY <1>7, <2>1 DEF ReceiverOK, SenderOK
    <3> QED
      BY <1>7, <3>1 DEF WorthSaying, HaveFirst, HaveOnce, HaveSaid
  <2>8. /\ \A n \in 1..Len(s) : Good(s[n].msg, y)
        /\ \A n, k \in 1..Len(s) : s[n].last /\ s[n].msg.type = "Have" /\ n < k =>
               s[k].msg.type = "Ops"
    <3>1. WorthHearing(x, y) /\ OpsFollow(wire[<<x, y>>])
      BY <1>7, <2>1 DEF ReceiverOK, StreamOK
    <3> QED
      BY <1>7, <3>1 DEF WorthHearing, OpsFollow
  <2> HIDE DEF s, o, rest, msg, last
  <2>9. part \in [msg : Message, last : BOOLEAN]
    BY <2>6 DEF last
  <2> HIDE DEF part, t
  <2>10. /\ Len(s) \in Nat /\ Len(t) = Len(s) + 1
         /\ \A n \in 1..Len(t) : \/ n \in 1..Len(s) /\ t[n] = s[n]
                                 \/ n = Len(s) + 1 /\ t[n] = part
    BY <2>2, <2>4, <2>9, AppendElements
  <2>11. \A n \in 1..Len(t) : Good(t[n].msg, y)
    BY <2>4, <2>6, <2>7, <2>8, <2>10
  <2>12. ASSUME NEW n \in 1..Len(t), t[n].last, t[n].msg.type = "Have", NEW k \in 1..Len(t), n < k
         PROVE  t[k].msg.type = "Ops"
    BY <2>4, <2>6, <2>7, <2>8, <2>10, <2>12
  <2>13. StreamOK(y)'
    <3>1. WorthHearing(x, y)'
      BY <2>3, <2>11 DEF t, WorthHearing
    <3>2. OpsFollow(wire'[<<x, y>>])
      BY <2>12 DEF t, OpsFollow
    <3> QED
      BY <1>7, <2>3, <3>1, <3>2 DEF StreamOK
  <2>14. \A n \in 1..Len(rest) : Good(rest[n], y)
    BY <2>5, <2>7
  <2>15. ASSUME NEW n \in 1..Len(rest), rest[n].type = "Have"
         PROVE  sess[x].sent_have /\ \A k \in 1..Len(rest) : n < k => rest[k].type = "Ops"
    <3>1. PICK i \in 1..Len(o) : rest[n] = o[i] /\ (last => i = n + 1) /\ (~last => i = n)
      BY <2>5, <2>15
    <3>2. sess[x].sent_have /\ \A k \in 1..Len(o) : i < k => o[k].type = "Ops"
      BY <2>7, <2>15, <3>1
    <3>3. ASSUME NEW k \in 1..Len(rest), n < k PROVE rest[k].type = "Ops"
      <4>1. PICK j \in 1..Len(o) : rest[k] = o[j] /\ (last => j = k + 1) /\ (~last => j = k)
        BY <2>5, <3>3
      <4>2. i < j
        BY <2>5, <2>6, <3>1, <3>3, <4>1
      <4> QED
        BY <3>2, <4>1, <4>2
    <3> QED
      BY <3>2, <3>3
  <2>16. ASSUME NEW n \in 1..Len(t), t[n].last, t[n].msg.type = "Have"
         PROVE  sess[x].sent_have /\ \A k \in 1..Len(rest) : rest[k].type = "Ops"
    <3>1. CASE n \in 1..Len(s) /\ t[n] = s[n]
      <4>1. sess[x].sent_have /\ \A k \in 1..Len(o) : o[k].type = "Ops"
        BY <2>7, <2>16, <3>1
      <4> QED
        BY <2>5, <4>1
    <3>2. CASE n = Len(s) + 1 /\ t[n] = part
      <4>1. last /\ o[1].type = "Have"
        BY <2>4, <2>6, <2>16, <3>2
      <4>2. ASSUME NEW k \in 1..Len(rest) PROVE rest[k].type = "Ops"
        <5>1. k + 1 \in 1..Len(o) /\ rest[k] = o[k + 1]
          BY <2>5, <4>1
        <5> QED
          BY <2>6, <2>7, <4>1, <5>1
      <4> QED
        BY <2>6, <2>7, <4>1, <4>2
    <3> QED
      BY <2>10, <3>1, <3>2
  <2>17. SenderOK(y)'
    <3>1. sess'[y].peer = x /\ sess'[y].heard = sess[y].heard
      BY <1>7, <2>3
    <3>2. sess'[x].outbox = rest /\ sess'[x].sent_have = sess[x].sent_have
      BY <1>4
    <3>3. WorthSaying(x, y)'
      BY <2>3, <2>14, <3>2 DEF WorthSaying
    <3>4. HaveFirst(sess'[x].outbox, sess'[x].sent_have)
      BY <2>15, <3>2 DEF HaveFirst
    <3>5. HaveOnce(wire'[<<x, y>>], sess'[x].outbox, sess'[x].sent_have)
      BY <2>16, <3>2 DEF t, HaveOnce
    <3>6. HaveSaid(x, y)'
      BY <2>3, <2>7, <3>1, <3>2 DEF HaveSaid
    <3> QED
      BY <3>1, <3>3, <3>4, <3>5, <3>6 DEF SenderOK
  <2> QED
    BY <1>3, <1>7, <2>1, <2>3, <2>13, <2>17 DEF ReceiverOK
<1>8. ASSUME NEW r \in Replica PROVE ReceiverOK(r)'
  <2>1. CASE r = to /\ sess[r].peer = x
    BY <1>7, <2>1
  <2>2. CASE ~(r = to /\ sess[r].peer = x)
    BY <1>6, <2>2
  <2> QED
    BY <2>1, <2>2
<1> QED
  BY <1>8 DEF CaughtInv

-----------------------------------------------------------------------------
(* A part that is read: what follows a Have is Ops, and Ops bring all that *)
(* is missing.                                                             *)
LEMMA TailElements ==
  ASSUME NEW S, NEW s \in Seq(S), s # <<>>, NEW t, t = Tail(s)
  PROVE  /\ Len(t) \in Nat /\ Head(s) = s[1] /\ 1 \in 1..Len(s)
         /\ \A n \in 1..Len(t) : n + 1 \in 1..Len(s) /\ t[n] = s[n + 1]
OBVIOUS

LEMMA PartRead ==
  ASSUME MergeInv, CaughtInv, NEW x \in Replica, NEW y \in Replica,
         Active(x), sess[x].peer = y, wire[<<y, x>>] # <<>>,
         UNCHANGED <<store, due>>, wire'[<<y, x>>] = Tail(wire[<<y, x>>]),
         sess'[y] = sess[y], sess'[x].peer = y,
         LET part == Head(wire[<<y, x>>])
         IN  \/ sess'[x].heard = sess[x].heard /\ sess'[x].inbox = sess[x].inbox
             \/ /\ part.last /\ part.msg.type = "Have"
                /\ sess'[x].heard = sess[x].heard + 1 /\ sess'[x].inbox = sess[x].inbox
             \/ Caught(x)'
  PROVE  ReceiverOK(x)'
<1> DEFINE s == wire[<<y, x>>]
           t == wire'[<<y, x>>]
           o == sess[y].outbox
<1>1. s \in Seq([msg : Message, last : BOOLEAN]) /\ o \in Seq(Message) /\ sess[x].heard \in 0..2
  BY Typing
<1>2. /\ Len(t) \in Nat /\ Head(s) = s[1] /\ 1 \in 1..Len(s)
      /\ \A n \in 1..Len(t) : n + 1 \in 1..Len(s) /\ t[n] = s[n + 1]
  BY <1>1, TailElements
<1>3. ReceiverOK(x) /\ Active(x)
  BY DEF CaughtInv
<1>4. /\ \A n \in 1..Len(s) : Good(s[n].msg, x)
      /\ \A n, k \in 1..Len(s) : s[n].last /\ s[n].msg.type = "Have" /\ n < k =>
             s[k].msg.type = "Ops"
      /\ due[x] \subseteq store[y] /\ (sess[x].heard = 2 => Caught(x))
  BY <1>3 DEF ReceiverOK, StreamOK, WorthHearing, OpsFollow
<1>5. sess[y].peer = x =>
          /\ WorthSaying(y, x) /\ HaveFirst(sess[y].outbox, sess[y].sent_have)
          /\ HaveOnce(wire[<<y, x>>], sess[y].outbox, sess[y].sent_have) /\ HaveSaid(y, x)
  BY <1>3 DEF ReceiverOK, SenderOK
<1> DEFINE Same == sess'[x].heard = sess[x].heard /\ sess'[x].inbox = sess[x].inbox
           Heard == /\ s[1].last /\ s[1].msg.type = "Have"
                    /\ sess'[x].heard = sess[x].heard + 1 /\ sess'[x].inbox = sess[x].inbox
<1>6. Same \/ Heard \/ Caught(x)'
  BY <1>2
<1>7. /\ Same => (Caught(x) => Caught(x)') /\ \A m : Good(m, x) => Good(m, x)'
      /\ Heard => (Caught(x) => Caught(x)')
      /\ \A m : m.type = "Ops" /\ Good(m, x) => Good(m, x)'
      /\ Caught(x)' => \A m : Good(m, x) => Good(m, x)'
  BY DEF Caught, Good
<1>8. Heard => \A n \in 1..Len(t) : t[n].msg.type = "Ops"
  BY <1>2, <1>4
<1>9. Heard => (sess[x].heard = 0 \/ Caught(x))
  BY <1>2, <1>4 DEF Good
<1>10. Heard /\ sess[y].peer = x => sess[y].sent_have /\ \A k \in 1..Len(o) : o[k].type = "Ops"
  BY <1>2, <1>5 DEF HaveOnce
<1> HIDE DEF Same, Heard, s, t, o
<1>11. StreamOK(x)'
  <2>1. ASSUME NEW n \in 1..Len(t), NEW m, m = t[n].msg PROVE Good(m, x)'
    <3>1. Good(m, x) /\ (Heard => m.type = "Ops")
      BY <1>2, <1>4, <1>8, <2>1
    <3> QED
      BY <1>6, <1>7, <3>1
  <2>2. \A n, k \in 1..Len(t) : t[n].last /\ t[n].msg.type = "Have" /\ n < k =>
            t[k].msg.type = "Ops"
    BY <1>2, <1>4
  <2>3. WorthHearing(y, x)'
    <3>1. wire'[<<y, x>>] = t
      BY DEF t
    <3> QED
      BY <2>1, <3>1 DEF WorthHearing
  <2>4. OpsFollow(wire'[<<y, x>>])
    BY <2>2 DEF OpsFollow, t
  <2> QED
    BY <2>3, <2>4 DEF StreamOK
<1>12. SenderOK(x)'
  <2> SUFFICES ASSUME sess[y].peer = x
               PROVE  /\ WorthSaying(y, x)'
                      /\ HaveFirst(sess'[y].outbox, sess'[y].sent_have)
                      /\ HaveOnce(wire'[<<y, x>>], sess'[y].outbox, sess'[y].sent_have)
                      /\ HaveSaid(y, x)'
    BY DEF SenderOK
  <2>1. ASSUME NEW n \in 1..Len(o), NEW m, m = o[n] PROVE Good(m, x)'
    <3>1. Good(m, x)
      BY <1>5, <2>1 DEF WorthSaying, o
    <3>2. Heard => m.type = "Ops"
      BY <1>10, <2>1
    <3> QED
      BY <1>6, <1>7, <3>1, <3>2
  <2>2. WorthSaying(y, x)'
    <3>1. sess'[y].outbox = o
      BY DEF o
    <3> QED
      BY <2>1, <3>1 DEF WorthSaying
  <2>3. HaveFirst(sess'[y].outbox, sess'[y].sent_have)
    BY <1>5
  <2>4. HaveOnce(wire'[<<y, x>>], sess'[y].outbox, sess'[y].sent_have)
    <3>1. ASSUME NEW n \in 1..Len(t), t[n].last, t[n].msg.type = "Have"
          PROVE  sess[y].sent_have /\ \A k \in 1..Len(o) : o[k].type = "Ops"
      <4>1. n + 1 \in 1..Len(s) /\ s[n + 1].last /\ s[n + 1].msg.type = "Have"
        BY <1>2, <3>1
      <4> QED
        BY <1>5, <4>1 DEF HaveOnce, s, o
    <3> QED
      BY <3>1 DEF HaveOnce, t, o
  <2>5. HaveSaid(y, x)'
    <3>1. HaveSaid(y, x)
      BY <1>5
    <3>2. CASE Same
      BY <1>7, <3>1, <3>2 DEF HaveSaid, Same
    <3>3. CASE Heard
      BY <1>10, <3>3 DEF HaveSaid
    <3>4. CASE Caught(x)'
      BY <3>4 DEF HaveSaid
    <3> QED
      BY <1>6, <3>2, <3>3, <3>4
  <2> QED
    BY <2>2, <2>3, <2>4, <2>5
<1>13. sess'[x].heard = 2 => Caught(x)'
  BY <1>1, <1>4, <1>6, <1>7, <1>9 DEF Same, Heard
<1> QED
  BY <1>4, <1>11, <1>12, <1>13 DEF ReceiverOK

(* An answer is the Ops the peer lacks, after the Have not yet sent.       *)
LEMMA Pairs ==
  ASSUME NEW a, NEW b
  PROVE  <<>> \o <<b>> = <<b>> /\ <<a>> \o <<b>> = <<a, b>>
<1>1. <<a>> \in Seq({a, b}) /\ <<b>> \in Seq({a, b}) /\ <<a, b>> \in Seq({a, b})
  OBVIOUS
<1>2. <<>> \o <<b>> = <<b>>
  BY <1>1, ConcatEmptySeq
<1> DEFINE c == <<a>> \o <<b>>
<1>3. /\ c \in Seq({a, b}) /\ Len(c) = Len(<<a>>) + Len(<<b>>)
      /\ \A i \in 1..Len(<<a>>) + Len(<<b>>) :
             c[i] = IF i <= Len(<<a>>) THEN <<a>>[i] ELSE <<b>>[i - Len(<<a>>)]
  BY <1>1, ConcatProperties
<1>4. Len(c) = 2 /\ c[1] = a /\ c[2] = b
  <2> HIDE DEF c
  <2> QED
    BY <1>3
<1> HIDE DEF c
<1>5. c = <<a, b>>
  BY <1>1, <1>3, <1>4, SeqEqual
<1> QED
  BY <1>2, <1>5 DEF c

LEMMA Replies ==
  ASSUME NEW x, NEW ids, NEW news
  PROVE  \/ sess[x].sent_have /\ Reciprocal(x, ids) \o <<news>> = <<news>>
         \/ ~sess[x].sent_have /\ Reciprocal(x, ids) \o <<news>> = <<Have(ids), news>>
<1>1. CASE sess[x].sent_have
  BY <1>1, Pairs DEF Reciprocal
<1>2. CASE ~sess[x].sent_have
  BY <1>2, Pairs DEF Reciprocal
<1> QED
  BY <1>1, <1>2

(* A Have that is answered: its sender is promised all that it lacks.      *)
LEMMA Promised ==
  ASSUME MergeInv, CaughtInv, NEW x \in Replica, NEW y \in Replica, x # y,
         Active(x), sess[x].peer = y, Active(y), sess[y].peer = x,
         NEW msg, msg.type = "Have", Good(msg, x),
         UNCHANGED <<store, due>>, wire'[<<x, y>>] = wire[<<x, y>>], sess'[y] = sess[y],
         sess'[x].sent_have, NEW o, sess'[x].outbox = o, NEW news, NEW says,
         news = Ops(store[x] \ msg.ops), says = Have(store[x]),
         o = Reciprocal(x, store[x]) \o <<news>>
  PROVE  ReceiverOK(y)'
<1> DEFINE s == wire[<<x, y>>]
<1>1. /\ due[y] \subseteq store[x] /\ (sess[y].heard = 2 => Caught(y))
      /\ StreamOK(y) /\ SenderOK(y)
  BY DEF CaughtInv, ReceiverOK
<1>2. (Caught(y) => Caught(y)') /\ \A m : Good(m, y) => Good(m, y)'
  BY DEF Caught, Good
<1>3. StreamOK(y)'
  <2>1. sess'[y].peer = x /\ WorthHearing(x, y) /\ OpsFollow(wire[<<x, y>>])
    BY <1>1 DEF StreamOK
  <2>2. WorthHearing(x, y)'
    <3>1. ASSUME NEW n \in 1..Len(s), NEW m, m = s[n].msg PROVE Good(m, y)'
      BY <1>2, <2>1, <3>1 DEF WorthHearing
    <3>2. wire'[<<x, y>>] = s
      OBVIOUS
    <3> QED
      BY <3>1, <3>2 DEF WorthHearing
  <2>3. OpsFollow(wire'[<<x, y>>])
    BY <2>1
  <2> QED
    BY <2>1, <2>2, <2>3 DEF StreamOK
<1>4. Good(news, y)'
  BY <1>1 DEF Good, Ops
<1>5. sess[y].heard \in 0..2
  BY Typing
<1>6. ~sess[x].sent_have => Good(says, y)'
  <2>1. ~sess[x].sent_have => sess[y].heard = 0 \/ Caught(y)
    BY <1>1, <1>5 DEF SenderOK, HaveSaid
  <2> QED
    BY <1>2, <2>1 DEF Good, Have
<1>7. news.type = "Ops" /\ says.type = "Have"
  BY DEF Ops, Have
<1>8. \/ sess[x].sent_have /\ o = <<news>>
      \/ ~sess[x].sent_have /\ o = <<says, news>>
  BY Replies
<1>9. \A n \in 1..Len(s) : s[n].last /\ s[n].msg.type = "Have" => sess[x].sent_have
  BY <1>1 DEF SenderOK, HaveOnce
<1>10. /\ \A n \in 1..Len(o) : Good(o[n], y)'
       /\ \A n, k \in 1..Len(o) : n < k => o[k].type = "Ops"
       /\ sess[x].sent_have => \A k \in 1..Len(o) : o[k].type = "Ops"
  <2>1. CASE sess[x].sent_have /\ o = <<news>>
    BY <1>4, <1>7, <2>1
  <2>2. CASE ~sess[x].sent_have /\ o = <<says, news>>
    BY <1>4, <1>6, <1>7, <2>2
  <2> QED
    BY <1>8, <2>1, <2>2
<1> HIDE DEF s
<1>11. SenderOK(y)'
  <2>1. WorthSaying(x, y)'
    BY <1>10 DEF WorthSaying
  <2>2. HaveFirst(o, sess'[x].sent_have)
    BY <1>10 DEF HaveFirst
  <2>3. HaveOnce(s, o, sess'[x].sent_have)
    BY <1>9, <1>10 DEF HaveOnce
  <2>4. HaveSaid(x, y)'
    BY DEF HaveSaid
  <2> QED
    BY <2>1, <2>2, <2>3, <2>4 DEF SenderOK, s
<1> QED
  BY <1>1, <1>2, <1>3, <1>11 DEF ReceiverOK

LEMMA ReceiveCaught ==
  ASSUME ~StoreErrors, MergeInv, CaughtInv, NEW x \in Replica, Receive(x)
  PROVE  CaughtInv'
<1> DEFINE y == sess[x].peer
           part == Head(wire[<<y, x>>])
           msg == part.msg
<1>1. /\ Active(x) /\ sess[x].outbox = <<>> /\ sess[x].inbox = {}
      /\ wire[<<y, x>>] # <<>> /\ wire' = [wire EXCEPT ![<<y, x>>] = Tail(@)]
      /\ store' = store /\ due' = due
  BY DEF Receive, Reads
<1>2. y \in Replica /\ y # x /\ sess[x] \in Sessions
  BY <1>1, Typing
<1>3. /\ wire'[<<y, x>>] = Tail(wire[<<y, x>>])
      /\ \A p, q \in Replica : <<p, q>> # <<y, x>> => wire'[<<p, q>>] = wire[<<p, q>>]
  BY <1>1, <1>2 DEF MergeInv
<1>4. Good(msg, x)
  <2>1. wire[<<y, x>>] \in Seq([msg : Message, last : BOOLEAN])
    BY <1>1, Typing
  <2>2. 1 \in 1..Len(wire[<<y, x>>]) /\ part = wire[<<y, x>>][1]
    BY <1>1, <2>1
  <2>3. StreamOK(x)
    BY <1>1 DEF CaughtInv, ReceiverOK
  <2> QED
    BY <2>2, <2>3 DEF StreamOK, WorthHearing
<1> DEFINE Unmoved == UNCHANGED sess
           Answered1 == /\ part.last /\ msg.type = "Have"
                        /\ Answer(x, Reciprocal(x, store[x]) \o <<Ops(store[x] \ msg.ops)>>)
           Taken1 == msg.type = "Ops" /\ Take(x, msg.ops)
<1>5. Unmoved \/ Answered1 \/ Taken1
  BY DEF Receive, Handle, OpIds, MissingOps
<1>6. \A q \in Replica \ {x} : sess'[q] = sess[q]
  BY <1>5 DEF Answer, Take, MergeInv
<1>7. Answered1 => /\ sess'[x].peer = y /\ sess'[x].heard = sess[x].heard + 1
                   /\ sess'[x].inbox = sess[x].inbox /\ sess'[x].sent_have
                   /\ sess'[x].outbox = Reciprocal(x, store[x]) \o <<Ops(store[x] \ msg.ops)>>
  <2> SUFFICES ASSUME Answered1
               PROVE  /\ sess'[x].peer = y /\ sess'[x].heard = sess[x].heard + 1
                      /\ sess'[x].inbox = sess[x].inbox /\ sess'[x].sent_have = TRUE
                      /\ sess'[x].outbox =
                            Reciprocal(x, store[x]) \o <<Ops(store[x] \ msg.ops)>>
    OBVIOUS
  <2> DEFINE o == Reciprocal(x, store[x]) \o <<Ops(store[x] \ msg.ops)>>
  <2>1. Answer(x, o)
    OBVIOUS
  <2> HIDE DEF o
  <2>2. sess'[x] = [sess[x] EXCEPT !.heard = @ + 1, !.sent_have = TRUE, !.outbox = o]
    BY <2>1 DEF Answer, MergeInv
  <2>3. /\ sess'[x].peer = y /\ sess'[x].heard = sess[x].heard + 1
        /\ sess'[x].inbox = sess[x].inbox /\ sess'[x].sent_have = TRUE
        /\ sess'[x].outbox = o
    BY <1>2, <2>2 DEF Sessions
  <2> QED
    BY <2>3 DEF o
<1>8. Taken1 => /\ sess'[x].peer = y /\ sess'[x].inbox = msg.ops /\ msg.type = "Ops"
                /\ sess'[x].sent_have = sess[x].sent_have /\ sess'[x].outbox = sess[x].outbox
  <2> SUFFICES ASSUME Taken1
               PROVE  /\ sess'[x].peer = y /\ sess'[x].inbox = msg.ops
                      /\ sess'[x].sent_have = sess[x].sent_have
                      /\ sess'[x].outbox = sess[x].outbox
    OBVIOUS
  <2>1. sess'[x] = [sess[x] EXCEPT !.heard = @ + 1, !.inbox = msg.ops]
    BY DEF Take, MergeInv
  <2> QED
    BY <1>2, <2>1 DEF Sessions
<1>9. Taken1 => Caught(x)'
  BY <1>1, <1>4, <1>8 DEF Caught, Good
<1>10. (part.last /\ msg.type = "Have") \/ ~Answered1
  OBVIOUS
<1>11. Unmoved => sess'[x] = sess[x]
  OBVIOUS
<1> HIDE DEF Unmoved, Answered1, Taken1
<1>12. sess'[x].peer = y /\ sess'[y] = sess[y]
  BY <1>2, <1>5, <1>6, <1>7, <1>8, <1>11
<1>13. ReceiverOK(x)'
  <2>1. \/ sess'[x].heard = sess[x].heard /\ sess'[x].inbox = sess[x].inbox
        \/ /\ part.last /\ msg.type = "Have"
           /\ sess'[x].heard = sess[x].heard + 1 /\ sess'[x].inbox = sess[x].inbox
        \/ Caught(x)'
    BY <1>5, <1>7, <1>9, <1>10, <1>11
  <2> QED
    BY <1>1, <1>2, <1>3, <1>12, <2>1, PartRead
<1>14. ASSUME NEW r \in Replica \ {x}, ~(Answered1 /\ r = y /\ sess[r].peer = x)
       PROVE  ReceiverOK(r)'
  <2> SUFFICES ASSUME Active(r)' PROVE ReceiverOK(r)'
    BY DEF ReceiverOK
  <2>1. Active(r) /\ sess'[r] = sess[r]
    BY <1>6 DEF Active
  <2>2. sess[r].peer \in Replica /\ sess[r].peer # r
    BY <2>1, Typing
  <2>3. wire'[<<sess[r].peer, r>>] = wire[<<sess[r].peer, r>>]
    BY <1>3, <2>2
  <2>4. ASSUME sess'[sess[r].peer].peer = r
        PROVE  /\ sess[sess[r].peer].peer = r
               /\ sess'[sess[r].peer].outbox = sess[sess[r].peer].outbox
               /\ sess'[sess[r].peer].sent_have = sess[sess[r].peer].sent_have
    <3>1. CASE sess[r].peer # x
      BY <1>6, <2>2, <2>4, <3>1
    <3>2. CASE sess[r].peer = x
      <4>1. r = y
        BY <1>12, <2>4, <3>2
      <4>2. Unmoved \/ Taken1
        BY <1>5, <1>14, <3>2, <4>1
      <4> QED
        BY <1>8, <1>11, <2>4, <3>2, <4>1, <4>2
    <3> QED
      BY <3>1, <3>2
  <2> QED
    BY <1>1, <2>1, <2>2, <2>3, <2>4, Undisturbed DEF CaughtInv
<1>15. ASSUME NEW r \in Replica, Answered1, r = y, sess[r].peer = x
       PROVE  ReceiverOK(r)'
  <2>1. Active(r)
    BY <1>15, SyncAssumption DEF Active
  <2>2. wire'[<<x, r>>] = wire[<<x, r>>]
    BY <1>2, <1>3, <1>15
  <2>3. msg.type = "Have"
    BY <1>15 DEF Answered1
  <2> HIDE DEF y, msg
  <2> QED
    BY <1>1, <1>2, <1>4, <1>7, <1>12, <1>15, <2>1, <2>2, <2>3, Promised DEF y
<1>16. ASSUME NEW r \in Replica PROVE ReceiverOK(r)'
  <2>1. CASE r = x
    BY <1>13, <2>1
  <2>2. CASE r # x /\ Answered1 /\ r = y /\ sess[r].peer = x
    BY <1>15, <2>2
  <2>3. CASE r # x /\ ~(Answered1 /\ r = y /\ sess[r].peer = x)
    BY <1>14, <2>3
  <2> QED
    BY <2>1, <2>2, <2>3
<1> QED
  BY <1>16 DEF CaughtInv

-----------------------------------------------------------------------------
LEMMA StepCaught ==
  ASSUME ~StoreErrors
  PROVE  MergeInv /\ CaughtInv /\ [Next]_vars => CaughtInv'
<1> SUFFICES ASSUME MergeInv, CaughtInv, [Next]_vars PROVE CaughtInv'
  OBVIOUS
<1>1. CASE UNCHANGED vars
  BY <1>1, EndingsCaught DEF vars, MergeInv
<1>2. CASE Next
  BY <1>2, IssueCaught, ConnectCaught, WriteCaught, ReceiveCaught, IngestCaught,
     FinishCaught, AbortCaught, BreakCaught, CrashCaught
  DEF Next, Step
<1> QED
  BY <1>1, <1>2

LEMMA CaughtUp == CaughtInv => OkMeansCaughtUp
<1> SUFFICES ASSUME CaughtInv, NEW r \in Replica, Done(r) PROVE due[r] \subseteq store[r]
  BY DEF OkMeansCaughtUp
<1>1. Caught(r)
  BY DEF Done, CaughtInv, ReceiverOK
<1> QED
  BY <1>1 DEF Done, Caught

(* When sync() returns Ok, its replica holds every op the peer held when   *)
(* the exchange opened, whatever broke, crashed or was exchanged between,  *)
(* if every read and append of the stores succeeds.  (The condition is     *)
(* needed: handle tells nobody of an op the store could not take.)         *)
THEOREM OkIsCaughtUp ==
  ASSUME ~StoreErrors
  PROVE  Spec => []OkMeansCaughtUp
<1>1. MergeInv /\ CaughtInv /\ [Next]_vars => (MergeInv /\ CaughtInv)'
  BY StepMerge, StepCaught
<1>2. Init => MergeInv /\ CaughtInv
  BY InitMerge, InitCaught
<1> QED
  BY <1>1, <1>2, CaughtUp, PTL DEF Spec

-----------------------------------------------------------------------------
(* How a session of sync() says its Have and then its Ops: what its outbox *)
(* may be after it heard so many messages.                                 *)
Speaks(q) ==
    /\ ~q.sent_have => q.outbox = <<>> /\ q.heard = 0
    /\ q.heard = 0 /\ q.outbox # <<>> => Len(q.outbox) = 1 /\ Head(q.outbox).type = "Have"
    /\ q.heard = 1 /\ q.outbox # <<>> =>
          \/ /\ Len(q.outbox) = 1
             /\ Head(q.outbox).type = "Ops"
          \/ /\ Len(q.outbox) = 2
             /\ Head(q.outbox).type = "Have"
             /\ q.outbox[2].type = "Ops"
    /\ q.heard = 2 => q.outbox = <<>>
    /\ \A n \in 1..Len(q.outbox) : IsFiniteSet(q.outbox[n].ops)
    /\ q.written > 0 => q.outbox # <<>> /\ Parts(Head(q.outbox)) <= MaxFrame

HaveToSay(q) == ~q.sent_have \/ (q.outbox # <<>> /\ Head(q.outbox).type = "Have")

OpsToSay(q) == q.heard = 0 \/ q.outbox # <<>>

(* A stream s to one that heard h messages holds the rest of a Have and an *)
(* Ops, each part before the rest of its frame.                            *)
Streamed(s, h) ==
    /\ \A n \in 1..Len(s) : n < Len(s) /\ ~s[n].last => s[n + 1].msg = s[n].msg
    /\ \A n, k \in 1..Len(s) : n < k /\ s[n].last =>
          s[n].msg.type = "Have" /\ s[k].msg.type = "Ops"
    /\ \A n, k \in 1..Len(s) : n < k /\ s[n].msg.type = "Ops" => s[k].msg.type = "Ops"
    /\ h = 0 /\ s # <<>> => Head(s).msg.type = "Have"
    /\ h = 1 => \A n \in 1..Len(s) : s[n].msg.type = "Ops"
    /\ h = 2 => s = <<>>

(* A frame that is not in the stream to its end is still being written.    *)
RestComes(r, q, s) ==
    \/ s = <<>>
    \/ s[Len(s)].last
    \/ q.peer = r /\ q.alive /\ q.written > 0 /\ Head(q.outbox) = s[Len(s)].msg

(* What one with session q has yet to say to the one with session me, and  *)
(* what of it is in the stream s between them.                             *)
Talking(q, s, me) ==
    /\ q.alive = me.alive
    /\ ~me.alive => s = <<>>
    /\ HaveToSay(q) => me.heard = 0 /\ \A n \in 1..Len(s) : s[n].msg.type = "Have" /\ ~s[n].last
    /\ OpsToSay(q) => me.heard # 2 /\ \A n \in 1..Len(s) : s[n].last => s[n].msg.type = "Have"
    /\ me.alive /\ me.heard = 0 /\ s = <<>> => HaveToSay(q)

InStep(r) ==
    Active(r) =>
        LET q == sess[sess[r].peer]
            s == wire[<<sess[r].peer, r>>]
        IN  /\ Speaks(sess[r])
            /\ Streamed(s, sess[r].heard)
            /\ RestComes(r, q, s)
            /\ q.peer = r => Talking(q, s, sess[r])

StepsInv == \A r \in Replica : IsFiniteSet(store[r]) /\ InStep(r)

Part == [msg : Message, last : BOOLEAN]

(* So nothing is left over by one that returns Ok, nor cut off.            *)
LEMMA StepsShow == MergeInv /\ StepsInv => FramesInStep
<1> SUFFICES ASSUME MergeInv, StepsInv, NEW r \in Replica, Active(r)
             PROVE  LET p == sess[r].peer
                        s == wire[<<p, r>>]
                    IN  /\ \A n \in 1..Len(s) : ~s[n].last =>
                              IF n < Len(s) THEN s[n + 1].msg = s[n].msg
                              ELSE \/ sess[p].peer = r /\ sess[p].written > 0 /\ Head(sess[p].outbox) = s[n].msg
                                   \/ ~sess[r].alive
                        /\ Done(r) =>
                              /\ s = <<>>
                              /\ sess[p].peer = r => sess[p].outbox = <<>> /\ sess[p].sent_have
  BY DEF FramesInStep
<1> DEFINE p == sess[r].peer
           s == wire[<<p, r>>]
           q == sess[p]
<1>1. s \in Seq(Part) /\ p \in Replica
  BY Typing DEF Part
<1>2. Streamed(s, sess[r].heard) /\ RestComes(r, q, s) /\ (q.peer = r => Talking(q, s, sess[r]))
  BY DEF StepsInv, InStep
<1>3. q.peer = r => Speaks(q)
  BY <1>1, SyncAssumption DEF StepsInv, InStep, Active
<1> HIDE DEF s, q
<1>4. ASSUME NEW n \in 1..Len(s), ~s[n].last
      PROVE  IF n < Len(s) THEN s[n + 1].msg = s[n].msg
             ELSE \/ q.peer = r /\ q.written > 0 /\ Head(q.outbox) = s[n].msg
                  \/ ~sess[r].alive
  <2>1. CASE n < Len(s)
    BY <1>2, <1>4, <2>1 DEF Streamed
  <2>2. CASE ~(n < Len(s))
    <3>1. n = Len(s) /\ s # <<>>
      BY <1>1, <2>2
    <3> QED
      BY <1>2, <1>4, <2>2, <3>1 DEF RestComes
  <2> QED
    BY <2>1, <2>2
<1>5. ASSUME Done(r)
      PROVE  s = <<>> /\ (q.peer = r => q.outbox = <<>> /\ q.sent_have)
  BY <1>2, <1>3, <1>5 DEF Done, Streamed, Talking, OpsToSay, Speaks
<1> QED
  BY <1>4, <1>5 DEF s, q

(* Nothing of a session but its inbox has changed.                         *)
Same(q2, q) ==
    /\ q2.peer = q.peer /\ q2.sent_have = q.sent_have /\ q2.heard = q.heard
    /\ q2.outbox = q.outbox /\ q2.written = q.written /\ q2.alive = q.alive

(* A step that changes neither session nor the stream between them.        *)
LEMMA KeptInStep ==
  ASSUME NEW r \in Replica, InStep(r),
         Active(r)' => /\ wire'[<<sess[r].peer, r>>] = wire[<<sess[r].peer, r>>]
                       /\ Same(sess'[r], sess[r])
                       /\ Same(sess'[sess[r].peer], sess[sess[r].peer])
  PROVE  InStep(r)'
<1> SUFFICES ASSUME Active(r)' PROVE InStep(r)'
  BY DEF InStep
<1> DEFINE p == sess[r].peer
           s == wire[<<p, r>>]
<1>1. Active(r) /\ sess'[r].peer = p
  BY DEF Active, Same
<1>2. /\ Speaks(sess[r]) /\ Streamed(s, sess[r].heard) /\ RestComes(r, sess[p], s)
      /\ sess[p].peer = r => Talking(sess[p], s, sess[r])
  BY <1>1 DEF InStep
<1>3. Speaks(sess'[r]) /\ Streamed(s, sess'[r].heard) /\ RestComes(r, sess'[p], s)
  BY <1>2 DEF Same, Speaks, RestComes
<1>4. sess'[p].peer = r => Talking(sess'[p], s, sess'[r])
  BY <1>2 DEF Same, Talking, HaveToSay, OpsToSay
<1> QED
  BY <1>1, <1>3, <1>4 DEF InStep

(* The steps, one by one.                                                  *)
LEMMA InitSteps == Init => StepsInv
BY FS_EmptySet DEF Init, StepsInv, InStep, Active, NoSession, Session

LEMMA IssueSteps ==
  ASSUME MergeInv, StepsInv, NEW x \in Replica, NEW op \in Op, Issue(x, op)
  PROVE  StepsInv'
<1>1. ASSUME NEW r \in Replica PROVE IsFiniteSet(store'[r]) /\ InStep(r)'
  <2>1. store'[r] = store[r] \/ store'[r] = store[r] \cup {op}
    BY DEF Issue, MergeInv
  <2>2. IsFiniteSet(store'[r])
    BY <2>1, FS_AddElement DEF StepsInv
  <2>3. InStep(r)'
    BY KeptInStep DEF StepsInv, Issue, Same
  <2> QED
    BY <2>2, <2>3
<1> QED
  BY <1>1 DEF StepsInv

LEMMA IngestSteps ==
  ASSUME MergeInv, StepsInv, NEW x \in Replica, NEW op \in Op, Ingest(x, op)
  PROVE  StepsInv'
<1> DEFINE rest == [sess[x] EXCEPT !.inbox = @ \ {op}]
<1>1. sess' = [sess EXCEPT ![x] = rest] /\ wire' = wire
  BY DEF Ingest
<1>2. sess[x] \in Sessions
  BY DEF MergeInv, SessionOK
<1>3. Same(rest, sess[x])
  BY <1>2 DEF Sessions, Same
<1> HIDE DEF rest
<1>4. \A q \in Replica : Same(sess'[q], sess[q])
  BY <1>1, <1>3 DEF MergeInv, Same
<1>5. ASSUME NEW r \in Replica PROVE IsFiniteSet(store'[r]) /\ InStep(r)'
  <2>1. store'[r] = store[r] \/ store'[r] = store[r] \cup {op}
    BY DEF Ingest, MergeInv
  <2>2. IsFiniteSet(store'[r])
    BY <2>1, FS_AddElement DEF StepsInv
  <2>3. Active(r)' => sess[r].peer \in Replica
    BY <1>4, Typing DEF Active, Same
  <2>4. InStep(r)'
    BY <1>1, <1>4, <2>3, KeptInStep DEF StepsInv
  <2> QED
    BY <2>2, <2>4
<1> QED
  BY <1>5 DEF StepsInv

(* Sessions that end, or lose their connection.                            *)
LEMMA EndingsSteps ==
  ASSUME MergeInv, StepsInv, UNCHANGED store,
         \A q \in Replica : \/ sess'[q] = NoSession
                            \/ sess'[q] = [sess[q] EXCEPT !.alive = FALSE]
                            \/ sess'[q] = sess[q],
         \A p, q \in Replica : wire'[<<p, q>>] \in {<<>>, wire[<<p, q>>]},
         \A r, p \in Replica :
             sess[r].peer = p /\ sess[p].peer = r /\ sess'[r].peer = p =>
                 \/ /\ sess'[r] = sess[r] /\ sess'[p] = sess[p]
                    /\ wire'[<<p, r>>] = wire[<<p, r>>]
                 \/ /\ wire'[<<p, r>>] = <<>>
                    /\ sess'[p].peer = r => sess'[p].alive = FALSE /\ sess'[r].alive = FALSE
                 \/ /\ sess'[p].peer # r
                    /\ ~(sess[p].alive /\ sess[p].written > 0)
  PROVE  StepsInv'
<1>1. ASSUME NEW q \in Replica, sess'[q].peer # NoPeer
      PROVE  /\ sess'[q].peer = sess[q].peer /\ sess'[q].heard = sess[q].heard
             /\ sess'[q].outbox = sess[q].outbox /\ sess'[q].sent_have = sess[q].sent_have
             /\ sess'[q].written = sess[q].written
  <2>1. sess[q] \in Sessions
    BY DEF MergeInv, SessionOK
  <2>2. sess'[q] # NoSession
    BY <1>1 DEF NoSession, Session
  <2> QED
    BY <1>1, <2>1, <2>2 DEF Sessions
<1>2. ASSUME NEW r \in Replica PROVE InStep(r)'
  <2> SUFFICES ASSUME Active(r)' PROVE InStep(r)'
    BY DEF InStep
  <2> DEFINE p == sess[r].peer
             s == wire[<<p, r>>]
             t == wire'[<<p, r>>]
  <2>1. Active(r) /\ sess'[r].peer = p /\ p \in Replica
    BY <1>1, Typing DEF Active
  <2>2. /\ Speaks(sess[r]) /\ Streamed(s, sess[r].heard) /\ RestComes(r, sess[p], s)
        /\ sess[p].peer = r => Talking(sess[p], s, sess[r])
    BY <2>1 DEF StepsInv, InStep
  <2>3. /\ sess'[r].heard = sess[r].heard /\ sess'[r].outbox = sess[r].outbox
        /\ sess'[r].sent_have = sess[r].sent_have /\ sess'[r].written = sess[r].written
    BY <1>1 DEF Active
  <2>4. Speaks(sess'[r])
    BY <2>2, <2>3 DEF Speaks
  <2>5. t = <<>> \/ t = s
    BY <2>1
  <2>6. Streamed(<<>>, sess'[r].heard) /\ RestComes(r, sess'[p], <<>>)
    BY DEF Streamed, RestComes
  <2>7. Streamed(t, sess'[r].heard)
    BY <2>2, <2>3, <2>5, <2>6
  <2>8. sess'[p].peer = r => sess[p].peer = r
    BY <1>1, <2>1, SyncAssumption
  <2>9. CASE sess[p].peer # r
    <3>1. RestComes(r, sess'[p], s)
      BY <2>2, <2>9 DEF RestComes
    <3> QED
      BY <2>1, <2>4, <2>5, <2>6, <2>7, <2>8, <2>9, <3>1 DEF InStep
  <2>10. CASE sess[p].peer = r
    <3>1. CASE sess'[r] = sess[r] /\ sess'[p] = sess[p] /\ t = s
      BY <2>1, <2>2, <3>1 DEF InStep
    <3>2. CASE t = <<>> /\ (sess'[p].peer = r => sess'[p].alive = FALSE /\ sess'[r].alive = FALSE)
      <4>1. ASSUME sess'[p].peer = r
            PROVE  Talking(sess'[p], <<>>, sess'[r])
        <5>1. Talking(sess[p], s, sess[r])
          BY <2>2, <2>10
        <5>2. /\ sess'[p].heard = sess[p].heard
              /\ sess'[p].outbox = sess[p].outbox /\ sess'[p].sent_have = sess[p].sent_have
          BY <1>1, <2>1, <4>1, SyncAssumption
        <5>3. sess'[p].alive = sess'[r].alive /\ ~sess'[r].alive
          BY <3>2, <4>1
        <5>4. /\ HaveToSay(sess'[p]) => HaveToSay(sess[p])
              /\ OpsToSay(sess'[p]) => OpsToSay(sess[p])
          BY <5>2 DEF HaveToSay, OpsToSay
        <5>5. \A n \in 1..Len(<<>>) : FALSE
          OBVIOUS
        <5> QED
          BY <2>3, <5>1, <5>3, <5>4, <5>5 DEF Talking
      <4> QED
        BY <2>1, <2>4, <2>6, <2>7, <3>2, <4>1 DEF InStep
    <3>3. CASE sess'[p].peer # r /\ ~(sess[p].alive /\ sess[p].written > 0)
      <4>1. RestComes(r, sess'[p], s)
        BY <2>2, <3>3 DEF RestComes
      <4> QED
        BY <2>1, <2>4, <2>5, <2>6, <2>7, <3>3, <4>1 DEF InStep
    <3> QED
      BY <2>1, <2>10, <3>1, <3>2, <3>3
  <2> QED
    BY <2>9, <2>10
<1> QED
  BY <1>2 DEF StepsInv

LEMMA FinishSteps ==
  ASSUME MergeInv, StepsInv, NEW x \in Replica, Finish(x)
  PROVE  StepsInv'
<1>1. sess' = [sess EXCEPT ![x] = NoSession] /\ wire' = wire /\ store' = store
  BY DEF Finish
<1>2. ~(sess[x].alive /\ sess[x].written > 0)
  BY DEF Finish, Done, StepsInv, InStep, Speaks
<1>3. NoSession.peer = NoPeer
  BY DEF NoSession, Session
<1>4. \A r \in Replica : r # x => sess'[r] = sess[r]
  BY <1>1 DEF MergeInv
<1>5. sess'[x] = NoSession
  BY <1>1 DEF MergeInv
<1>6. ASSUME NEW r \in Replica, NEW p \in Replica, sess[p].peer = r, sess'[r].peer = p
      PROVE  \/ /\ sess'[r] = sess[r] /\ sess'[p] = sess[p]
                /\ wire'[<<p, r>>] = wire[<<p, r>>]
             \/ sess'[p].peer # r /\ ~(sess[p].alive /\ sess[p].written > 0)
  BY <1>1, <1>2, <1>3, <1>4, <1>5, <1>6, SyncAssumption
<1> QED
  BY <1>1, <1>4, <1>5, <1>6, EndingsSteps

LEMMA AbortSteps ==
  ASSUME MergeInv, StepsInv, NEW x \in Replica, Abort(x)
  PROVE  StepsInv'
<1>1. /\ sess' = [s \in Replica |->
                     IF s = x THEN NoSession
                     ELSE IF s = sess[x].peer /\ sess[s].peer = x THEN [sess[s] EXCEPT !.alive = FALSE]
                     ELSE sess[s]]
      /\ wire' = wire /\ store' = store
  BY DEF Abort
<1>2. ~(sess[x].alive /\ sess[x].written > 0)
  <2> SUFFICES ASSUME sess[x].alive, sess[x].written > 0 PROVE FALSE
    OBVIOUS
  <2>1. Writes(x) /\ Parts(Head(sess[x].outbox)) > MaxFrame
    BY DEF Abort
  <2>2. Active(x)
    BY <2>1 DEF Writes
  <2>3. Speaks(sess[x]) /\ sess[x].outbox \in Seq(Message)
    BY <2>2, Typing DEF StepsInv, InStep
  <2>4. sess[x].outbox # <<>> /\ Parts(Head(sess[x].outbox)) <= MaxFrame
    BY <2>3 DEF Speaks
  <2>5. IsFiniteSet(Head(sess[x].outbox).ops)
    BY <2>3, <2>4 DEF Speaks
  <2>6. Parts(Head(sess[x].outbox)) \in Nat
    BY <2>5, FS_CardinalityType DEF Parts
  <2> QED
    BY <2>1, <2>4, <2>6, SyncAssumption
<1>3. NoSession.peer = NoPeer
  BY DEF NoSession, Session
<1>4. ASSUME NEW r \in Replica, NEW p \in Replica,
             sess[r].peer = p, sess[p].peer = r, sess'[r].peer = p
      PROVE  \/ /\ sess'[r] = sess[r] /\ sess'[p] = sess[p]
                /\ wire'[<<p, r>>] = wire[<<p, r>>]
             \/ sess'[p].peer # r /\ ~(sess[p].alive /\ sess[p].written > 0)
  <2>1. r # x
    BY <1>1, <1>3, <1>4, SyncAssumption
  <2>2. CASE p = x
    BY <1>1, <1>2, <1>3, <2>2, SyncAssumption
  <2>3. CASE p # x
    BY <1>1, <1>4, <2>1, <2>3
  <2> QED
    BY <2>2, <2>3
<1> QED
  BY <1>1, <1>4, EndingsSteps

LEMMA BreakSteps ==
  ASSUME MergeInv, StepsInv, NEW i \in Replica, NEW j \in Replica, Break(i, j)
  PROVE  StepsInv'
<1>1. /\ sess' = [s \in Replica |->
                     IF <<s, sess[s].peer>> \in {<<i, j>>, <<j, i>>}
                     THEN [sess[s] EXCEPT !.alive = FALSE] ELSE sess[s]]
      /\ wire' = [p \in Replica \X Replica |->
                     IF p \in {<<i, j>>, <<j, i>>} THEN <<>> ELSE wire[p]]
      /\ store' = store
  BY DEF Break, FreshStreams
<1>2. \A s \in Replica : [sess[s] EXCEPT !.alive = FALSE].alive = FALSE
  <2>1. \A s \in Replica : sess[s] \in Sessions
    BY DEF MergeInv, SessionOK
  <2> QED
    BY <2>1 DEF Sessions
<1>3. ASSUME NEW r \in Replica, NEW p \in Replica,
             sess[r].peer = p, sess[p].peer = r, sess'[r].peer = p
      PROVE  \/ /\ sess'[r] = sess[r] /\ sess'[p] = sess[p]
                /\ wire'[<<p, r>>] = wire[<<p, r>>]
             \/ wire'[<<p, r>>] = <<>> /\ sess'[p].alive = FALSE /\ sess'[r].alive = FALSE
  <2>1. CASE <<r, p>> \in {<<i, j>>, <<j, i>>}
    BY <1>1, <1>2, <1>3, <2>1
  <2>2. CASE <<r, p>> \notin {<<i, j>>, <<j, i>>}
    BY <1>1, <1>3, <2>2
  <2> QED
    BY <2>1, <2>2
<1>4. \A q \in Replica : \/ sess'[q] = [sess[q] EXCEPT !.alive = FALSE]
                         \/ sess'[q] = sess[q]
  BY <1>1
<1>5. \A p, q \in Replica : wire'[<<p, q>>] \in {<<>>, wire[<<p, q>>]}
  BY <1>1
<1>6. \A r, p \in Replica :
          sess[r].peer = p /\ sess[p].peer = r /\ sess'[r].peer = p =>
              \/ /\ sess'[r] = sess[r] /\ sess'[p] = sess[p]
                 /\ wire'[<<p, r>>] = wire[<<p, r>>]
              \/ /\ wire'[<<p, r>>] = <<>>
                 /\ sess'[p].peer = r => sess'[p].alive = FALSE /\ sess'[r].alive = FALSE
              \/ /\ sess'[p].peer # r
                 /\ ~(sess[p].alive /\ sess[p].written > 0)
  <2> TAKE r, p \in Replica
  <2> HAVE sess[r].peer = p /\ sess[p].peer = r /\ sess'[r].peer = p
  <2>1. \/ /\ sess'[r] = sess[r] /\ sess'[p] = sess[p]
           /\ wire'[<<p, r>>] = wire[<<p, r>>]
        \/ wire'[<<p, r>>] = <<>> /\ sess'[p].alive = FALSE /\ sess'[r].alive = FALSE
    BY <1>3
  <2> QED
    BY <2>1
<1> QED
  BY <1>1, <1>4, <1>5, <1>6, EndingsSteps

LEMMA CrashSteps ==
  ASSUME MergeInv, StepsInv, NEW x \in Replica, Crash(x)
  PROVE  StepsInv'
<1>1. /\ sess' = [s \in Replica |->
                     IF s = x THEN NoSession
                     ELSE IF sess[s].peer = x THEN [sess[s] EXCEPT !.alive = FALSE]
                     ELSE sess[s]]
      /\ wire' = [p \in Replica \X Replica |-> IF x \in {p[1], p[2]} THEN <<>> ELSE wire[p]]
      /\ store' = store
  BY DEF Crash
<1>2. NoSession.peer = NoPeer
  BY DEF NoSession, Session
<1>3. ASSUME NEW r \in Replica, NEW p \in Replica,
             sess[r].peer = p, sess[p].peer = r, sess'[r].peer = p
      PROVE  \/ /\ sess'[r] = sess[r] /\ sess'[p] = sess[p]
                /\ wire'[<<p, r>>] = wire[<<p, r>>]
             \/ wire'[<<p, r>>] = <<>> /\ sess'[p].peer # r
  <2>1. r # x
    BY <1>1, <1>2, <1>3, SyncAssumption
  <2>2. CASE p = x
    BY <1>1, <1>2, <2>2, SyncAssumption
  <2>3. CASE p # x
    BY <1>1, <1>3, <2>1, <2>3
  <2> QED
    BY <2>2, <2>3
<1> QED
  BY <1>1, <1>3, EndingsSteps

LEMMA ConnectSteps ==
  ASSUME MergeInv, StepsInv, NEW i \in Replica, NEW x \in Replica, Connect(i, x)
  PROVE  StepsInv'
<1>1. PICK ids \in OpIds(i) :
        sess' = [sess EXCEPT ![i] = Session(x, <<Have(ids)>>), ![x] = Session(i, <<>>)]
  BY DEF Connect, OpenSessions
<1>2. /\ i # x /\ store' = store
      /\ wire' = [p \in Replica \X Replica |->
                     IF p \in {<<i, x>>, <<x, i>>} THEN <<>> ELSE wire[p]]
  BY DEF Connect, OpenSessions, FreshStreams
<1>3. /\ sess'[i] = Session(x, <<Have(ids)>>) /\ sess'[x] = Session(i, <<>>)
      /\ \A q \in Replica \ {i, x} : sess'[q] = sess[q]
  BY <1>1, <1>2 DEF MergeInv
<1>4. /\ sess'[i].peer = x /\ sess'[i].heard = 0 /\ sess'[i].outbox = <<Have(ids)>>
      /\ sess'[i].written = 0 /\ sess'[i].alive = TRUE
      /\ sess'[x].peer = i /\ sess'[x].heard = 0 /\ sess'[x].outbox = <<>>
      /\ sess'[x].written = 0 /\ sess'[x].alive = TRUE
  BY <1>3 DEF Session
<1>5. sess'[i].sent_have /\ ~sess'[x].sent_have
  <2>1. <<Have(ids)>> # <<>>
    OBVIOUS
  <2>2. sess'[i].sent_have
    BY <1>3, <2>1, InitiatorSays
  <2>3. sess'[x].sent_have = (<<>> # <<>>)
    BY <1>3 DEF Session
  <2> QED
    BY <2>2, <2>3
<1>6. wire'[<<i, x>>] = <<>> /\ wire'[<<x, i>>] = <<>>
  BY <1>2
<1>7. Have(ids).type = "Have" /\ IsFiniteSet(Have(ids).ops)
  BY FS_EmptySet DEF Have, OpIds, StepsInv
<1>8. Speaks(sess'[i]) /\ Speaks(sess'[x])
  BY <1>4, <1>5, <1>7 DEF Speaks
<1>9. \A r, h : Streamed(<<>>, 0) /\ RestComes(r, h, <<>>)
  BY DEF Streamed, RestComes
<1>10. Talking(sess'[x], <<>>, sess'[i]) /\ Talking(sess'[i], <<>>, sess'[x])
  <2>1. HaveToSay(sess'[x]) /\ HaveToSay(sess'[i])
    BY <1>4, <1>5, <1>7 DEF HaveToSay
  <2>2. sess'[x].alive = sess'[i].alive /\ sess'[i].alive /\ sess'[x].alive
    BY <1>4
  <2> QED
    BY <1>4, <2>1, <2>2 DEF Talking
<1>11. InStep(i)' /\ InStep(x)'
  BY <1>4, <1>6, <1>8, <1>9, <1>10 DEF InStep
<1>12. ASSUME NEW r \in Replica \ {i, x} PROVE InStep(r)'
  <2> SUFFICES ASSUME Active(r)' PROVE InStep(r)'
    BY DEF InStep
  <2> DEFINE p == sess[r].peer
             s == wire[<<p, r>>]
  <2>1. Active(r) /\ sess'[r] = sess[r] /\ p \in Replica
    BY <1>3, Typing DEF Active
  <2>2. wire'[<<p, r>>] = s
    BY <1>2, <2>1
  <2>3. /\ Speaks(sess[r]) /\ Streamed(s, sess[r].heard) /\ RestComes(r, sess[p], s)
        /\ sess[p].peer = r => Talking(sess[p], s, sess[r])
    BY <2>1 DEF StepsInv, InStep
  <2>4. CASE p \in {i, x}
    <3>1. sess[p].peer = NoPeer
      BY <2>4 DEF Connect, Active
    <3>2. RestComes(r, sess'[p], s)
      BY <2>3, <3>1, SyncAssumption DEF RestComes
    <3> QED
      BY <1>4, <2>1, <2>2, <2>3, <2>4, <3>2 DEF InStep
  <2>5. CASE p \notin {i, x}
    BY <1>3, <2>1, <2>2, <2>3, <2>5 DEF InStep
  <2> QED
    BY <2>4, <2>5
<1> QED
  BY <1>2, <1>11, <1>12 DEF StepsInv

-----------------------------------------------------------------------------
(* An outbox of which the first message is said.                           *)
LEMMA TailIsShorter ==
  ASSUME NEW o \in Seq(Message), o # <<>>
  PROVE  /\ Len(Tail(o)) = Len(o) - 1 /\ Len(o) \in Nat /\ Tail(o) \in Seq(Message)
         /\ \A n \in 1..Len(Tail(o)) : Tail(o)[n] = o[n + 1]
         /\ Len(o) = 1 => Tail(o) = <<>>
         /\ Len(o) = 2 => Tail(o) # <<>> /\ Head(Tail(o)) = o[2]
<1>1. Len(Tail(o)) = Len(o) - 1 /\ Len(o) \in Nat /\ Tail(o) \in Seq(Message)
  OBVIOUS
<1>2. \A n \in 1..Len(Tail(o)) : Tail(o)[n] = o[n + 1]
  OBVIOUS
<1>3. Tail(o) = <<>> <=> Len(Tail(o)) = 0
  BY <1>1, EmptySeq
<1>4. Len(o) = 2 => Head(Tail(o)) = o[2]
  BY <1>1, <1>2, <1>3
<1> QED
  BY <1>1, <1>2, <1>3, <1>4

(* A part that is written goes on with its frame, or begins the next.      *)
LEMMA PartIsNext ==
  ASSUME NEW s \in Seq(Part), NEW part \in Part, NEW q, NEW me, NEW r, NEW t,
         t = Append(s, part), q.outbox \in Seq(Message), q.outbox # <<>>,
         q.alive, part.msg = Head(q.outbox), me.heard \in 0..2,
         Speaks(q), Streamed(s, me.heard), RestComes(r, q, s), Talking(q, s, me)
  PROVE  Streamed(t, me.heard)
<1>1. /\ Len(t) = Len(s) + 1 /\ Len(s) \in Nat /\ t[Len(s) + 1] = part
      /\ \A n \in 1..Len(s) : t[n] = s[n] /\ s[n] \in Part
      /\ t # <<>>
  OBVIOUS
<1>2. \A e \in Part : e.msg.type = "Have" \/ e.msg.type = "Ops"
  BY DEF Part, Message
<1>3. me.alive /\ q.sent_have
  BY DEF Talking, Speaks
<1>4. \A n \in 1..Len(s) : s[n].last => s[n].msg.type = "Have"
  BY DEF Talking, OpsToSay
<1>5. part.msg.type = "Have" =>
          me.heard = 0 /\ \A n \in 1..Len(s) : s[n].msg.type = "Have" /\ ~s[n].last
  BY DEF Talking, HaveToSay
<1>6. s = <<>> \/ s[Len(s)].last \/ part.msg = s[Len(s)].msg
  BY DEF RestComes
<1>7. \A n \in 1..Len(t) : n < Len(t) /\ ~t[n].last => t[n + 1].msg = t[n].msg
  <2> SUFFICES ASSUME NEW n \in 1..Len(s), ~s[n].last
               PROVE  t[n + 1].msg = s[n].msg
    BY <1>1
  <2>1. CASE n = Len(s)
    BY <1>1, <1>6, <2>1
  <2>2. CASE n < Len(s)
    BY <1>1, <2>2 DEF Streamed
  <2> QED
    BY <1>1, <2>1, <2>2
<1>8. ASSUME NEW n \in 1..Len(t), NEW k \in 1..Len(t), n < k, t[n].last
      PROVE  t[n].msg.type = "Have" /\ t[k].msg.type = "Ops"
  <2>1. n \in 1..Len(s) /\ t[n] = s[n]
    BY <1>1, <1>8
  <2>2. CASE k \in 1..Len(s)
    BY <1>1, <1>8, <2>1, <2>2 DEF Streamed
  <2>3. CASE k = Len(s) + 1
    BY <1>1, <1>2, <1>4, <1>5, <1>8, <2>1, <2>3
  <2> QED
    BY <1>1, <2>2, <2>3
<1>9. ASSUME NEW n \in 1..Len(t), NEW k \in 1..Len(t), n < k, t[n].msg.type = "Ops"
      PROVE  t[k].msg.type = "Ops"
  <2>1. n \in 1..Len(s) /\ t[n] = s[n]
    BY <1>1, <1>9
  <2>2. CASE k \in 1..Len(s)
    BY <1>1, <1>9, <2>1, <2>2 DEF Streamed
  <2>3. CASE k = Len(s) + 1
    BY <1>1, <1>2, <1>5, <1>9, <2>1, <2>3
  <2> QED
    BY <1>1, <2>2, <2>3
<1>10. ASSUME me.heard = 0 PROVE Head(t).msg.type = "Have"
  <2>1. Head(t) = t[1]
    BY <1>1
  <2>2. CASE s = <<>>
    <3>1. HaveToSay(q)
      BY <1>3, <1>10, <2>2 DEF Talking
    <3> QED
      BY <1>1, <1>3, <2>1, <2>2, <3>1 DEF HaveToSay
  <2>3. CASE s # <<>>
    <3>1. Head(s).msg.type = "Have" /\ Head(s) = s[1] /\ 1 \in 1..Len(s)
      BY <1>1, <1>10, <2>3 DEF Streamed
    <3> QED
      BY <1>1, <2>1, <3>1
  <2> QED
    BY <2>2, <2>3
<1>11. ASSUME me.heard = 1, NEW n \in 1..Len(t) PROVE t[n].msg.type = "Ops"
  <2>1. CASE n \in 1..Len(s)
    BY <1>1, <1>11, <2>1 DEF Streamed
  <2>2. CASE n = Len(s) + 1
    BY <1>1, <1>2, <1>5, <1>11, <2>2
  <2> QED
    BY <1>1, <2>1, <2>2
<1>12. me.heard # 2
  BY DEF Talking, OpsToSay
<1> QED
  BY <1>7, <1>8, <1>9, <1>10, <1>11, <1>12 DEF Streamed

(* What writing a part of its next message leaves of a session.            *)
Wrote(q, q2, part) ==
    /\ q2.peer = q.peer /\ q2.sent_have = q.sent_have /\ q2.heard = q.heard
    /\ q2.alive = q.alive
    /\ part.last => q2.outbox = Tail(q.outbox) /\ q2.written = 0
    /\ ~part.last => q2.outbox = q.outbox /\ q2.written = q.written + 1

(* ... and after it there is that much less to say.                        *)
LEMMA PartIsSaid ==
  ASSUME NEW s \in Seq(Part), NEW part \in Part, NEW q, NEW q2, NEW me, NEW r, NEW t,
         t = Append(s, part), q.outbox \in Seq(Message), q.outbox # <<>>, q.written \in Nat,
         q.alive, q.peer = r, part.msg = Head(q.outbox), q.heard \in 0..2, me.heard \in 0..2,
         Parts(Head(q.outbox)) <= MaxFrame,
         Speaks(q), Talking(q, s, me), Wrote(q, q2, part)
  PROVE  Speaks(q2) /\ RestComes(r, q2, t) /\ Talking(q2, t, me)
<1>0. /\ q2.peer = q.peer /\ q2.sent_have = q.sent_have /\ q2.heard = q.heard
      /\ q2.alive = q.alive
      /\ part.last => q2.outbox = Tail(q.outbox) /\ q2.written = 0
      /\ ~part.last => q2.outbox = q.outbox /\ q2.written = q.written + 1
  BY DEF Wrote
<1>1. /\ Len(t) = Len(s) + 1 /\ Len(s) \in Nat /\ t[Len(s) + 1] = part
      /\ \A n \in 1..Len(s) : t[n] = s[n] /\ s[n] \in Part
      /\ t # <<>>
  OBVIOUS
<1>2. /\ Head(q.outbox) = q.outbox[1] /\ Len(q.outbox) \in Nat /\ Len(q.outbox) >= 1
      /\ Len(Tail(q.outbox)) = Len(q.outbox) - 1
      /\ \A n \in 1..Len(Tail(q.outbox)) : Tail(q.outbox)[n] = q.outbox[n + 1]
      /\ Head(q.outbox) \in Message
  OBVIOUS
<1>3. \A e \in Message : ~(e.type = "Have" /\ e.type = "Ops") /\ (e.type = "Have" \/ e.type = "Ops")
  BY <1>0 DEF Message
<1>4. q.sent_have /\ me.alive /\ q.heard \in {0, 1} /\ OpsToSay(q)
  BY <1>0 DEF Talking, Speaks, OpsToSay
<1>5. me.heard # 2 /\ \A n \in 1..Len(s) : s[n].last => s[n].msg.type = "Have"
  BY <1>0, <1>4 DEF Talking
<1>6. CASE ~part.last
  <2>1. q2.outbox = q.outbox /\ q2.written > 0
    BY <1>0, <1>6
  <2>2. Speaks(q2)
    BY <1>0, <2>1 DEF Speaks
  <2>3. RestComes(r, q2, t)
    BY <1>0, <1>1, <2>1 DEF RestComes
  <2>4. HaveToSay(q2) => HaveToSay(q) /\ part.msg.type = "Have"
    BY <1>0, <1>4, <2>1 DEF HaveToSay
  <2>5. HaveToSay(q) => me.heard = 0 /\ \A n \in 1..Len(s) : s[n].msg.type = "Have" /\ ~s[n].last
    BY <1>0 DEF Talking
  <2>6. HaveToSay(q2) => me.heard = 0 /\ \A n \in 1..Len(t) : t[n].msg.type = "Have" /\ ~t[n].last
    BY <1>1, <1>6, <2>4, <2>5
  <2>7. me.heard # 2 /\ \A n \in 1..Len(t) : t[n].last => t[n].msg.type = "Have"
    BY <1>1, <1>5, <1>6
  <2>8. q2.alive = me.alive
    BY <1>0 DEF Talking
  <2> QED
    BY <1>0, <1>1, <1>4, <2>2, <2>3, <2>6, <2>7, <2>8 DEF Talking
<1>7. CASE part.last
  <2>1. q2.outbox = Tail(q.outbox) /\ q2.written = 0
    BY <1>0, <1>7
  <2>2. q.heard = 0 => q2.outbox = <<>> /\ part.msg.type = "Have"
    BY <1>2, <2>1, TailIsShorter DEF Speaks
  <2>3. q.heard = 1 => \/ q2.outbox = <<>> /\ part.msg.type = "Ops"
                      \/ /\ Len(q2.outbox) = 1 /\ q2.outbox # <<>>
                         /\ Head(q2.outbox).type = "Ops" /\ part.msg.type = "Have"
    <3> SUFFICES ASSUME q.heard = 1, ~(q2.outbox = <<>> /\ part.msg.type = "Ops")
                 PROVE  /\ Len(q2.outbox) = 1 /\ q2.outbox # <<>>
                        /\ Head(q2.outbox).type = "Ops" /\ part.msg.type = "Have"
      OBVIOUS
    <3>1. Len(q.outbox) = 1 => Tail(q.outbox) = <<>>
      BY <1>2, TailIsShorter
    <3>2. Len(q.outbox) = 2 /\ part.msg.type = "Have" /\ q.outbox[2].type = "Ops"
      BY <1>0, <1>2, <2>1, <3>1 DEF Speaks
    <3>3. Len(q2.outbox) = 1 /\ q2.outbox \in Seq(Message) /\ q2.outbox[1] = q.outbox[2]
      BY <1>2, <2>1, <3>2
    <3> QED
      BY <3>2, <3>3
  <2>4. \A n \in 1..Len(q2.outbox) : IsFiniteSet(q2.outbox[n].ops)
    BY <1>2, <2>1 DEF Speaks
  <2>5. Speaks(q2)
    BY <1>0, <1>4, <2>1, <2>2, <2>3, <2>4 DEF Speaks
  <2>6. RestComes(r, q2, t)
    BY <1>1, <1>7 DEF RestComes
  <2>7. Head(q2.outbox).type = "Ops" => Head(q2.outbox).type # "Have"
    OBVIOUS
  <2>8. ~HaveToSay(q2)
    BY <1>0, <1>4, <2>2, <2>3, <2>7 DEF HaveToSay
  <2>9. OpsToSay(q2) => part.msg.type = "Have"
    BY <1>0, <1>4, <2>2, <2>3 DEF OpsToSay
  <2>10. OpsToSay(q2) => \A n \in 1..Len(t) : t[n].last => t[n].msg.type = "Have"
    BY <1>1, <1>5, <2>9
  <2>11. q2.alive = me.alive
    BY <1>0 DEF Talking
  <2> QED
    BY <1>0, <1>1, <1>4, <1>5, <2>5, <2>6, <2>8, <2>10, <2>11 DEF Talking
<1> QED
  BY <1>6, <1>7

LEMMA WriteSteps ==
  ASSUME MergeInv, StepsInv, NEW x \in Replica, Write(x)
  PROVE  StepsInv'
<1> DEFINE to == sess[x].peer
           o == sess[x].outbox
           msg == Head(o)
           last == sess[x].written + 1 = Parts(msg)
           w == IF last THEN 0 ELSE sess[x].written + 1
           rest == IF last THEN Tail(o) ELSE o
           part == [msg |-> msg, last |-> last]
           s == wire[<<x, to>>]
           new == [sess[x] EXCEPT !.written = w, !.outbox = rest]
<1>1. Active(x) /\ o # <<>> /\ sess[x].alive /\ Parts(msg) <= MaxFrame
  BY DEF Write, Writes
<1>2. to \in Replica /\ to # x /\ sess[x] \in Sessions /\ o \in Seq(Message)
  BY <1>1, Typing
<1>3. /\ store' = store
      /\ wire' = [wire EXCEPT ![<<x, to>>] = Append(@, part)]
      /\ sess' = [sess EXCEPT ![x] = new]
  BY DEF Write
<1>4. /\ new.peer = to /\ new.heard = sess[x].heard /\ new.alive = sess[x].alive
      /\ new.sent_have = sess[x].sent_have /\ new.outbox = rest /\ new.written = w
  <2> HIDE DEF w, rest
  <2> QED
    BY <1>2 DEF Sessions
<1>5. /\ sess'[x] = new /\ \A q \in Replica \ {x} : sess'[q] = sess[q]
      /\ wire'[<<x, to>>] = Append(s, part)
      /\ \A p, q \in Replica : <<p, q>> # <<x, to>> => wire'[<<p, q>>] = wire[<<p, q>>]
  <2> HIDE DEF new, part
  <2> QED
    BY <1>2, <1>3 DEF MergeInv
<1>6. /\ part.msg = msg
      /\ part.last => rest = Tail(o) /\ w = 0
      /\ ~part.last => rest = o /\ w = sess[x].written + 1
  OBVIOUS
<1>7. part \in Part
  <2>1. msg \in Message /\ last \in BOOLEAN
    BY <1>1, <1>2
  <2> HIDE DEF msg, last
  <2> QED
    BY <2>1 DEF Part
<1>8. sess[x].written \in Nat /\ sess[x].heard \in 0..2
  BY <1>2 DEF Sessions
<1> HIDE DEF s, part, new, w, rest, last
<1>9. Speaks(sess[x])
  BY <1>1 DEF StepsInv, InStep
<1>10. ASSUME NEW y \in Replica, y = to, Active(y), sess[y].peer = x
       PROVE  InStep(y)'
  <2>1. Streamed(s, sess[y].heard) /\ RestComes(y, sess[x], s) /\ Talking(sess[x], s, sess[y])
        /\ Speaks(sess[y])
    BY <1>2, <1>10 DEF StepsInv, InStep, s
  <2>2. s \in Seq(Part) /\ sess[y].heard \in 0..2
    BY <1>2, <1>10, Typing DEF Part, s
  <2> DEFINE t == Append(s, part)
  <2>3. Streamed(t, sess[y].heard)
    <3> HIDE DEF t
    <3> QED
      BY <1>1, <1>2, <1>6, <1>7, <1>9, <2>1, <2>2, PartIsNext DEF t
  <2>4. Speaks(new) /\ RestComes(y, new, t) /\ Talking(new, t, sess[y])
    <3>1. new.outbox = rest /\ new.written = w
      BY <1>4
    <3> HIDE DEF t, msg
    <3>2. part.msg = Head(sess[x].outbox)
      BY <1>6 DEF msg
    <3>3. Parts(Head(sess[x].outbox)) <= MaxFrame
      BY <1>1 DEF msg
    <3>4. /\ part.last => new.outbox = Tail(sess[x].outbox) /\ new.written = 0
          /\ ~part.last => new.outbox = sess[x].outbox /\ new.written = sess[x].written + 1
      BY <1>6, <3>1
    <3>5. /\ new.peer = sess[x].peer /\ new.sent_have = sess[x].sent_have
          /\ new.heard = sess[x].heard /\ new.alive = sess[x].alive /\ sess[x].peer = y
      BY <1>4, <1>10
    <3>6. sess[x].outbox \in Seq(Message) /\ sess[x].outbox # <<>> /\ sess[x].alive
      BY <1>1, <1>2
    <3>7. t = Append(s, part)
      BY DEF t
    <3>8. Wrote(sess[x], new, part)
      BY <3>4, <3>5 DEF Wrote
    <3> DEFINE q == sess[x]
               me == sess[y]
    <3>9. /\ q.outbox \in Seq(Message) /\ q.outbox # <<>> /\ q.written \in Nat /\ q.alive
          /\ q.peer = y /\ part.msg = Head(q.outbox) /\ q.heard \in 0..2 /\ me.heard \in 0..2
          /\ Parts(Head(q.outbox)) <= MaxFrame
          /\ Speaks(q) /\ Talking(q, s, me) /\ Wrote(q, new, part)
      BY <1>8, <1>9, <2>1, <2>2, <3>2, <3>3, <3>5, <3>6, <3>8
    <3> HIDE DEF q, me
    <3>10. Speaks(new) /\ RestComes(y, new, t) /\ Talking(new, t, me)
      BY <1>7, <2>2, <3>7, <3>9, PartIsSaid
    <3> QED
      BY <3>10 DEF me
  <2> HIDE DEF t
  <2>5. sess'[y] = sess[y] /\ sess'[x] = new /\ wire'[<<x, y>>] = t
    BY <1>2, <1>5, <1>10 DEF t
  <2> QED
    BY <1>10, <2>1, <2>3, <2>4, <2>5 DEF InStep
<1>11. Speaks(sess'[x])
  <2>1. CASE part.last
    <3>1. new.outbox = Tail(o) /\ new.written = 0
      BY <1>4, <1>6, <2>1
    <3>2. /\ Len(Tail(o)) = Len(o) - 1 /\ Len(o) \in Nat
          /\ \A n \in 1..Len(Tail(o)) : Tail(o)[n] = o[n + 1]
          /\ Tail(o) \in Seq(Message)
          /\ Len(o) = 1 => Tail(o) = <<>>
          /\ Len(o) = 2 => Tail(o) # <<>> /\ Head(Tail(o)) = o[2]
      BY <1>1, <1>2, TailIsShorter
    <3>3. \A n \in 1..Len(new.outbox) : IsFiniteSet(new.outbox[n].ops)
      BY <1>9, <3>1, <3>2 DEF Speaks
    <3>4. sess[x].sent_have /\ sess[x].heard # 2
      BY <1>1, <1>9 DEF Speaks
    <3>5. Len(o) = 1 => new.outbox = <<>>
      BY <3>1, <3>2
    <3>6. Len(o) = 2 => Len(new.outbox) = 1 /\ new.outbox # <<>> /\ Head(new.outbox) = o[2]
      BY <3>1, <3>2
    <3>7. sess'[x].outbox = Tail(o) /\ sess'[x].heard = sess[x].heard /\ sess'[x].sent_have
          /\ sess'[x].written = 0
      BY <1>4, <1>5, <3>1, <3>4
    <3>8. CASE sess[x].heard = 0
      <4>1. Tail(o) = <<>>
        BY <1>1, <1>9, <3>2, <3>8 DEF Speaks
      <4>2. sess'[x].outbox = <<>>
        BY <3>7, <4>1
      <4>3. \A n \in 1..Len(sess'[x].outbox) : IsFiniteSet(sess'[x].outbox[n].ops)
        BY <1>5, <3>3
      <4>4. ~(sess'[x].written > 0)
        BY <3>7
      <4>5. sess'[x].heard = 0 /\ sess'[x].sent_have
        BY <3>4, <3>7, <3>8
      <4> QED
        BY <4>2, <4>3, <4>4, <4>5 DEF Speaks
    <3>9. CASE sess[x].heard = 1
      <4>1. Tail(o) = <<>> \/ (Len(Tail(o)) = 1 /\ Head(Tail(o)).type = "Ops")
        BY <1>1, <1>9, <3>2, <3>9 DEF Speaks
      <4> QED
        BY <1>5, <3>3, <3>4, <3>7, <3>9, <4>1 DEF Speaks
    <3> QED
      BY <1>8, <3>4, <3>8, <3>9
  <2>2. CASE ~part.last
    <3>1. new.outbox = o /\ new.written = sess[x].written + 1
      BY <1>4, <1>6, <2>2
    <3> QED
      BY <1>1, <1>4, <1>5, <1>8, <1>9, <3>1 DEF Speaks
  <2> QED
    BY <2>1, <2>2
<1>12. ASSUME NEW r \in Replica, ~(r = to /\ sess[to].peer = x) PROVE InStep(r)'
  <2> SUFFICES ASSUME Active(r)' PROVE InStep(r)'
    BY DEF InStep
  <2> DEFINE p == sess[r].peer
             v == wire[<<p, r>>]
  <2>1. Active(r) /\ sess'[r].peer = p /\ p \in Replica /\ p # r
    BY <1>4, <1>5, Typing DEF Active
  <2>2. /\ Speaks(sess[r]) /\ Streamed(v, sess[r].heard) /\ RestComes(r, sess[p], v)
        /\ sess[p].peer = r => Talking(sess[p], v, sess[r])
    BY <2>1 DEF StepsInv, InStep
  <2>3. <<p, r>> # <<x, to>>
    BY <1>12
  <2>4. wire'[<<p, r>>] = v
    BY <1>5, <2>1, <2>3
  <2>5. CASE r = x
    <3>1. sess'[p] = sess[p]
      BY <1>5, <2>1, <2>5
    <3>2. sess'[r].heard = sess[r].heard /\ sess'[r].alive = sess[r].alive
      BY <1>4, <1>5, <2>5
    <3>3. sess[p].peer = r => Talking(sess[p], v, sess'[r])
      BY <2>2, <3>2 DEF Talking
    <3> QED
      BY <1>11, <2>1, <2>2, <2>4, <2>5, <3>1, <3>2, <3>3 DEF InStep
  <2>6. CASE r # x /\ p = x
    <3>1. sess[x].peer # r /\ sess'[x].peer # r
      BY <1>4, <1>5, <1>12, <2>6
    <3>2. RestComes(r, sess'[x], v)
      BY <2>2, <2>6, <3>1 DEF RestComes
    <3> QED
      BY <1>5, <2>1, <2>2, <2>4, <2>6, <3>1, <3>2 DEF InStep
  <2>7. CASE r # x /\ p # x
    BY <1>5, <2>1, <2>2, <2>4, <2>7 DEF InStep
  <2> QED
    BY <2>5, <2>6, <2>7
<1>13. ASSUME NEW r \in Replica PROVE InStep(r)'
  <2>1. CASE r = to /\ sess[to].peer = x
    <3>1. Active(to)
      BY <2>1, SyncAssumption DEF Active
    <3> QED
      BY <1>10, <2>1, <3>1
  <2> QED
    BY <1>12, <2>1
<1> QED
  BY <1>3, <1>13 DEF StepsInv

-----------------------------------------------------------------------------
(* What is left of a stream s, to one that heard so many messages, once    *)
(* its first part is taken.                                                *)
FirstTaken(s, t, heard) ==
    /\ Head(s) \in Part
    /\ \A r, q : RestComes(r, q, s) => RestComes(r, q, t)
    /\ \A r, q : RestComes(r, q, s) /\ t = <<>> => RestComes(r, q, <<Head(s)>>)
    /\ \A n \in 1..Len(t) : \E k \in 1..Len(s) : t[n] = s[k]
    /\ ~Head(s).last => Streamed(t, heard)
    /\ Head(s).last /\ Head(s).msg.type = "Have" => heard = 0 /\ Streamed(t, 1)
    /\ Head(s).last /\ Head(s).msg.type = "Ops" => heard = 1 /\ t = <<>>

(* The first part of a stream is read; if it was not the last of its frame *)
(* the frame goes on.                                                      *)
LEMMA PartIsTaken ==
  ASSUME NEW s \in Seq(Part), s # <<>>, NEW t, t = Tail(s),
         NEW heard, heard \in {0, 1, 2}, Streamed(s, heard)
  PROVE  FirstTaken(s, t, heard)
<1>1. /\ Len(t) = Len(s) - 1 /\ Len(s) \in Nat /\ Len(s) >= 1
      /\ \A n \in 1..Len(t) : t[n] = s[n + 1] /\ n + 1 \in 1..Len(s) /\ n + 1 > 1
      /\ Head(s) = s[1] /\ Head(s) \in Part /\ t \in Seq(Part)
  OBVIOUS
<1>2. t = <<>> <=> Len(t) = 0
  BY <1>1, EmptySeq
<1>3. heard \in {0, 1} /\ (heard = 0 => s[1].msg.type = "Have")
      /\ (heard = 1 => s[1].msg.type = "Ops")
  BY <1>1 DEF Streamed
<1>4. ASSUME NEW r, NEW q, RestComes(r, q, s) PROVE RestComes(r, q, t)
  <2>1. t # <<>> => t[Len(t)] = s[Len(s)]
    BY <1>1, <1>2
  <2> QED
    BY <1>4, <2>1 DEF RestComes
<1>5. ASSUME NEW r, NEW q, RestComes(r, q, s), t = <<>> PROVE RestComes(r, q, <<Head(s)>>)
  <2>1. Len(s) = 1 /\ <<Head(s)>>[Len(<<Head(s)>>)] = s[Len(s)]
    BY <1>1, <1>2, <1>5
  <2> QED
    BY <1>5, <2>1 DEF RestComes
<1>6. /\ \A n \in 1..Len(t) : n < Len(t) /\ ~t[n].last => t[n + 1].msg = t[n].msg
      /\ \A n, k \in 1..Len(t) : n < k /\ t[n].last =>
             t[n].msg.type = "Have" /\ t[k].msg.type = "Ops"
      /\ \A n, k \in 1..Len(t) : n < k /\ t[n].msg.type = "Ops" => t[k].msg.type = "Ops"
  <2>1. ASSUME NEW n \in 1..Len(t), n < Len(t), ~t[n].last
        PROVE  t[n + 1].msg = t[n].msg
    <3>1. n + 1 < Len(s) /\ n + 1 \in 1..Len(t) /\ t[n] = s[n + 1] /\ t[n + 1] = s[n + 1 + 1]
      BY <1>1, <2>1
    <3> QED
      BY <1>1, <2>1, <3>1 DEF Streamed
  <2>2. ASSUME NEW n \in 1..Len(t), NEW k \in 1..Len(t), n < k
        PROVE  /\ t[n].last => t[n].msg.type = "Have" /\ t[k].msg.type = "Ops"
               /\ t[n].msg.type = "Ops" => t[k].msg.type = "Ops"
    <3>1. n + 1 < k + 1 /\ n + 1 \in 1..Len(s) /\ k + 1 \in 1..Len(s)
          /\ t[n] = s[n + 1] /\ t[k] = s[k + 1]
      BY <1>1, <2>2
    <3> QED
      BY <3>1 DEF Streamed
  <2> QED
    BY <2>1, <2>2
<1>7. ASSUME ~Head(s).last PROVE Streamed(t, heard)
  <2>1. t # <<>> => Head(t) = s[2] /\ 1 < Len(s) /\ s[2].msg = s[1].msg
    <3> SUFFICES ASSUME t # <<>> PROVE Head(t) = s[2] /\ 1 < Len(s) /\ s[2].msg = s[1].msg
      OBVIOUS
    <3>1. 1 < Len(s) /\ Head(t) = t[1] /\ 1 \in 1..Len(t)
      BY <1>1, <1>2
    <3> QED
      BY <1>1, <1>7, <3>1 DEF Streamed
  <2>2. heard = 1 => \A n \in 1..Len(t) : t[n].msg.type = "Ops"
    BY <1>1 DEF Streamed
  <2> QED
    BY <1>3, <1>6, <2>1, <2>2 DEF Streamed
<1>8. ASSUME Head(s).last, NEW n \in 1..Len(t)
      PROVE  Head(s).msg.type = "Have" /\ t[n].msg.type = "Ops"
  <2>1. 1 < n + 1 /\ n + 1 \in 1..Len(s) /\ t[n] = s[n + 1] /\ 1 \in 1..Len(s) /\ Head(s) = s[1]
    BY <1>1
  <2> QED
    BY <1>8, <2>1 DEF Streamed
<1>9. ASSUME Head(s).last, Head(s).msg.type = "Have"
      PROVE  heard = 0 /\ Streamed(t, 1)
  BY <1>1, <1>3, <1>6, <1>8, <1>9 DEF Streamed
<1>10. ASSUME Head(s).last, Head(s).msg.type = "Ops"
       PROVE  heard = 1 /\ t = <<>>
  <2>1. heard = 1
    BY <1>1, <1>3, <1>10
  <2>2. Len(t) = 0
    <3> SUFFICES ASSUME Len(t) # 0 PROVE FALSE
      OBVIOUS
    <3>1. 1 \in 1..Len(t)
      BY <1>1
    <3>2. Head(s).msg.type = "Have"
      BY <1>8, <1>10, <3>1
    <3> QED
      BY <1>10, <3>2
  <2> QED
    BY <1>2, <2>1, <2>2
<1>11. \A n \in 1..Len(t) : \E k \in 1..Len(s) : t[n] = s[k]
  BY <1>1
<1> QED
  BY <1>1, <1>4, <1>5, <1>7, <1>9, <1>10, <1>11 DEF FirstTaken

(* One who has heard a Have says the same Have as before and then Ops.     *)
LEMMA HaveIsAnswered ==
  ASSUME NEW q, Speaks(q), q.heard = 0, q.outbox = <<>>, NEW q2,
         NEW ids \in SUBSET Op, NEW ops \in SUBSET Op, IsFiniteSet(ids), IsFiniteSet(ops),
         q2.heard = 1, q2.sent_have, q2.written = q.written,
         q2.outbox = (IF q.sent_have THEN <<>> ELSE <<Have(ids)>>) \o <<Ops(ops)>>
  PROVE  Speaks(q2) /\ (HaveToSay(q2) => HaveToSay(q)) /\ (HaveToSay(q) => HaveToSay(q2))
         /\ OpsToSay(q)
<1>1. /\ Have(ids).type = "Have" /\ IsFiniteSet(Have(ids).ops) /\ Have(ids) \in Message
      /\ Ops(ops).type = "Ops" /\ IsFiniteSet(Ops(ops).ops) /\ Ops(ops) \in Message
  BY DEF Have, Ops, Message
<1>2. OpsToSay(q) /\ ~(q.written > 0) /\ (HaveToSay(q) <=> ~q.sent_have)
  BY DEF OpsToSay, Speaks, HaveToSay
<1>3. Ops(ops).type # "Have"
  BY <1>1
<1> DEFINE h == Have(ids)
           p == Ops(ops)
<1> HIDE DEF h, p
<1>4. CASE q.sent_have
  <2>1. q2.outbox = <<p>>
    BY <1>4 DEF p
  <2>2. Len(q2.outbox) = 1 /\ q2.outbox # <<>> /\ Head(q2.outbox) = p
        /\ \A n \in 1..Len(q2.outbox) : q2.outbox[n] = p
    BY <2>1
  <2> QED
    BY <1>1, <1>2, <1>3, <1>4, <2>2 DEF Speaks, HaveToSay, p
<1>5. CASE ~q.sent_have
  <2>1. q2.outbox = <<h, p>>
    <3>1. <<h>> \o <<p>> = <<h, p>>
      BY Pairs
    <3> QED
      BY <1>5, <3>1 DEF h, p
  <2>2. Len(q2.outbox) = 2 /\ q2.outbox # <<>> /\ Head(q2.outbox) = h /\ q2.outbox[2] = p
        /\ \A n \in 1..Len(q2.outbox) : q2.outbox[n] = p \/ q2.outbox[n] = h
    <3> DEFINE o == <<h, p>>
    <3>1. Len(o) = 2 /\ o # <<>> /\ Head(o) = h /\ o[1] = h /\ o[2] = p
      OBVIOUS
    <3> HIDE DEF o
    <3>2. \A n \in 1..Len(o) : o[n] = p \/ o[n] = h
      BY <3>1
    <3> QED
      BY <2>1, <3>1, <3>2 DEF o
  <2> QED
    BY <1>1, <1>2, <1>3, <1>5, <2>2 DEF Speaks, HaveToSay, h, p
<1> QED
  BY <1>4, <1>5

LEMMA ReceiveSteps ==
  ASSUME MergeInv, StepsInv, NEW x \in Replica, Receive(x)
  PROVE  StepsInv'
<1> DEFINE from == sess[x].peer
           s == wire[<<from, x>>]
           t == Tail(s)
           me == sess[x]
           me2 == sess'[x]
<1>1. /\ Active(x) /\ me.outbox = <<>> /\ s # <<>> /\ store' = store
      /\ wire' = [wire EXCEPT ![<<from, x>>] = t]
  BY DEF Receive, Reads
<1>2. from \in Replica /\ from # x /\ me \in Sessions /\ me.heard \in 0..2 /\ s \in Seq(Part)
  BY <1>1, Typing DEF Part
<1>3. wire'[<<from, x>>] = t
      /\ \A p, q \in Replica : <<p, q>> # <<from, x>> => wire'[<<p, q>>] = wire[<<p, q>>]
  <2> HIDE DEF t
  <2> QED
    BY <1>1, <1>2 DEF MergeInv
<1>4. /\ Speaks(me) /\ Streamed(s, me.heard) /\ RestComes(x, sess[from], s)
      /\ sess[from].peer = x => Talking(sess[from], s, me)
  BY <1>1 DEF StepsInv, InStep
<1>5. ~(me.written > 0)
  BY <1>1, <1>4 DEF Speaks
<1>6. sess[from].peer = x => Speaks(sess[from])
  BY <1>2, SyncAssumption DEF StepsInv, InStep, Active
<1>8. /\ Head(s) \in Part
      /\ RestComes(x, sess[from], t)
      /\ t = <<>> => RestComes(x, sess[from], <<Head(s)>>)
      /\ \A n \in 1..Len(t) : \E k \in 1..Len(s) : t[n] = s[k]
      /\ ~Head(s).last => Streamed(t, me.heard)
      /\ Head(s).last /\ Head(s).msg.type = "Have" => me.heard = 0 /\ Streamed(t, 1)
      /\ Head(s).last /\ Head(s).msg.type = "Ops" => me.heard = 1 /\ t = <<>>
  <2> DEFINE h == me.heard
  <2>1. t = Tail(s) /\ s \in Seq(Part) /\ s # <<>> /\ h \in {0, 1, 2} /\ Streamed(s, h)
    BY <1>1, <1>2, <1>4
  <2> HIDE DEF t, s, h
  <2>2. FirstTaken(s, t, h)
    BY <2>1, PartIsTaken
  <2> QED
    BY <1>4, <2>2 DEF h, FirstTaken
<1>9. Head(s) = s[1] /\ 1 \in 1..Len(s)
  BY <1>1, <1>2
(* What x says is as before, and it hears what is left.                    *)
<1>10. /\ \A q \in Replica \ {x} : sess'[q] = sess[q]
       /\ me2.peer = from /\ me2.alive = me.alive /\ me2.written = me.written
       /\ Speaks(me2)
       /\ HaveToSay(me2) = HaveToSay(me) /\ (OpsToSay(me2) => OpsToSay(me))
       /\ Streamed(t, me2.heard)
       /\ sess[from].peer = x => Talking(sess[from], t, me2)
  <2>1. CASE ~Head(s).last
    <3>1. sess' = sess
      BY <2>1 DEF Receive
    <3>2. ASSUME sess[from].peer = x PROVE Talking(sess[from], t, me)
      <4>1. Talking(sess[from], s, me) /\ Speaks(sess[from])
        BY <1>4, <1>6, <3>2
      <4>2. me.heard = 0 /\ t = <<>> => HaveToSay(sess[from])
        <5> SUFFICES ASSUME me.heard = 0, t = <<>> PROVE HaveToSay(sess[from])
          OBVIOUS
        <5>1. Head(s).msg.type = "Have"
          BY <1>1, <1>4 DEF Streamed
        <5>2. <<Head(s)>> # <<>> /\ <<Head(s)>>[Len(<<Head(s)>>)] = Head(s)
          OBVIOUS
        <5>3. sess[from].written > 0 /\ Head(sess[from].outbox) = Head(s).msg
          BY <1>8, <2>1, <5>2 DEF RestComes
        <5> QED
          BY <4>1, <5>1, <5>3 DEF Speaks, HaveToSay
      <4>3. me.alive
        BY <1>1, <4>1 DEF Talking
      <4> HIDE DEF s, t, me
      <4> QED
        BY <1>8, <4>1, <4>2, <4>3 DEF Talking
    <3> QED
      BY <1>4, <1>8, <2>1, <3>1, <3>2
  <2>2. ASSUME Head(s).last, Head(s).msg.type = "Have",
               NEW ids \in OpIds(x), NEW ops \in MissingOps(x, Head(s).msg.ops),
               Answer(x, Reciprocal(x, ids) \o <<Ops(ops)>>)
        PROVE  <1>10!:
    <3> DEFINE o == Reciprocal(x, ids) \o <<Ops(ops)>>
    <3>1. sess' = [sess EXCEPT ![x] = [sess[x] EXCEPT !.heard = @ + 1, !.sent_have = TRUE,
                                                     !.outbox = o]]
      BY <2>2 DEF Answer
    <3>2. me.heard = 0 /\ Streamed(t, 1)
      BY <1>8, <2>2
    <3>3. o = (IF me.sent_have THEN <<>> ELSE <<Have(ids)>>) \o <<Ops(ops)>>
      BY DEF Reciprocal
    <3> HIDE DEF o
    <3>4. /\ \A q \in Replica \ {x} : sess'[q] = sess[q]
          /\ me2.peer = from /\ me2.alive = me.alive /\ me2.written = me.written
          /\ me2.heard = 1 /\ me2.sent_have /\ me2.outbox = o
      <4> DEFINE new == [sess[x] EXCEPT !.heard = @ + 1, !.sent_have = TRUE, !.outbox = o]
      <4>1. /\ new.peer = from /\ new.alive = me.alive /\ new.written = me.written
            /\ new.heard = 1 /\ new.sent_have /\ new.outbox = o
        BY <1>2, <3>2 DEF Sessions
      <4>2. sess' = [sess EXCEPT ![x] = new]
        BY <3>1
      <4> HIDE DEF new
      <4> QED
        BY <4>1, <4>2 DEF MergeInv
    <3>5. ids \subseteq store[x] /\ ops \subseteq store[x] /\ store[x] \subseteq Op
      BY DEF OpIds, MissingOps, MergeInv
    <3>6. IsFiniteSet(ids) /\ IsFiniteSet(ops)
      BY <3>5, FS_Subset DEF StepsInv
    <3>7. Speaks(me2) /\ HaveToSay(me2) = HaveToSay(me) /\ OpsToSay(me)
      <4>1. me2.outbox = (IF me.sent_have THEN <<>> ELSE <<Have(ids)>>) \o <<Ops(ops)>>
        BY <3>3, <3>4
      <4> HIDE DEF me2, me
      <4>2. Speaks(me2) /\ (HaveToSay(me2) => HaveToSay(me)) /\ (HaveToSay(me) => HaveToSay(me2))
            /\ OpsToSay(me)
        BY <1>1, <1>4, <3>2, <3>4, <3>5, <3>6, <4>1, HaveIsAnswered
      <4>3. HaveToSay(me2) = HaveToSay(me)
        BY <4>2 DEF HaveToSay
      <4> QED
        BY <4>2, <4>3
    <3>8. ASSUME sess[from].peer = x PROVE Talking(sess[from], t, me2)
      <4>1. Talking(sess[from], s, me)
        BY <1>4, <3>8
      <4>2. ~HaveToSay(sess[from])
        BY <1>9, <2>2, <4>1 DEF Talking
      <4>3. me.alive
        BY <1>1, <4>1 DEF Talking
      <4> HIDE DEF s, t, me, me2
      <4> QED
        BY <1>8, <3>4, <4>1, <4>2, <4>3 DEF Talking
    <3> QED
      BY <3>2, <3>4, <3>7, <3>8
  <2>3. CASE Head(s).last /\ Head(s).msg.type = "Ops" /\ Take(x, Head(s).msg.ops)
    <3> DEFINE ops == Head(s).msg.ops
    <3>1. sess' = [sess EXCEPT ![x] = [sess[x] EXCEPT !.heard = @ + 1, !.inbox = ops]]
      BY <2>3 DEF Take
    <3>2. me.heard = 1 /\ t = <<>>
      BY <1>8, <2>3
    <3> HIDE DEF ops
    <3>3. /\ \A q \in Replica \ {x} : sess'[q] = sess[q]
          /\ me2.peer = from /\ me2.alive = me.alive /\ me2.written = me.written
          /\ me2.heard = 2 /\ me2.sent_have = me.sent_have /\ me2.outbox = <<>>
      <4> DEFINE new == [sess[x] EXCEPT !.heard = @ + 1, !.inbox = ops]
      <4>1. /\ new.peer = from /\ new.alive = me.alive /\ new.written = me.written
            /\ new.heard = 2 /\ new.sent_have = me.sent_have /\ new.outbox = <<>>
        BY <1>1, <1>2, <3>2 DEF Sessions
      <4>2. sess' = [sess EXCEPT ![x] = new]
        BY <3>1
      <4> HIDE DEF new
      <4> QED
        BY <4>1, <4>2 DEF MergeInv
    <3>4. Speaks(me2) /\ HaveToSay(me2) = HaveToSay(me) /\ ~OpsToSay(me2)
      BY <1>1, <1>4, <1>5, <3>2, <3>3 DEF Speaks, HaveToSay, OpsToSay
    <3>5. Streamed(t, me2.heard)
      <4>1. Streamed(<<>>, 2)
        BY DEF Streamed
      <4> QED
        BY <3>2, <3>3, <4>1
    <3>6. ASSUME sess[from].peer = x PROVE Talking(sess[from], t, me2)
      <4>1. Talking(sess[from], s, me)
        BY <1>4, <3>6
      <4>2. ~OpsToSay(sess[from]) /\ ~HaveToSay(sess[from])
        BY <1>9, <2>3, <4>1 DEF Talking
      <4> QED
        BY <1>1, <3>2, <3>3, <4>1, <4>2 DEF Talking
    <3> QED
      BY <3>3, <3>4, <3>5, <3>6
  <2> QED
    BY <2>1, <2>2, <2>3 DEF Receive, Handle
<1> HIDE DEF t, me2
<1>11. ASSUME NEW r \in Replica PROVE InStep(r)'
  <2> SUFFICES ASSUME Active(r)' PROVE InStep(r)'
    BY DEF InStep
  <2> DEFINE p == sess[r].peer
             v == wire[<<p, r>>]
  <2>1. sess'[r].peer = p
    BY <1>10 DEF me2
  <2>2. Active(r) /\ p \in Replica /\ p # r
    BY <2>1, Typing DEF Active
  <2>3. CASE r = x
    <3>1. sess'[p] = sess[p] /\ p = from
      BY <1>10, <2>2, <2>3
    <3>2. wire'[<<p, r>>] = t
      BY <1>3, <2>3
    <3>3. Speaks(sess'[r]) /\ Streamed(t, sess'[r].heard) /\ RestComes(r, sess'[p], t)
          /\ (sess'[p].peer = r => Talking(sess'[p], t, sess'[r]))
      BY <1>8, <1>10, <2>3, <3>1 DEF me2
    <3> QED
      BY <2>1, <3>2, <3>3 DEF InStep
  <2>4. CASE r # x
    <3>1. /\ Speaks(sess[r]) /\ Streamed(v, sess[r].heard) /\ RestComes(r, sess[p], v)
          /\ sess[p].peer = r => Talking(sess[p], v, sess[r])
      BY <2>2 DEF StepsInv, InStep
    <3>2. sess'[r] = sess[r] /\ wire'[<<p, r>>] = v
      BY <1>3, <1>10, <2>2, <2>4
    <3>3. CASE p = x
      <4>1. RestComes(r, sess'[p], v)
        BY <1>5, <3>1, <3>3 DEF RestComes
      <4>2. ASSUME sess'[p].peer = r PROVE Talking(sess'[p], v, sess[r])
        <5>1. Talking(me, v, sess[r])
          BY <1>10, <3>1, <3>3, <4>2 DEF me2
        <5> QED
          BY <1>10, <3>3, <5>1 DEF Talking, me2
      <4> QED
        BY <2>1, <3>1, <3>2, <4>1, <4>2 DEF InStep
    <3>4. CASE p # x
      BY <1>10, <2>1, <2>2, <3>1, <3>2, <3>4 DEF InStep
    <3> QED
      BY <3>3, <3>4
  <2> QED
    BY <2>3, <2>4
<1> QED
  BY <1>1, <1>11 DEF StepsInv

LEMMA StepSteps == MergeInv /\ StepsInv /\ [Next]_vars => StepsInv'
<1> SUFFICES ASSUME MergeInv, StepsInv, [Next]_vars PROVE StepsInv'
  OBVIOUS
<1>1. CASE UNCHANGED vars
  BY <1>1 DEF vars, StepsInv, InStep, Active
<1>2. CASE Next
  BY <1>2, IssueSteps, ConnectSteps, WriteSteps, ReceiveSteps, IngestSteps, FinishSteps,
     AbortSteps, BreakSteps, CrashSteps
  DEF Next, Step
<1> QED
  BY <1>1, <1>2

(* Frames never come apart: for any replicas, stream window and frame      *)
(* limit, and with breaks, crashes and store errors, a receiver reads      *)
(* whole frames of one message each, and a side that returns Ok leaves     *)
(* nothing unread or unsaid in the stream.                                 *)
THEOREM StreamStaysInStep == Spec => []FramesInStep
  BY InitMerge, StepMerge, InitSteps, StepSteps, StepsShow, PTL DEF Spec

-----------------------------------------------------------------------------
(* What one with session me may count on from a peer with session q, the   *)
(* stream from it being s: the Ops are in s to their end or still to be    *)
(* said; of an Ops frame that is not, there is no more in s than written;  *)
(* and one of the two announces itself unasked.                            *)
Forthcoming(q, s, me) ==
    /\ me.heard # 2 /\ (\A n \in 1..Len(s) : s[n].last => s[n].msg.type = "Have") => OpsToSay(q)
    /\ OpsToSay(q) => \A n \in 1..Len(s) : s[n].msg.type = "Ops" => Len(s) - n < q.written
    /\ q.heard = 0 /\ me.heard = 0 => (q.sent_have <=> ~me.sent_have)

(* One whose peer has returned Ok has nothing to say to it, and what it    *)
(* has yet to hear is in the stream.                                       *)
Provided(s, me) ==
    me.sent_have /\ me.outbox = <<>> /\ me.heard > 0 /\ (me.heard = 1 => s # <<>>)

Attended(r) ==
    Active(r) /\ sess[r].alive =>
        LET q == sess[sess[r].peer]
            s == wire[<<sess[r].peer, r>>]
        IN  IF q.peer = r THEN Forthcoming(q, s, sess[r]) ELSE Provided(s, sess[r])

JamInv == \A r \in Replica : Attended(r)

(* So nobody waits in vain, unless for room for an Ops frame.              *)
LEMMA JamShows == MergeInv /\ StepsInv /\ JamInv => OnlyDeltasJam
<1> SUFFICES ASSUME MergeInv, StepsInv, JamInv, NEW r \in Replica, Waits(r)
             PROVE  LET p == sess[r].peer
                        Jammed(s) == /\ sess[s].outbox # <<>> /\ Head(sess[s].outbox).type = "Ops"
                                     /\ sess[s].written >= Window
                    IN  /\ sess[p].peer = r
                        /\ Waits(p) => Jammed(r) /\ Jammed(p)
  BY DEF OnlyDeltasJam
<1> DEFINE p == sess[r].peer
           me == sess[r]
           q == sess[p]
           s == wire[<<p, r>>]
           v == wire[<<r, p>>]
<1>1. Active(r) /\ me.alive /\ p \in Replica /\ me.heard \in 0..2 /\ s \in Seq(Part)
      /\ me.outbox \in Seq(Message) /\ me.written \in Nat
  BY Typing DEF Waits, Part, Sessions
<1>2. Speaks(me) /\ Streamed(s, me.heard) /\ RestComes(r, q, s) /\ (q.peer = r => Talking(q, s, me))
      /\ IF q.peer = r THEN Forthcoming(q, s, me) ELSE Provided(s, me)
  BY <1>1 DEF StepsInv, InStep, JamInv, Attended
<1>3. q.peer = r
  BY <1>1, <1>2 DEF Waits, Reads, Writes, Provided
<1>4. ASSUME Waits(p) PROVE Writes(r) /\ Writes(p)
  <2>1. Active(p) /\ q.heard \in 0..2 /\ v \in Seq(Part)
    BY <1>1, <1>3, <1>4, Typing DEF Waits, Part
  <2>2. /\ Speaks(q) /\ Talking(me, v, q) /\ Forthcoming(me, v, q)
        /\ q.alive
    BY <1>1, <1>3, <1>4, <2>1 DEF StepsInv, InStep, JamInv, Attended, Waits
  <2>3. \A n \in 1..Len(<<>>) : FALSE
    OBVIOUS
  <2>4. ASSUME Reads(r), Reads(p) PROVE FALSE
    <3>1. s = <<>> /\ v = <<>> /\ me.outbox = <<>> /\ q.outbox = <<>> /\ me.heard # 2 /\ q.heard # 2
      BY <1>3, <1>4, <2>4 DEF Waits, Reads, Writes
    <3>2. OpsToSay(q) /\ OpsToSay(me)
      BY <1>2, <1>3, <2>2, <2>3, <3>1 DEF Forthcoming
    <3>3. me.heard = 0 /\ q.heard = 0
      BY <3>1, <3>2 DEF OpsToSay
    <3>4. HaveToSay(q) /\ HaveToSay(me)
      BY <1>1, <1>2, <1>3, <2>2, <3>1, <3>3 DEF Talking
    <3>5. ~q.sent_have /\ ~me.sent_have
      BY <3>1, <3>4 DEF HaveToSay
    <3> QED
      BY <1>2, <1>3, <3>3, <3>5 DEF Forthcoming
  <2>5. Window \in Nat \ {0} /\ Len(s) \in Nat /\ Len(v) \in Nat /\ Len(<<>>) = 0
    BY <1>1, <2>1, SyncAssumption
  <2>6. /\ Reads(r) \/ (Writes(r) /\ Len(v) >= Window)
        /\ Reads(p) \/ (Writes(p) /\ Len(s) >= Window)
        /\ Reads(r) => s = <<>>
        /\ Reads(p) => v = <<>>
    BY <1>3, <1>4 DEF Waits, Reads, Writes
  <2> HIDE DEF s, v
  <2> QED
    BY <2>4, <2>5, <2>6
<1>5. ASSUME Waits(p)
      PROVE  /\ me.outbox # <<>> /\ Head(me.outbox).type = "Ops" /\ me.written >= Window
             /\ q.outbox # <<>> /\ Head(q.outbox).type = "Ops" /\ q.written >= Window
  <2>1. Active(p) /\ q.heard \in 0..2 /\ v \in Seq(Part) /\ q.written \in Nat
    BY <1>1, <1>3, <1>5, Typing DEF Waits, Part, Sessions
  <2>2. /\ Speaks(q) /\ Streamed(v, q.heard) /\ Talking(me, v, q) /\ Forthcoming(me, v, q)
    BY <1>1, <1>3, <1>5, <2>1 DEF StepsInv, InStep, JamInv, Attended, Waits
  <2>3. me.outbox # <<>> /\ q.outbox # <<>> /\ Len(s) >= Window /\ Len(v) >= Window
    BY <1>3, <1>4, <1>5 DEF Waits, Reads, Writes
  <2>4. s \in Seq(Part) /\ Window \in Nat \ {0} /\ Len(s) \in Nat /\ Len(v) \in Nat
    BY <1>1, <2>1, SyncAssumption
  <2>5. Talking(q, s, me) /\ Forthcoming(q, s, me)
    BY <1>2, <1>3
  <2>6. Speaks(me) /\ Streamed(s, me.heard)
    BY <1>2
  <2> HIDE DEF s, v, me, q
  <2>7. me.heard # 2 /\ q.heard # 2 /\ me.sent_have /\ q.sent_have
    BY <2>2, <2>3, <2>6 DEF Speaks
  <2>8. me.heard = 1 /\ q.heard = 1
    <3>1. me.heard = 0 => HaveToSay(me)
      BY <2>3, <2>6 DEF Speaks, HaveToSay
    <3>2. q.heard = 0 => HaveToSay(q)
      BY <2>2, <2>3 DEF Speaks, HaveToSay
    <3>3. me.heard = 0 <=> q.heard = 0
      BY <2>2, <2>5, <3>1, <3>2 DEF Talking
    <3>4. ~(me.heard = 0 /\ q.heard = 0)
      BY <2>5, <2>7 DEF Forthcoming
    <3> QED
      BY <1>1, <2>1, <2>7, <3>3, <3>4 DEF me
  <2>9. Head(me.outbox).type = "Ops" /\ Head(q.outbox).type = "Ops"
    <3>1. ~HaveToSay(me) /\ ~HaveToSay(q)
      BY <2>2, <2>5, <2>8 DEF Talking
    <3> QED
      BY <2>2, <2>3, <2>6, <2>8, <3>1 DEF Speaks, HaveToSay
  <2>10. s[1].msg.type = "Ops" /\ v[1].msg.type = "Ops" /\ 1 \in 1..Len(s) /\ 1 \in 1..Len(v)
    BY <2>2, <2>3, <2>4, <2>6, <2>8 DEF Streamed
  <2>11. Len(s) - 1 < q.written /\ Len(v) - 1 < me.written
    BY <2>2, <2>3, <2>5, <2>10 DEF Forthcoming, OpsToSay
  <2> QED
    BY <1>1, <2>1, <2>3, <2>4, <2>9, <2>11 DEF me
<1> QED
  BY <1>3, <1>5

LEMMA InitJam == Init => JamInv
BY DEF Init, JamInv, Attended, Active, NoSession, Session

(* A step that leaves a session, the stream to it and its peer alone, or   *)
(* by which the peer returns Ok.                                           *)
LEMMA StillAttended ==
  ASSUME MergeInv, StepsInv, NEW r \in Replica, Attended(r),
         Active(r)' /\ sess'[r].alive =>
             /\ Same(sess'[r], sess[r])
             /\ wire'[<<sess[r].peer, r>>] = wire[<<sess[r].peer, r>>]
             /\ \/ Same(sess'[sess[r].peer], sess[sess[r].peer])
                \/ /\ sess'[sess[r].peer].peer # r
                   /\ sess[sess[r].peer].peer # r \/ Done(sess[r].peer)
  PROVE  Attended(r)'
<1> SUFFICES ASSUME Active(r)', sess'[r].alive PROVE Attended(r)'
  BY DEF Attended
<1> DEFINE p == sess[r].peer
           q == sess[p]
           s == wire[<<p, r>>]
           me == sess[r]
<1>1. Active(r) /\ me.alive /\ sess'[r].peer = p /\ wire'[<<p, r>>] = s /\ p \in Replica
  BY Typing DEF Active, Same
<1>2. IF q.peer = r THEN Forthcoming(q, s, me) ELSE Provided(s, me)
  BY <1>1 DEF Attended
<1>3. CASE Same(sess'[p], q)
  <2>1. q.peer = r => Forthcoming(sess'[p], s, sess'[r])
    BY <1>2, <1>3 DEF Forthcoming, Same, OpsToSay
  <2>2. q.peer # r => Provided(s, sess'[r])
    BY <1>2 DEF Provided, Same
  <2>3. sess'[p].peer = q.peer
    BY <1>3 DEF Same
  <2> QED
    BY <1>1, <2>1, <2>2, <2>3 DEF Attended
<1>4. CASE sess'[p].peer # r /\ q.peer # r
  <2>1. Provided(s, sess'[r])
    BY <1>2, <1>4 DEF Provided, Same
  <2> QED
    BY <1>1, <1>4, <2>1 DEF Attended
<1>5. CASE sess'[p].peer # r /\ q.peer = r /\ Done(p)
  <2> DEFINE v == wire[<<r, p>>]
  <2>1. Talking(me, v, q)
    BY <1>1, <1>5 DEF StepsInv, InStep, Done
  <2>2. q.heard = 2 /\ q.outbox = <<>>
    BY <1>5 DEF Done
  <2>3. me.heard # 0 /\ me.outbox = <<>> /\ me.sent_have
    BY <2>1, <2>2 DEF Talking, HaveToSay, OpsToSay
  <2>4. me.heard = 1 => s # <<>>
    <3>1. Forthcoming(q, <<>>, me) => me.heard # 1
      <4>1. \A n \in 1..Len(<<>>) : FALSE
        OBVIOUS
      <4> QED
        BY <2>2, <4>1 DEF Forthcoming, OpsToSay
    <3> QED
      BY <1>2, <1>5, <3>1
  <2>5. Provided(s, sess'[r])
    <3>1. me.heard \in 0..2
      BY <1>1, Typing
    <3>2. me.heard > 0
      BY <2>3, <3>1
    <3>3. /\ sess'[r].heard = me.heard /\ sess'[r].outbox = me.outbox
          /\ sess'[r].sent_have = me.sent_have
      BY <1>1 DEF Same
    <3> HIDE DEF me, s
    <3> QED
      BY <2>3, <2>4, <3>2, <3>3 DEF Provided
  <2> QED
    BY <1>1, <1>5, <2>5 DEF Attended
<1> QED
  BY <1>3, <1>4, <1>5

LEMMA QuietJam ==
  ASSUME MergeInv, StepsInv, JamInv, NEW x \in Replica, NEW op \in Op,
         Issue(x, op) \/ Ingest(x, op)
  PROVE  JamInv'
<1>1. wire' = wire /\ \A q \in Replica : Same(sess'[q], sess[q])
  <2>1. CASE Issue(x, op)
    BY <2>1 DEF Issue, Same
  <2>2. CASE Ingest(x, op)
    <3> DEFINE rest == [sess[x] EXCEPT !.inbox = @ \ {op}]
    <3>1. sess' = [sess EXCEPT ![x] = rest] /\ wire' = wire
      BY <2>2 DEF Ingest
    <3>2. Same(rest, sess[x])
      <4>1. sess[x] \in Sessions
        BY DEF MergeInv, SessionOK
      <4> QED
        BY <4>1 DEF Sessions, Same
    <3> HIDE DEF rest
    <3> QED
      BY <3>1, <3>2 DEF MergeInv, Same
  <2> QED
    BY <2>1, <2>2
<1>2. ASSUME NEW r \in Replica PROVE Attended(r)'
  <2>1. Active(r)' => sess[r].peer \in Replica
    BY <1>1, Typing DEF Active, Same
  <2> QED
    BY <1>1, <2>1, StillAttended DEF JamInv
<1> QED
  BY <1>2 DEF JamInv

(* Of those that stay connected, only a peer's Ok is noticed.              *)
LEMMA EndingsJam ==
  ASSUME MergeInv, StepsInv, JamInv, NEW x \in Replica,
         Finish(x) \/ Abort(x) \/ Crash(x) \/ \E i \in Replica : Break(i, x)
  PROVE  JamInv'
<1>0. NoSession.peer = NoPeer
  BY DEF NoSession, Session
<1>1. ASSUME NEW r \in Replica, Active(r)', sess'[r].alive
      PROVE  /\ Same(sess'[r], sess[r])
             /\ wire'[<<sess[r].peer, r>>] = wire[<<sess[r].peer, r>>]
             /\ \/ Same(sess'[sess[r].peer], sess[sess[r].peer])
                \/ /\ sess'[sess[r].peer].peer # r
                   /\ sess[sess[r].peer].peer # r \/ Done(sess[r].peer)
  <2> DEFINE p == sess[r].peer
  <2>0. \A s \in Replica : [sess[s] EXCEPT !.alive = FALSE].alive = FALSE
                           /\ [sess[s] EXCEPT !.alive = FALSE].peer = sess[s].peer
    <3>1. \A s \in Replica : sess[s] \in Sessions
      BY DEF MergeInv, SessionOK
    <3> QED
      BY <3>1 DEF Sessions
  <2>1. CASE Finish(x)
    <3>1. /\ \A s \in Replica : sess'[s] = IF s = x THEN NoSession ELSE sess[s]
          /\ wire' = wire /\ Done(x)
      BY <2>1 DEF Finish, MergeInv
    <3>2. r # x /\ sess'[r] = sess[r] /\ Active(r)
      BY <1>0, <1>1, <3>1 DEF Active
    <3>3. p \in Replica
      BY <3>2, Typing
    <3> QED
      BY <1>0, <3>1, <3>2, <3>3, SyncAssumption DEF Same
  <2>2. CASE Abort(x)
    <3>1. /\ \A s \in Replica : sess'[s] =
               IF s = x THEN NoSession
               ELSE IF s = sess[x].peer /\ sess[s].peer = x THEN [sess[s] EXCEPT !.alive = FALSE]
               ELSE sess[s]
          /\ wire' = wire
      BY <2>2 DEF Abort
    <3>2. r # x /\ sess'[r] = sess[r] /\ ~(r = sess[x].peer /\ sess[r].peer = x)
      BY <1>0, <1>1, <2>0, <3>1 DEF Active
    <3>3. Active(r) /\ p \in Replica
      BY <1>1, <3>2, Typing DEF Active
    <3>4. CASE p = x
      BY <1>0, <3>1, <3>2, <3>3, <3>4, SyncAssumption DEF Same
    <3>5. CASE p # x /\ p = sess[x].peer /\ sess[p].peer = x
      <4>1. sess'[p].peer # r /\ sess[p].peer # r
        BY <2>0, <3>1, <3>2, <3>3, <3>5
      <4> QED
        BY <3>1, <3>2, <4>1 DEF Same
    <3>6. CASE p # x /\ ~(p = sess[x].peer /\ sess[p].peer = x)
      BY <3>1, <3>2, <3>3, <3>6 DEF Same
    <3> QED
      BY <3>4, <3>5, <3>6
  <2>3. CASE Crash(x)
    <3>1. /\ \A s \in Replica : sess'[s] =
               IF s = x THEN NoSession
               ELSE IF sess[s].peer = x THEN [sess[s] EXCEPT !.alive = FALSE]
               ELSE sess[s]
          /\ wire' = [q \in Replica \X Replica |-> IF x \in {q[1], q[2]} THEN <<>> ELSE wire[q]]
      BY <2>3 DEF Crash
    <3>2. r # x /\ sess'[r] = sess[r] /\ p # x
      BY <1>0, <1>1, <2>0, <3>1 DEF Active
    <3>3. Active(r) /\ p \in Replica
      BY <1>1, <3>2, Typing DEF Active
    <3>4. wire'[<<p, r>>] = wire[<<p, r>>]
      BY <3>1, <3>2, <3>3
    <3>5. CASE sess[p].peer = x
      <4>1. sess'[p].peer # r /\ sess[p].peer # r
        BY <2>0, <3>1, <3>2, <3>3, <3>5
      <4> QED
        BY <3>2, <3>4, <4>1 DEF Same
    <3>6. CASE sess[p].peer # x
      BY <3>1, <3>2, <3>3, <3>4, <3>6 DEF Same
    <3> QED
      BY <3>5, <3>6
  <2>4. CASE \E i \in Replica : Break(i, x)
    <3>0. PICK i \in Replica : Break(i, x)
      BY <2>4
    <3>1. /\ \A s \in Replica : sess'[s] =
               IF <<s, sess[s].peer>> \in {<<i, x>>, <<x, i>>}
               THEN [sess[s] EXCEPT !.alive = FALSE] ELSE sess[s]
          /\ wire' = [q \in Replica \X Replica |->
                         IF q \in {<<i, x>>, <<x, i>>} THEN <<>> ELSE wire[q]]
      BY <3>0 DEF Break, FreshStreams
    <3>2. sess'[r] = sess[r] /\ <<r, p>> \notin {<<i, x>>, <<x, i>>}
      BY <1>1, <2>0, <3>1
    <3>3. Active(r) /\ p \in Replica
      BY <1>1, <3>2, Typing DEF Active
    <3>4. wire'[<<p, r>>] = wire[<<p, r>>]
      BY <3>1, <3>2, <3>3
    <3>5. CASE <<p, sess[p].peer>> \in {<<i, x>>, <<x, i>>}
      <4>1. sess'[p].peer # r /\ sess[p].peer # r
        BY <2>0, <3>1, <3>2, <3>3, <3>5
      <4> QED
        BY <3>2, <3>4, <4>1 DEF Same
    <3>6. CASE <<p, sess[p].peer>> \notin {<<i, x>>, <<x, i>>}
      BY <3>1, <3>2, <3>3, <3>4, <3>6 DEF Same
    <3> QED
      BY <3>5, <3>6
  <2> QED
    BY <2>1, <2>2, <2>3, <2>4
<1>2. ASSUME NEW r \in Replica PROVE Attended(r)'
  BY <1>1, StillAttended DEF JamInv
<1> QED
  BY <1>2 DEF JamInv

LEMMA ConnectJam ==
  ASSUME MergeInv, StepsInv, JamInv, NEW i \in Replica, NEW x \in Replica, Connect(i, x)
  PROVE  JamInv'
<1>1. PICK ids \in OpIds(i) :
        sess' = [sess EXCEPT ![i] = Session(x, <<Have(ids)>>), ![x] = Session(i, <<>>)]
  BY DEF Connect, OpenSessions
<1>2. /\ i # x /\ sess[i].peer = NoPeer /\ sess[x].peer = NoPeer
      /\ wire' = [p \in Replica \X Replica |->
                     IF p \in {<<i, x>>, <<x, i>>} THEN <<>> ELSE wire[p]]
  BY DEF Connect, FreshStreams, Active
<1>3. /\ sess'[i] = Session(x, <<Have(ids)>>) /\ sess'[x] = Session(i, <<>>)
      /\ \A q \in Replica \ {i, x} : sess'[q] = sess[q]
  BY <1>1, <1>2 DEF MergeInv
<1>4. /\ sess'[i].peer = x /\ sess'[i].heard = 0
      /\ sess'[x].peer = i /\ sess'[x].heard = 0
  BY <1>3 DEF Session
<1>5. sess'[i].sent_have /\ ~sess'[x].sent_have
  <2>1. <<Have(ids)>> # <<>>
    OBVIOUS
  <2>2. sess'[i].sent_have
    BY <1>3, <2>1, InitiatorSays
  <2>3. sess'[x].sent_have = (<<>> # <<>>)
    BY <1>3 DEF Session
  <2> QED
    BY <2>2, <2>3
<1>6. wire'[<<i, x>>] = <<>> /\ wire'[<<x, i>>] = <<>>
  BY <1>2
<1>7. Forthcoming(sess'[x], <<>>, sess'[i]) /\ Forthcoming(sess'[i], <<>>, sess'[x])
  <2>1. \A n \in 1..Len(<<>>) : FALSE
    OBVIOUS
  <2> QED
    BY <1>4, <1>5, <2>1 DEF Forthcoming, OpsToSay
<1>8. Attended(i)' /\ Attended(x)'
  BY <1>4, <1>7, <1>6 DEF Attended
<1>9. ASSUME NEW r \in Replica \ {i, x} PROVE Attended(r)'
  <2>1. ASSUME Active(r)', sess'[r].alive
        PROVE  /\ Same(sess'[r], sess[r])
               /\ wire'[<<sess[r].peer, r>>] = wire[<<sess[r].peer, r>>]
               /\ \/ Same(sess'[sess[r].peer], sess[sess[r].peer])
                  \/ /\ sess'[sess[r].peer].peer # r
                     /\ sess[sess[r].peer].peer # r \/ Done(sess[r].peer)
    <3>1. sess'[r] = sess[r] /\ Active(r) /\ sess[r].peer \in Replica
      BY <1>3, <2>1, Typing DEF Active
    <3>2. wire'[<<sess[r].peer, r>>] = wire[<<sess[r].peer, r>>]
      BY <1>2, <3>1
    <3> QED
      BY <1>2, <1>3, <1>4, <3>1, <3>2, SyncAssumption DEF Same
  <2> QED
    BY <2>1, StillAttended DEF JamInv
<1> QED
  BY <1>8, <1>9 DEF JamInv

(* A part that is written leaves the Ops as near as they were.             *)
LEMMA PartBringsNear ==
  ASSUME NEW s \in Seq(Part), NEW part \in Part, NEW q, NEW q2, NEW me, NEW t,
         t = Append(s, part), q.outbox \in Seq(Message), q.outbox # <<>>, q.written \in Nat,
         part.msg = Head(q.outbox), q.heard \in 0..2,
         Speaks(q), Talking(q, s, me), Wrote(q, q2, part), Forthcoming(q, s, me)
  PROVE  Forthcoming(q2, t, me)
<1>1. /\ Len(t) = Len(s) + 1 /\ Len(s) \in Nat /\ t[Len(s) + 1] = part
      /\ \A n \in 1..Len(s) : t[n] = s[n] /\ s[n] \in Part
      /\ Len(t) \in 1..Len(t)
  OBVIOUS
<1>2. /\ q2.sent_have = q.sent_have /\ q2.heard = q.heard
      /\ part.last => q2.outbox = Tail(q.outbox) /\ q2.written = 0
      /\ ~part.last => q2.outbox = q.outbox /\ q2.written = q.written + 1
  BY DEF Wrote
<1>3. \A e \in Message : (e.type = "Have") # (e.type = "Ops")
  BY DEF Message
<1>4. part.msg \in Message /\ \A n \in 1..Len(s) : s[n].msg \in Message
  BY <1>1 DEF Part
<1>5. part.last => (part.msg.type = "Have" <=> OpsToSay(q2))
  <2> SUFFICES ASSUME part.last PROVE part.msg.type = "Have" <=> OpsToSay(q2)
    OBVIOUS
  <2>1. q.sent_have /\ q.heard \in {0, 1}
    BY DEF Speaks
  <2>2. CASE q.heard = 0
    BY <1>2, <2>2 DEF Speaks, OpsToSay
  <2>3. CASE q.heard = 1
    <3>1. /\ Len(q.outbox) = 1 => Tail(q.outbox) = <<>>
          /\ Len(q.outbox) = 2 => Tail(q.outbox) # <<>>
      BY TailIsShorter
    <3>2. \/ Len(q.outbox) = 1 /\ part.msg.type = "Ops"
          \/ Len(q.outbox) = 2 /\ part.msg.type = "Have"
      BY <2>3 DEF Speaks
    <3>3. part.msg.type = "Have" <=> Tail(q.outbox) # <<>>
      BY <1>3, <1>4, <3>1, <3>2
    <3>4. q2.outbox = Tail(q.outbox) /\ q2.heard = 1
      BY <1>2, <2>3
    <3>5. OpsToSay(q2) <=> q2.outbox # <<>>
      BY <3>4 DEF OpsToSay
    <3> QED
      BY <3>3, <3>4, <3>5
  <2> QED
    BY <2>1, <2>2, <2>3
<1>6. ~part.last => OpsToSay(q2)
  BY <1>2 DEF OpsToSay
<1>7. (\A n \in 1..Len(t) : t[n].last => t[n].msg.type = "Have") => OpsToSay(q2)
  <2>1. CASE part.last
    BY <1>1, <1>5, <2>1
  <2> QED
    BY <1>6, <2>1
<1>8. ASSUME OpsToSay(q2), NEW n \in 1..Len(t), t[n].msg.type = "Ops"
      PROVE  Len(t) - n < q2.written
  <2>1. CASE part.last
    <3>1. part.msg.type = "Have"
      BY <1>5, <1>8, <2>1
    <3>2. HaveToSay(q)
      BY <3>1 DEF HaveToSay
    <3>3. n # Len(t)
      BY <1>1, <1>3, <1>4, <1>8, <3>1
    <3>4. n \in 1..Len(s) /\ s[n].msg.type = "Have"
      BY <1>1, <3>2, <3>3 DEF Talking
    <3> QED
      BY <1>1, <1>3, <1>4, <1>8, <3>4
  <2>2. CASE ~part.last
    <3>1. q2.written = q.written + 1 /\ OpsToSay(q)
      BY <1>2, <2>2 DEF OpsToSay
    <3>2. CASE n = Len(t)
      BY <1>1, <3>1, <3>2
    <3>3. CASE n # Len(t)
      <4>1. n \in 1..Len(s) /\ s[n].msg.type = "Ops"
        BY <1>1, <1>8, <3>3
      <4>2. Len(s) - n < q.written
        BY <3>1, <4>1 DEF Forthcoming
      <4> QED
        BY <1>1, <3>1, <4>1, <4>2
    <3> QED
      BY <3>2, <3>3
  <2> QED
    BY <2>1, <2>2
<1>9. q2.heard = 0 /\ me.heard = 0 => (q2.sent_have <=> ~me.sent_have)
  BY <1>2 DEF Forthcoming
<1> QED
  BY <1>7, <1>8, <1>9 DEF Forthcoming

LEMMA WriteJam ==
  ASSUME MergeInv, StepsInv, JamInv, NEW x \in Replica, Write(x)
  PROVE  JamInv'
<1> DEFINE to == sess[x].peer
           o == sess[x].outbox
           msg == Head(o)
           last == sess[x].written + 1 = Parts(msg)
           part == [msg |-> msg, last |-> last]
           s == wire[<<x, to>>]
           q == sess[x]
           q2 == sess'[x]
<1>1. Active(x) /\ o # <<>> /\ q.alive
  BY DEF Write, Writes
<1>2. /\ to \in Replica /\ to # x /\ q \in Sessions /\ o \in Seq(Message)
      /\ q.written \in Nat /\ q.heard \in 0..2
  BY <1>1, Typing DEF Sessions
<1>3. /\ part.msg = msg /\ part \in Part
  <2>1. msg \in Message /\ last \in BOOLEAN
    BY <1>1, <1>2
  <2> HIDE DEF msg, last
  <2> QED
    BY <2>1 DEF Part
<1>4. /\ Wrote(q, q2, part) /\ \A p \in Replica \ {x} : sess'[p] = sess[p]
      /\ wire'[<<x, to>>] = Append(s, part)
      /\ \A p, r \in Replica : <<p, r>> # <<x, to>> => wire'[<<p, r>>] = wire[<<p, r>>]
  <2> DEFINE w == IF last THEN 0 ELSE q.written + 1
             rest == IF last THEN Tail(o) ELSE o
             new == [q EXCEPT !.written = w, !.outbox = rest]
  <2>1. /\ wire' = [wire EXCEPT ![<<x, to>>] = Append(@, part)]
        /\ sess' = [sess EXCEPT ![x] = new]
    BY DEF Write
  <2>2. /\ part.last => rest = Tail(o) /\ w = 0
        /\ ~part.last => rest = o /\ w = q.written + 1
    OBVIOUS
  <2> HIDE DEF w, rest, part
  <2>3. Wrote(q, new, part)
    BY <1>2, <2>2 DEF Sessions, Wrote
  <2> HIDE DEF new
  <2> QED
    BY <1>2, <2>1, <2>3 DEF MergeInv
<1> HIDE DEF part, s, q2
<1>5. ASSUME NEW y \in Replica, y = to, Active(y), sess[y].alive, sess[y].peer = x
      PROVE  Attended(y)'
  <2> DEFINE t == Append(s, part)
             me == sess[y]
  <2>1. Forthcoming(q, s, me) /\ Talking(q, s, me) /\ s \in Seq(Part)
    BY <1>2, <1>5, Typing DEF JamInv, Attended, StepsInv, InStep, Part, s
  <2>2. Speaks(q)
    BY <1>1 DEF StepsInv, InStep
  <2>3. Forthcoming(q2, t, me)
    <3>1. t = Append(s, part) /\ part.msg = Head(q.outbox) /\ q.outbox # <<>> /\ q.outbox \in Seq(Message)
      BY <1>1, <1>2, <1>3
    <3> HIDE DEF t, q, me, o, msg
    <3> QED
      BY <1>2, <1>3, <1>4, <2>1, <2>2, <3>1, PartBringsNear
  <2>4. sess'[y] = me /\ wire'[<<x, y>>] = t /\ q2.peer = y
    BY <1>2, <1>4, <1>5 DEF Wrote
  <2> HIDE DEF t
  <2> QED
    BY <1>5, <2>3, <2>4 DEF Attended, q2
<1>6. Attended(x)'
  <2> SUFFICES ASSUME sess'[x].alive PROVE Attended(x)'
    BY DEF Attended
  <2>1. sess[to].peer = x
    BY <1>1 DEF JamInv, Attended, Provided
  <2> DEFINE p == sess[to]
             v == wire[<<to, x>>]
  <2>2. Forthcoming(p, v, q)
    BY <1>1, <2>1 DEF JamInv, Attended
  <2>3. Forthcoming(p, v, q2)
    BY <1>4, <2>2 DEF Forthcoming, Wrote
  <2>4. sess'[to] = p /\ wire'[<<to, x>>] = v /\ q2.peer = to
    BY <1>2, <1>4 DEF Wrote
  <2> QED
    BY <2>1, <2>3, <2>4 DEF Attended, q2
<1>7. ASSUME NEW r \in Replica, r # x, ~(r = to /\ sess[r].peer = x) PROVE Attended(r)'
  <2>1. ASSUME Active(r)', sess'[r].alive
        PROVE  /\ Same(sess'[r], sess[r])
               /\ wire'[<<sess[r].peer, r>>] = wire[<<sess[r].peer, r>>]
               /\ \/ Same(sess'[sess[r].peer], sess[sess[r].peer])
                  \/ /\ sess'[sess[r].peer].peer # r
                     /\ sess[sess[r].peer].peer # r \/ Done(sess[r].peer)
    <3>1. sess'[r] = sess[r] /\ Active(r) /\ sess[r].peer \in Replica
      BY <1>4, <1>7, <2>1, Typing DEF Active
    <3>2. wire'[<<sess[r].peer, r>>] = wire[<<sess[r].peer, r>>]
      BY <1>4, <1>7, <3>1
    <3>3. sess'[x].peer = to
      BY <1>4 DEF Wrote, q2
    <3> QED
      BY <1>4, <1>7, <3>1, <3>2, <3>3 DEF Same
  <2> QED
    BY <2>1, StillAttended DEF JamInv
<1>8. ASSUME NEW r \in Replica, r = to, sess[r].peer = x PROVE Attended(r)'
  <2>1. sess'[r] = sess[r]
    BY <1>2, <1>4, <1>8
  <2>2. CASE Active(r) /\ sess[r].alive
    BY <1>5, <1>8, <2>2
  <2>3. CASE ~(Active(r) /\ sess[r].alive)
    BY <1>8, <2>1, <2>3 DEF Attended, Active
  <2> QED
    BY <2>2, <2>3
<1> QED
  BY <1>6, <1>7, <1>8 DEF JamInv

(* What reading a part does: it goes on with a frame, hears a Have and     *)
(* answers, or hears the Ops.                                              *)
LEMMA ReceiveDoes ==
  ASSUME MergeInv, StepsInv, NEW x \in Replica, Receive(x)
  PROVE  LET from == sess[x].peer
             s == wire[<<from, x>>]
         IN  /\ Active(x) /\ sess[x].outbox = <<>> /\ s # <<>>
             /\ wire'[<<from, x>>] = Tail(s)
             /\ \A p, q \in Replica : <<p, q>> # <<from, x>> => wire'[<<p, q>>] = wire[<<p, q>>]
             /\ \A q \in Replica \ {x} : sess'[q] = sess[q]
             /\ sess'[x].peer = from /\ sess'[x].alive = sess[x].alive
             /\ sess'[x].written = sess[x].written
             /\ \/ ~Head(s).last /\ sess'[x] = sess[x]
                \/ /\ Head(s).last /\ Head(s).msg.type = "Have"
                   /\ sess[x].heard = 0 /\ sess'[x].heard = 1 /\ sess'[x].outbox # <<>>
                \/ /\ Head(s).last /\ Head(s).msg.type = "Ops"
                   /\ sess[x].heard = 1 /\ sess'[x].heard = 2 /\ sess'[x].outbox = <<>>
                   /\ sess'[x].sent_have = sess[x].sent_have
<1> DEFINE from == sess[x].peer
           s == wire[<<from, x>>]
           t == Tail(s)
           me == sess[x]
           me2 == sess'[x]
<1>1. /\ Active(x) /\ me.outbox = <<>> /\ s # <<>>
      /\ wire' = [wire EXCEPT ![<<from, x>>] = t]
  BY DEF Receive, Reads
<1>2. from \in Replica /\ me \in Sessions /\ me.heard \in 0..2 /\ s \in Seq(Part)
      /\ Streamed(s, me.heard)
  BY <1>1, Typing DEF Part, StepsInv, InStep
<1>3. wire'[<<from, x>>] = t
      /\ \A p, q \in Replica : <<p, q>> # <<from, x>> => wire'[<<p, q>>] = wire[<<p, q>>]
  <2> HIDE DEF t
  <2> QED
    BY <1>1, <1>2 DEF MergeInv
<1>4. /\ Head(s).last /\ Head(s).msg.type = "Have" => me.heard = 0
      /\ Head(s).last /\ Head(s).msg.type = "Ops" => me.heard = 1
  <2> DEFINE h == me.heard
  <2>1. t = Tail(s) /\ s \in Seq(Part) /\ s # <<>> /\ h \in {0, 1, 2} /\ Streamed(s, h)
    BY <1>1, <1>2
  <2> HIDE DEF t, s, h
  <2>2. FirstTaken(s, t, h)
    BY <2>1, PartIsTaken
  <2> QED
    BY <2>2 DEF h, FirstTaken
<1>5. CASE ~Head(s).last
  <2>1. sess' = sess
    BY <1>5 DEF Receive
  <2> HIDE DEF s, t
  <2> QED
    BY <1>1, <1>3, <1>5, <2>1 DEF s, t
<1>6. ASSUME Head(s).last, Head(s).msg.type = "Have",
             NEW ids, NEW ops, Answer(x, Reciprocal(x, ids) \o <<Ops(ops)>>)
      PROVE  /\ \A q \in Replica \ {x} : sess'[q] = sess[q]
             /\ me2.peer = from /\ me2.alive = me.alive /\ me2.written = me.written
             /\ me2.heard = 1 /\ me2.outbox # <<>>
  <2> DEFINE o == Reciprocal(x, ids) \o <<Ops(ops)>>
             new == [me EXCEPT !.heard = @ + 1, !.sent_have = TRUE, !.outbox = o]
  <2>1. sess' = [sess EXCEPT ![x] = new]
    BY <1>6 DEF Answer
  <2>2. o # <<>>
    <3>1. CASE me.sent_have
      BY <3>1 DEF Reciprocal
    <3>2. CASE ~me.sent_have
      <4>1. <<Have(ids)>> \o <<Ops(ops)>> = <<Have(ids), Ops(ops)>>
        BY Pairs
      <4>2. <<Have(ids), Ops(ops)>> # <<>>
        OBVIOUS
      <4> QED
        BY <3>2, <4>1, <4>2 DEF Reciprocal
    <3> QED
      BY <3>1, <3>2
  <2> HIDE DEF o
  <2>3. /\ new.peer = from /\ new.alive = me.alive /\ new.written = me.written
        /\ new.heard = 1 /\ new.outbox = o
    BY <1>2, <1>4, <1>6 DEF Sessions
  <2> HIDE DEF new
  <2> QED
    BY <2>1, <2>2, <2>3 DEF MergeInv
<1>7. ASSUME Head(s).last, Head(s).msg.type = "Ops", Take(x, Head(s).msg.ops)
      PROVE  /\ \A q \in Replica \ {x} : sess'[q] = sess[q]
             /\ me2.peer = from /\ me2.alive = me.alive /\ me2.written = me.written
             /\ me2.heard = 2 /\ me2.outbox = <<>> /\ me2.sent_have = me.sent_have
  <2> DEFINE ops == Head(s).msg.ops
             new == [me EXCEPT !.heard = @ + 1, !.inbox = ops]
  <2>1. sess' = [sess EXCEPT ![x] = new]
    BY <1>7 DEF Take
  <2> HIDE DEF ops
  <2>2. /\ new.peer = from /\ new.alive = me.alive /\ new.written = me.written
        /\ new.heard = 2 /\ new.outbox = <<>> /\ new.sent_have = me.sent_have
    BY <1>1, <1>2, <1>4, <1>7 DEF Sessions
  <2> HIDE DEF new
  <2> QED
    BY <2>1, <2>2 DEF MergeInv
<1>8. CASE Head(s).last
  <2>1. \/ /\ Head(s).msg.type = "Have"
           /\ \E ids, ops : Answer(x, Reciprocal(x, ids) \o <<Ops(ops)>>)
        \/ Head(s).msg.type = "Ops" /\ Take(x, Head(s).msg.ops)
    BY <1>8 DEF Receive, Handle
  <2>2. CASE Head(s).msg.type = "Have" /\ \E ids, ops : Answer(x, Reciprocal(x, ids) \o <<Ops(ops)>>)
    <3>1. /\ \A q \in Replica \ {x} : sess'[q] = sess[q]
          /\ me2.peer = from /\ me2.alive = me.alive /\ me2.written = me.written
          /\ me2.heard = 1 /\ me2.outbox # <<>>
      BY <1>6, <1>8, <2>2
    <3> HIDE DEF s, t, me, me2
    <3> QED
      BY <1>1, <1>3, <1>4, <1>8, <2>2, <3>1 DEF s, t, me, me2
  <2>3. CASE Head(s).msg.type = "Ops" /\ Take(x, Head(s).msg.ops)
    <3>1. /\ \A q \in Replica \ {x} : sess'[q] = sess[q]
          /\ me2.peer = from /\ me2.alive = me.alive /\ me2.written = me.written
          /\ me2.heard = 2 /\ me2.outbox = <<>> /\ me2.sent_have = me.sent_have
      BY <1>7, <1>8, <2>3
    <3> QED
      BY <1>1, <1>3, <1>4, <1>8, <2>3, <3>1
  <2> QED
    BY <2>1, <2>2, <2>3
<1> QED
  BY <1>5, <1>8

LEMMA ReceiveJam ==
  ASSUME MergeInv, StepsInv, JamInv, NEW x \in Replica, Receive(x)
  PROVE  JamInv'
<1> DEFINE from == sess[x].peer
           s == wire[<<from, x>>]
           t == Tail(s)
           me == sess[x]
           me2 == sess'[x]
           q == sess[from]
<1>1. /\ Active(x) /\ me.outbox = <<>> /\ s # <<>>
      /\ wire'[<<from, x>>] = t
      /\ \A p, r \in Replica : <<p, r>> # <<from, x>> => wire'[<<p, r>>] = wire[<<p, r>>]
      /\ \A p \in Replica \ {x} : sess'[p] = sess[p]
      /\ me2.peer = from /\ me2.alive = me.alive /\ me2.written = me.written
      /\ \/ ~Head(s).last /\ me2 = me
         \/ /\ Head(s).last /\ Head(s).msg.type = "Have"
            /\ me.heard = 0 /\ me2.heard = 1 /\ me2.outbox # <<>>
         \/ /\ Head(s).last /\ Head(s).msg.type = "Ops"
            /\ me.heard = 1 /\ me2.heard = 2 /\ me2.outbox = <<>> /\ me2.sent_have = me.sent_have
  BY ReceiveDoes
<1>2. from \in Replica /\ from # x /\ me \in Sessions /\ me.heard \in 0..2 /\ s \in Seq(Part)
  BY <1>1, Typing DEF Part
<1>3. /\ Len(s) \in Nat /\ Len(s) >= 1 /\ Head(s) = s[1] /\ 1 \in 1..Len(s) /\ Len(t) = Len(s) - 1
      /\ \A n \in 1..Len(t) : n + 1 \in 1..Len(s) /\ t[n] = s[n + 1]
      /\ t = <<>> => Len(s) = 1
  <2>1. s \in Seq(Part) /\ s # <<>>
    BY <1>1, <1>2
  <2> HIDE DEF s
  <2>2. /\ Len(s) \in Nat /\ Len(s) >= 1 /\ Head(s) = s[1] /\ 1 \in 1..Len(s) /\ Len(t) = Len(s) - 1
        /\ \A n \in 1..Len(t) : n + 1 \in 1..Len(s) /\ t[n] = s[n + 1]
    BY <2>1
  <2> HIDE DEF t
  <2>3. t = <<>> => Len(t) = 0
    OBVIOUS
  <2> QED
    BY <2>2, <2>3
<1>4. \A n \in 1..Len(s) : n = 1 \/ (n - 1 \in 1..Len(t) /\ t[n - 1] = s[n])
  <2> HIDE DEF t, s
  <2>1. ASSUME NEW n \in 1..Len(s), n # 1 PROVE n - 1 \in 1..Len(t) /\ n - 1 + 1 = n
    BY <1>3, <2>1
  <2> QED
    BY <1>3, <2>1
<1>5. RestComes(x, q, s)
  BY <1>1 DEF StepsInv, InStep
<1> HIDE DEF s, t, me2, q
<1>6. Attended(x)'
  <2> SUFFICES ASSUME me2.alive PROVE Attended(x)'
    BY DEF Attended, me2
  <2>1. IF q.peer = x THEN Forthcoming(q, s, me) ELSE Provided(s, me)
    BY <1>1 DEF JamInv, Attended, q, s
  <2>2. ASSUME q.peer = x PROVE Forthcoming(q, t, me2)
    <3>1. Forthcoming(q, s, me)
      BY <2>1, <2>2
    <3>2. ASSUME me2.heard # 2, \A n \in 1..Len(t) : t[n].last => t[n].msg.type = "Have"
          PROVE  OpsToSay(q)
      <4>1. Head(s).last => Head(s).msg.type = "Have"
        BY <1>1, <3>2
      <4>2. \A n \in 1..Len(s) : s[n].last => s[n].msg.type = "Have"
        BY <1>3, <1>4, <3>2, <4>1
      <4>3. me.heard # 2
        BY <1>1, <3>2
      <4> QED
        BY <3>1, <4>2, <4>3 DEF Forthcoming
    <3>3. ASSUME OpsToSay(q), NEW n \in 1..Len(t), t[n].msg.type = "Ops"
          PROVE  Len(t) - n < q.written
      <4>1. n + 1 \in 1..Len(s) /\ s[n + 1].msg.type = "Ops"
        BY <1>3, <3>3
      <4>2. Len(s) - (n + 1) < q.written
        BY <3>1, <3>3, <4>1 DEF Forthcoming
      <4>3. Len(t) - n = Len(s) - (n + 1)
        BY <1>3
      <4> QED
        BY <4>2, <4>3
    <3>4. q.heard = 0 /\ me2.heard = 0 => (q.sent_have <=> ~me2.sent_have)
      BY <1>1, <3>1 DEF Forthcoming
    <3> QED
      BY <3>2, <3>3, <3>4 DEF Forthcoming
  <2>3. ASSUME q.peer # x PROVE Provided(t, me2)
    <3>1. Provided(s, me)
      BY <2>1, <2>3
    <3>2. CASE ~Head(s).last /\ me2 = me
      <4>1. t # <<>>
        <5>1. s[Len(s)].last
          BY <1>1, <1>5, <2>3 DEF RestComes
        <5> QED
          BY <1>3, <3>2, <5>1
      <4> QED
        BY <3>1, <3>2, <4>1 DEF Provided
    <3>3. CASE me2.heard = 2 /\ me2.outbox = <<>> /\ me2.sent_have = me.sent_have
      BY <3>1, <3>3 DEF Provided
    <3>4. me.heard # 0
      BY <3>1 DEF Provided
    <3> QED
      BY <1>1, <3>2, <3>3, <3>4
  <2>4. sess'[from] = q /\ wire'[<<from, x>>] = t
    BY <1>1, <1>2 DEF q
  <2> QED
    BY <1>1, <2>2, <2>3, <2>4 DEF Attended, me2
<1>7. ASSUME NEW r \in Replica, r = from, sess[r].peer = x PROVE Attended(r)'
  <2> DEFINE v == wire[<<x, r>>]
  <2>0. sess'[r] = sess[r] /\ wire'[<<x, r>>] = v /\ r # x
    BY <1>1, <1>2, <1>7
  <2> SUFFICES ASSUME Active(r), sess[r].alive PROVE Attended(r)'
    BY <2>0 DEF Attended, Active
  <2>1. Forthcoming(me, v, sess[r])
    BY <1>7 DEF JamInv, Attended
  <2>2. OpsToSay(me) => OpsToSay(me2)
    BY <1>1 DEF OpsToSay
  <2>3. OpsToSay(me2) => OpsToSay(me)
    BY <1>1 DEF OpsToSay
  <2>4. me2.heard = 0 => me.heard = 0 /\ me2.sent_have = me.sent_have
    BY <1>1
  <2>5. me2.written = me.written
    BY <1>1
  <2> HIDE DEF me, v
  <2>6. Forthcoming(me2, v, sess[r])
    BY <2>1, <2>2, <2>3, <2>4, <2>5 DEF Forthcoming
  <2> QED
    BY <1>1, <1>7, <2>0, <2>6 DEF Attended, v, me2
<1>8. ASSUME NEW r \in Replica, r # x, ~(r = from /\ sess[r].peer = x) PROVE Attended(r)'
  <2>1. ASSUME Active(r)', sess'[r].alive
        PROVE  /\ Same(sess'[r], sess[r])
               /\ wire'[<<sess[r].peer, r>>] = wire[<<sess[r].peer, r>>]
               /\ \/ Same(sess'[sess[r].peer], sess[sess[r].peer])
                  \/ /\ sess'[sess[r].peer].peer # r
                     /\ sess[sess[r].peer].peer # r \/ Done(sess[r].peer)
    <3>1. sess'[r] = sess[r] /\ Active(r) /\ sess[r].peer \in Replica
      BY <1>1, <1>8, <2>1, Typing DEF Active
    <3>2. wire'[<<sess[r].peer, r>>] = wire[<<sess[r].peer, r>>]
      BY <1>1, <1>8, <3>1
    <3>3. sess'[x].peer = from
      BY <1>1 DEF me2
    <3> QED
      BY <1>1, <1>8, <3>1, <3>2, <3>3 DEF Same
  <2> QED
    BY <2>1, StillAttended DEF JamInv
<1> QED
  BY <1>6, <1>7, <1>8 DEF JamInv

LEMMA StepJam == MergeInv /\ StepsInv /\ JamInv /\ [Next]_vars => JamInv'
<1> SUFFICES ASSUME MergeInv, StepsInv, JamInv, [Next]_vars PROVE JamInv'
  OBVIOUS
<1>1. CASE UNCHANGED vars
  BY <1>1 DEF vars, JamInv, Attended, Active
<1>2. CASE Next
  BY <1>2, QuietJam, ConnectJam, WriteJam, ReceiveJam, EndingsJam DEF Next, Step
<1> QED
  BY <1>1, <1>2

(* A frame that is being written has parts left.                           *)
MidFrame == \A r \in Replica :
    sess[r].written > 0 => sess[r].written < Parts(Head(sess[r].outbox))

(* A message of an outbox has a number of parts.                           *)
LEMMA FrameParts ==
  ASSUME MergeInv, StepsInv, NEW r \in Replica, Active(r), sess[r].outbox # <<>>
  PROVE  Parts(Head(sess[r].outbox)) \in Nat \ {0}
<1>1. Speaks(sess[r]) /\ sess[r].outbox \in Seq(Message)
  BY Typing DEF StepsInv, InStep
<1>2. IsFiniteSet(Head(sess[r].outbox).ops)
  BY <1>1 DEF Speaks
<1>3. Cardinality(Head(sess[r].outbox).ops) \in Nat
  BY <1>2, FS_CardinalityType
<1> QED
  BY <1>3 DEF Parts

LEMMA StepMid == MergeInv /\ StepsInv /\ MidFrame /\ [Next]_vars => MidFrame'
<1> SUFFICES ASSUME MergeInv, StepsInv, MidFrame, [Next]_vars, NEW r \in Replica, sess'[r].written > 0
             PROVE  sess'[r].written < Parts(Head(sess'[r].outbox))
  BY DEF MidFrame, Parts
<1> DEFINE Kept == sess'[r].written = sess[r].written /\ sess'[r].outbox = sess[r].outbox
<1>0. \A p, o : Session(p, o).written = 0
  BY DEF Session
<1>1. CASE Kept
  BY <1>1 DEF MidFrame
<1>2. sess[r] \in Sessions /\ sess[r].written \in Nat
  BY DEF MergeInv, SessionOK, Sessions
<1>3. /\ [sess[r] EXCEPT !.alive = FALSE].written = sess[r].written
      /\ [sess[r] EXCEPT !.alive = FALSE].outbox = sess[r].outbox
  BY <1>2 DEF Sessions
<1>4. ASSUME NEW x \in Replica, Write(x) PROVE sess'[r].written < Parts(Head(sess'[r].outbox))
  <2> DEFINE o == sess[x].outbox
             last == sess[x].written + 1 = Parts(Head(o))
             w == IF last THEN 0 ELSE sess[x].written + 1
             rest == IF last THEN Tail(o) ELSE o
             new == [sess[x] EXCEPT !.written = w, !.outbox = rest]
  <2>1. sess' = [sess EXCEPT ![x] = new]
    BY <1>4 DEF Write
  <2>2. CASE r # x
    <3> HIDE DEF new
    <3> QED
      BY <1>1, <2>1, <2>2 DEF MergeInv
  <2>3. CASE r = x
    <3>1. sess'[r].written = w /\ sess'[r].outbox = rest
      <4> HIDE DEF w, rest
      <4>1. new.written = w /\ new.outbox = rest
        BY <1>2, <2>3 DEF Sessions
      <4> HIDE DEF new
      <4> QED
        BY <2>1, <2>3, <4>1 DEF MergeInv
    <3>2. ~last /\ sess'[r].written = sess[r].written + 1 /\ sess'[r].outbox = sess[r].outbox
      BY <2>3, <3>1
    <3>3. Active(r) /\ sess[r].outbox # <<>> /\ sess[r].outbox \in Seq(Message)
      BY <1>4, <2>3, Typing DEF Write, Writes
    <3>4. Parts(Head(sess[r].outbox)) \in Nat \ {0}
      BY <3>3, FrameParts
    <3>5. sess[r].written < Parts(Head(sess[r].outbox))
      BY <1>2, <3>4 DEF MidFrame
    <3> QED
      BY <1>2, <2>3, <3>2, <3>4, <3>5
  <2> QED
    BY <2>2, <2>3
<1>5. ASSUME NEW x \in Replica, Receive(x) PROVE sess'[r].written < Parts(Head(sess'[r].outbox))
  <2>1. /\ Active(x) /\ sess[x].outbox = <<>> /\ sess'[x].written = sess[x].written
        /\ \A q \in Replica \ {x} : sess'[q] = sess[q]
    BY <1>5, ReceiveDoes
  <2>2. ~(sess[x].written > 0)
    BY <2>1 DEF StepsInv, InStep, Speaks
  <2> QED
    BY <1>1, <2>1, <2>2
<1>6. ASSUME NEW x \in Replica, NEW op \in Op, Issue(x, op) \/ Ingest(x, op) PROVE Kept
  <2>1. CASE Issue(x, op)
    BY <2>1 DEF Issue
  <2>2. CASE Ingest(x, op)
    <3> DEFINE new == [sess[x] EXCEPT !.inbox = @ \ {op}]
    <3>1. sess' = [sess EXCEPT ![x] = new]
      BY <2>2 DEF Ingest
    <3>2. x = r => new.written = sess[r].written /\ new.outbox = sess[r].outbox
      BY <1>2 DEF Sessions
    <3> HIDE DEF new
    <3> QED
      BY <3>1, <3>2 DEF MergeInv
  <2> QED
    BY <1>6, <2>1, <2>2
<1>7. ASSUME NEW x \in Replica, NEW i \in Replica,
             Finish(x) \/ Abort(x) \/ Crash(x) \/ Break(i, x)
      PROVE  Kept
  <2>0. NoSession.written = 0
    BY <1>0 DEF NoSession
  <2>1. sess'[r] \in {sess[r], NoSession, [sess[r] EXCEPT !.alive = FALSE]}
    BY <1>7 DEF Finish, Abort, Crash, Break, MergeInv
  <2>2. CASE sess'[r] = NoSession
    <3>1. sess'[r].written = 0
      BY <2>0, <2>2
    <3> QED
      BY <3>1
  <2>3. CASE sess'[r] = [sess[r] EXCEPT !.alive = FALSE]
    BY <1>3, <2>3
  <2> QED
    BY <2>1, <2>2, <2>3
<1>8. ASSUME NEW i \in Replica, NEW x \in Replica, Connect(i, x) PROVE Kept
  <2>1. PICK ids \in OpIds(i) :
          sess' = [sess EXCEPT ![i] = Session(x, <<Have(ids)>>), ![x] = Session(i, <<>>)]
    BY <1>8 DEF Connect, OpenSessions
  <2>2. sess'[r] \in {sess[r], Session(x, <<Have(ids)>>), Session(i, <<>>)}
    BY <2>1 DEF MergeInv
  <2> QED
    BY <1>0, <2>2
<1>9. CASE UNCHANGED vars
  BY <1>1, <1>9 DEF vars
<1>10. CASE Next
  <2>1. CASE \E x \in Replica : Step(x) \/ Crash(x)
    BY <1>1, <1>4, <1>5, <1>6, <1>7, <2>1 DEF Step
  <2>2. CASE \E x \in Replica, op \in Op : Issue(x, op)
    BY <1>1, <1>6, <2>2
  <2>3. CASE \E i, x \in Replica : Connect(i, x) \/ Break(i, x)
    BY <1>1, <1>7, <1>8, <2>3
  <2> QED
    BY <1>10, <2>1, <2>2, <2>3 DEF Next
<1> QED
  BY <1>9, <1>10

LEMMA JamInvHolds == Spec => [](MergeInv /\ StepsInv /\ JamInv /\ MidFrame)
<1>1. Init => MidFrame
  BY DEF Init, MidFrame, NoSession, Session
<1> QED
  BY <1>1, InitMerge, StepMerge, InitSteps, StepSteps, InitJam, StepJam, StepMid, PTL DEF Spec

(* No replica waits for one that has left the exchange, and the two sides  *)
(* of one wait for each other only in the middle of Ops frames longer than *)
(* the window, whatever breaks, crashes and fails.                         *)
THEOREM NobodyWaitsInVain == Spec => []OnlyDeltasJam
  BY JamInvHolds, JamShows, PTL

(* Two sides that wait for each other.                                     *)
NoStandoff == \A r \in Replica : Waits(r) => ~Waits(sess[r].peer)

(* With streams that buffer the largest frame somebody can always go on.   *)
THEOREM RoomyStreamsNeverJam ==
  ASSUME MaxFrame <= Window
  PROVE  Spec => []NoStandoff
<1>1. MergeInv /\ StepsInv /\ JamInv /\ MidFrame => NoStandoff
  <2> SUFFICES ASSUME MergeInv, StepsInv, OnlyDeltasJam, MidFrame, NEW r \in Replica, Waits(r),
                      Waits(sess[r].peer)
               PROVE  FALSE
    BY JamShows DEF NoStandoff
  <2> DEFINE me == sess[r]
             n == Parts(Head(me.outbox))
  <2>1. me.outbox # <<>> /\ me.written >= Window
    BY DEF OnlyDeltasJam
  <2>2. n <= MaxFrame
    BY <2>1 DEF Waits, Reads
  <2>3. Active(r) /\ me.outbox \in Seq(Message) /\ me.written \in Nat
    BY Typing DEF Waits, Sessions
  <2>4. n \in Nat
    BY <2>1, <2>3, FrameParts
  <2>5. me.written > 0 => me.written < n
    BY DEF MidFrame
  <2> HIDE DEF n, me
  <2> QED
    BY <2>1, <2>2, <2>3, <2>4, <2>5, SyncAssumption
<1> QED
  BY <1>1, JamInvHolds, PTL

-----------------------------------------------------------------------------
(* What a session has to do, in numbers.                                   *)
LEMMA UnitIs ==
  ASSUME IsFiniteSet(Op)
  PROVE  /\ Unit \in Nat /\ Cardinality(Op) \in Nat /\ Unit = 2 * Cardinality(Op) + 2
         /\ \A S \in SUBSET Op : Cardinality(S) \in 0..Cardinality(Op)
         /\ \A m \in Message : Parts(m) \in 1..(Unit - 1)
<1>1. Cardinality(Op) \in Nat
  BY FS_CardinalityType
<1>2. \A S \in SUBSET Op : Cardinality(S) \in 0..Cardinality(Op)
  <2> TAKE S \in SUBSET Op
  <2>1. IsFiniteSet(S) /\ Cardinality(S) <= Cardinality(Op)
    BY FS_Subset
  <2>2. Cardinality(S) \in Nat
    BY <2>1, FS_CardinalityType
  <2> QED
    BY <1>1, <2>1, <2>2
<1>3. \A m \in Message : Parts(m) \in 1..(Unit - 1)
  <2> TAKE m \in Message
  <2>1. Cardinality(m.ops) \in 0..Cardinality(Op)
    BY <1>2 DEF Message
  <2> QED
    BY <1>1, <2>1 DEF Parts, Unit
<1> QED
  BY <1>1, <1>2, <1>3 DEF Unit

LEMMA Reckoned ==
  ASSUME IsFiniteSet(Op), NEW q \in Sessions, Speaks(q),
         q.written > 0 => q.written < Parts(Head(q.outbox))
  PROVE  /\ q.heard \in 0..2 /\ Len(q.outbox) \in 0..2 /\ q.written \in Nat
         /\ Cardinality(q.inbox) \in 0..Cardinality(Op)
         /\ q.outbox = <<>> => q.written = 0 /\ Len(q.outbox) = 0
         /\ q.outbox # <<>> => q.written < Parts(Head(q.outbox)) /\ Parts(Head(q.outbox)) < Unit
         /\ ToDo(q) \in Nat
<1>1. /\ q.heard \in {0, 1, 2} /\ q.outbox \in Seq(Message) /\ q.written \in Nat
      /\ q.inbox \in SUBSET Op
  BY DEF Sessions
<1>2. Len(q.outbox) \in {0, 1, 2}
  <2>1. q.outbox = <<>> => Len(q.outbox) = 0
    OBVIOUS
  <2> QED
    BY <1>1, <2>1 DEF Speaks
<1>3. Cardinality(q.inbox) \in 0..Cardinality(Op)
  BY <1>1, UnitIs
<1>4. q.outbox = <<>> => q.written = 0 /\ Len(q.outbox) = 0
  BY <1>1 DEF Speaks
<1>5. q.outbox # <<>> => /\ q.written < Parts(Head(q.outbox)) /\ Parts(Head(q.outbox)) < Unit
                         /\ Len(q.outbox) > 0
  <2> SUFFICES ASSUME q.outbox # <<>>
               PROVE  /\ q.written < Parts(Head(q.outbox)) /\ Parts(Head(q.outbox)) < Unit
                      /\ Len(q.outbox) > 0
    OBVIOUS
  <2>1. Head(q.outbox) \in Message /\ Len(q.outbox) > 0
    BY <1>1
  <2>2. Parts(Head(q.outbox)) \in 1..(Unit - 1) /\ Unit \in Nat
    BY <2>1, UnitIs
  <2> QED
    BY <1>1, <2>1, <2>2
<1>6. ToDo(q) \in Nat
  <2> DEFINE n == Len(q.outbox)
             k == Cardinality(q.inbox)
             w == q.written
             h == q.heard
             U == Unit
  <2>1. /\ U \in Nat /\ k \in Nat /\ w \in Nat /\ h \in {0, 1, 2} /\ n \in {0, 1, 2}
        /\ n = 0 => w = 0
        /\ w <= U
    <3>1. n = 0 => q.outbox = <<>>
      BY <1>1
    <3>2. Parts(Head(q.outbox)) \in Nat \/ q.outbox = <<>>
      <4>1. q.outbox # <<>> => Head(q.outbox) \in Message
        BY <1>1
      <4> QED
        BY <4>1, UnitIs
    <3> QED
      BY <1>1, <1>2, <1>3, <1>4, <1>5, <3>1, <3>2, UnitIs
  <2>2. ToDo(q) = U * (5 * (2 - h) + 2 * n) - 2 * w + k
    BY DEF ToDo
  <2> HIDE DEF n, k, w, h, U
  <2>3. 5 * (2 - h) + 2 * n \in {0, 2, 4, 5, 7, 9, 10, 12, 14} /\ (n # 0 => 5 * (2 - h) + 2 * n # 0)
    BY <2>1
  <2>4. U * (5 * (2 - h) + 2 * n) >= (IF n = 0 THEN 0 ELSE 2 * U)
    BY <2>1, <2>3
  <2>5. U * (5 * (2 - h) + 2 * n) \in Nat
    BY <2>1, <2>3
  <2> QED
    BY <2>1, <2>2, <2>4, <2>5
<1> QED
  BY <1>1, <1>2, <1>3, <1>4, <1>5, <1>6

(* Of a replica in an exchange.                                            *)
Numbered == MergeInv /\ StepsInv /\ MidFrame

LEMMA SessionNumbers ==
  ASSUME IsFiniteSet(Op), Numbered, NEW r \in Replica, Active(r)
  PROVE  LET q == sess[r]
         IN  /\ q \in Sessions /\ q.peer \in Replica \ {r}
             /\ q.heard \in 0..2 /\ Len(q.outbox) \in 0..2 /\ q.written \in Nat
             /\ q.outbox \in Seq(Message)
             /\ Cardinality(q.inbox) \in 0..Cardinality(Op)
             /\ q.outbox = <<>> => q.written = 0 /\ Len(q.outbox) = 0
             /\ q.outbox # <<>> => q.written < Parts(Head(q.outbox)) /\ Parts(Head(q.outbox)) < Unit
             /\ ToDo(q) \in Nat
             /\ \A p \in Replica : /\ Len(wire[<<p, r>>]) \in Nat /\ Len(wire[<<r, p>>]) \in Nat
                                   /\ wire[<<p, r>>] \in Seq(Part) /\ wire[<<r, p>>] \in Seq(Part)
<1>1. sess[r] \in Sessions /\ sess[r].peer \in Replica \ {r} /\ sess[r].outbox \in Seq(Message)
  BY Typing DEF Numbered
<1>2. Speaks(sess[r]) /\ (sess[r].written > 0 => sess[r].written < Parts(Head(sess[r].outbox)))
  BY DEF Numbered, StepsInv, InStep, MidFrame
<1>3. \A p \in Replica : wire[<<p, r>>] \in Seq(Part) /\ wire[<<r, p>>] \in Seq(Part)
  BY MergeInvType DEF Numbered, TypeOK, Part
<1> QED
  BY <1>1, <1>2, <1>3, Reckoned

(* A step of x's sync() that does not end it uses up some of its work.     *)
SpentBy(x) ==
    LET t == sess[x].peer
    IN  /\ Active(x) /\ sess'[x].peer = t
        /\ \A q \in Replica \ {x} : sess'[q] = sess[q]
        /\ \A a, b \in Replica : <<a, b>> \notin {<<x, t>>, <<t, x>>} =>
               wire'[<<a, b>>] = wire[<<a, b>>]
        /\ ToDo(sess'[x]) + Len(wire'[<<t, x>>]) + Len(wire'[<<x, t>>])
             < ToDo(sess[x]) + Len(wire[<<t, x>>]) + Len(wire[<<x, t>>])

LEMMA WriteSpends ==
  ASSUME IsFiniteSet(Op), Numbered, NEW x \in Replica, Write(x)
  PROVE  SpentBy(x)
<1> DEFINE me == sess[x]
           t == me.peer
           o == me.outbox
           last == me.written + 1 = Parts(Head(o))
           w == IF last THEN 0 ELSE me.written + 1
           rest == IF last THEN Tail(o) ELSE o
           new == [me EXCEPT !.written = w, !.outbox = rest]
           v == wire[<<x, t>>]
           part == [msg |-> Head(o), last |-> last]
<1>1. /\ Active(x) /\ o # <<>> /\ sess' = [sess EXCEPT ![x] = new]
      /\ wire' = [wire EXCEPT ![<<x, t>>] = Append(v, part)]
  BY DEF Write, Writes
<1>2. /\ me \in Sessions /\ t \in Replica \ {x} /\ me.heard \in 0..2 /\ Len(o) \in 0..2
      /\ me.written \in Nat /\ o \in Seq(Message) /\ Cardinality(me.inbox) \in 0..Cardinality(Op)
      /\ me.written < Parts(Head(o)) /\ Parts(Head(o)) < Unit
      /\ \A p \in Replica : Len(wire[<<p, x>>]) \in Nat /\ v \in Seq(Part)
  BY <1>1, SessionNumbers
<1>3. Unit \in Nat /\ Parts(Head(o)) \in Nat /\ Len(o) > 0 /\ Len(Tail(o)) = Len(o) - 1
  <2>1. Head(o) \in Message /\ Len(o) > 0 /\ Len(Tail(o)) = Len(o) - 1
    BY <1>1, <1>2
  <2>2. Cardinality(Op) \in Nat /\ Unit \in Nat /\ Parts(Head(o)) \in 1..(Unit - 1)
    BY <2>1, UnitIs
  <2> QED
    BY <2>1, <2>2
<1>4. new.peer = t /\ new.heard = me.heard /\ new.inbox = me.inbox /\ new.written = w /\ new.outbox = rest
  <2> HIDE DEF w, rest
  <2> QED
    BY <1>2 DEF Sessions
<1>5. /\ sess'[x] = new /\ \A q \in Replica \ {x} : sess'[q] = sess[q]
  <2> HIDE DEF new
  <2> QED
    BY <1>1 DEF Numbered, MergeInv
<1>6. /\ wire'[<<x, t>>] = Append(v, part)
      /\ \A a, b \in Replica : <<a, b>> # <<x, t>> => wire'[<<a, b>>] = wire[<<a, b>>]
  <2> HIDE DEF v, part
  <2> QED
    BY <1>1, <1>2 DEF Numbered, MergeInv
<1>7. Len(Append(v, part)) = Len(v) + 1
  <2> HIDE DEF part
  <2> QED
    BY <1>2
<1>8. ToDo(new) + 1 < ToDo(me)
  <2> DEFINE U == Unit
             h == me.heard
             k == Cardinality(me.inbox)
             z == me.written
             n == Len(o)
  <2>1. ToDo(me) = U * (5 * (2 - h) + 2 * n) - 2 * z + k
    BY DEF ToDo
  <2>2. ToDo(new) = U * (5 * (2 - h) + 2 * Len(rest)) - 2 * w + k
    <3> HIDE DEF new, rest, w
    <3> QED
      BY <1>4 DEF ToDo
  <2>3. U \in Nat /\ k \in Nat /\ z \in Nat /\ h \in {0, 1, 2} /\ n \in {1, 2} /\ z + 1 < U
    <3> DEFINE c == Cardinality(Op)
               f == Parts(Head(o))
    <3>1. U \in Nat /\ f \in Nat /\ n > 0
      BY <1>3
    <3>2. c \in Nat
      BY UnitIs
    <3>3. h \in 0..2 /\ n \in 0..2 /\ z \in Nat /\ k \in 0..c /\ z < f /\ f < U
      BY <1>2
    <3> HIDE DEF U, h, k, z, n, c, f
    <3> QED
      BY <3>1, <3>2, <3>3
  <2>4. CASE last
    <3>1. w = 0 /\ Len(rest) = n - 1
      BY <1>3, <2>4
    <3> HIDE DEF U, h, k, z, n, w, rest, new, me
    <3>2. U * (5 * (2 - h) + 2 * (n - 1)) = U * (5 * (2 - h) + 2 * n) - 2 * U
      BY <2>3
    <3>3. U * (5 * (2 - h) + 2 * n) \in Int
      BY <2>3
    <3> QED
      BY <2>1, <2>2, <2>3, <3>1, <3>2, <3>3
  <2>5. CASE ~last
    <3>1. w = z + 1 /\ Len(rest) = n
      BY <2>5
    <3> HIDE DEF U, h, k, z, n, w, rest, new, me
    <3>2. U * (5 * (2 - h) + 2 * n) \in Int
      BY <2>3
    <3> QED
      BY <2>1, <2>2, <2>3, <3>1, <3>2
  <2> QED
    BY <2>4, <2>5
<1>9. ToDo(me) \in Nat /\ ToDo(new) \in Int /\ wire'[<<t, x>>] = wire[<<t, x>>]
      /\ Len(v) \in Nat /\ Len(wire[<<t, x>>]) \in Nat
  <2>1. ToDo(me) \in Nat
    BY <1>1, SessionNumbers
  <2>2. wire'[<<t, x>>] = wire[<<t, x>>]
    BY <1>2, <1>6
  <2>3. Len(v) \in Nat /\ Len(wire[<<t, x>>]) \in Nat
    BY <1>2
  <2>4. ToDo(new) \in Int
    <3>1. w \in Nat
      BY <1>2
    <3>2. Len(rest) \in Int
      BY <1>2, <1>3
    <3>3. Cardinality(me.inbox) \in Nat /\ me.heard \in Int
      BY <1>2, UnitIs
    <3>4. ToDo(new) = Unit * (5 * (2 - me.heard) + 2 * Len(rest)) - 2 * w + Cardinality(me.inbox)
      <4> HIDE DEF new, w, rest
      <4> QED
        BY <1>4 DEF ToDo
    <3> HIDE DEF new, w, rest, me
    <3>5. Unit * (5 * (2 - me.heard) + 2 * Len(rest)) \in Int
      BY <1>3, <3>2, <3>3
    <3> QED
      BY <3>1, <3>3, <3>4, <3>5
  <2> QED
    BY <2>1, <2>2, <2>3, <2>4
<1>10. ToDo(new) + Len(wire[<<t, x>>]) + (Len(v) + 1) < ToDo(me) + Len(wire[<<t, x>>]) + Len(v)
  <2> HIDE DEF new, me, v, t
  <2> QED
    BY <1>8, <1>9
<1> QED
  <2> HIDE DEF new, part, o, w, rest
  <2> QED
    BY <1>1, <1>2, <1>4, <1>5, <1>6, <1>7, <1>9, <1>10 DEF SpentBy

LEMMA ReceiveSpends ==
  ASSUME IsFiniteSet(Op), Numbered, Numbered', NEW x \in Replica, Receive(x)
  PROVE  SpentBy(x)
<1> DEFINE me == sess[x]
           me2 == sess'[x]
           t == me.peer
           s == wire[<<t, x>>]
<1>1. /\ Active(x) /\ me.outbox = <<>> /\ s # <<>> /\ wire'[<<t, x>>] = Tail(s)
      /\ \A a, b \in Replica : <<a, b>> # <<t, x>> => wire'[<<a, b>>] = wire[<<a, b>>]
      /\ \A q \in Replica \ {x} : sess'[q] = sess[q]
      /\ me2.peer = t /\ me2.written = me.written
      /\ \/ me2 = me
         \/ me.heard = 0 /\ me2.heard = 1
         \/ me.heard = 1 /\ me2.heard = 2 /\ me2.outbox = <<>>
  BY ReceiveDoes DEF Numbered
<1>2. /\ t \in Replica \ {x} /\ me.written = 0 /\ Len(me.outbox) = 0
      /\ Cardinality(me.inbox) \in 0..Cardinality(Op) /\ ToDo(me) \in Nat
      /\ \A p \in Replica : Len(wire[<<p, x>>]) \in Nat /\ Len(wire[<<x, p>>]) \in Nat
      /\ s \in Seq(Part)
  BY <1>1, SessionNumbers
<1>3. Active(x)'
  BY <1>1 DEF Active
<1>4. /\ Len(me2.outbox) \in 0..2 /\ Cardinality(me2.inbox) \in 0..Cardinality(Op)
      /\ ToDo(me2) \in Nat /\ (me2.outbox = <<>> => Len(me2.outbox) = 0)
  <2>1. me2 \in Sessions
    BY DEF Numbered, MergeInv, SessionOK
  <2>2. Speaks(me2) /\ (me2.written > 0 => me2.written < Parts(Head(me2.outbox)))
    BY <1>3 DEF Numbered, StepsInv, InStep, MidFrame, Parts
  <2> HIDE DEF me2
  <2> QED
    BY <2>1, <2>2, Reckoned
<1>5. ToDo(me2) <= ToDo(me)
  <2> DEFINE U == Unit
             h == me.heard
             h2 == me2.heard
             k == Cardinality(me.inbox)
             k2 == Cardinality(me2.inbox)
             n2 == Len(me2.outbox)
  <2>1. CASE me2 = me
    BY <1>2, <2>1
  <2>2. CASE me2 # me
    <3>1. ToDo(me) = U * (5 * (2 - h) + 2 * 0) - 2 * 0 + k
      BY <1>2 DEF ToDo
    <3>2. ToDo(me2) = U * (5 * (2 - h2) + 2 * n2) - 2 * 0 + k2
      BY <1>1, <1>2 DEF ToDo
    <3>3. /\ U \in Nat /\ k \in Nat /\ k2 \in Nat /\ n2 \in {0, 1, 2} /\ k2 <= U
          /\ (h = 0 /\ h2 = 1) \/ (h = 1 /\ h2 = 2 /\ n2 = 0)
      <4>1. Cardinality(Op) \in Nat /\ U = 2 * Cardinality(Op) + 2
        BY UnitIs
      <4> QED
        BY <1>1, <1>2, <1>4, <2>2, <4>1
    <3> HIDE DEF U, h, h2, k, k2, n2, me, me2
    <3> QED
      BY <3>1, <3>2, <3>3
  <2> QED
    BY <2>1, <2>2
<1>6. Len(Tail(s)) + 1 = Len(s) /\ Len(s) \in Nat
  BY <1>1, <1>2
<1>7. wire'[<<x, t>>] = wire[<<x, t>>] /\ Len(wire[<<x, t>>]) \in Nat
  BY <1>1, <1>2
<1>8. ToDo(me2) + Len(Tail(s)) + Len(wire[<<x, t>>]) < ToDo(me) + Len(s) + Len(wire[<<x, t>>])
  <2> DEFINE a == ToDo(me)
             b == ToDo(me2)
             i == Len(s)
             j == Len(Tail(s))
             k == Len(wire[<<x, t>>])
  <2>1. a \in Int /\ b \in Int /\ i \in Int /\ j \in Int /\ k \in Int /\ b <= a /\ j + 1 = i
    BY <1>1, <1>2, <1>4, <1>5, <1>6, <1>7
  <2> HIDE DEF a, b, i, j, k
  <2>2. b + j + k < a + i + k
    BY <2>1
  <2> QED
    BY <2>2 DEF a, b, i, j, k
<1> QED
  BY <1>1, <1>2, <1>7, <1>8 DEF SpentBy

LEMMA IngestSpends ==
  ASSUME IsFiniteSet(Op), Numbered, NEW x \in Replica, NEW op \in Op, Ingest(x, op)
  PROVE  SpentBy(x)
<1> DEFINE me == sess[x]
           t == me.peer
           new == [me EXCEPT !.inbox = @ \ {op}]
<1>1. op \in me.inbox /\ sess' = [sess EXCEPT ![x] = new] /\ wire' = wire
  BY DEF Ingest
<1>2. Active(x)
  BY <1>1, MergeInvType DEF Numbered, TypeOK
<1>3. /\ me \in Sessions /\ t \in Replica \ {x} /\ ToDo(me) \in Nat
      /\ \A p \in Replica : Len(wire[<<p, x>>]) \in Nat /\ Len(wire[<<x, p>>]) \in Nat
  BY <1>2, SessionNumbers
<1>4. /\ new.peer = t /\ new.heard = me.heard /\ new.outbox = me.outbox /\ new.written = me.written
      /\ new.inbox = me.inbox \ {op}
  BY <1>3 DEF Sessions
<1>5. Cardinality(new.inbox) = Cardinality(me.inbox) - 1 /\ Cardinality(me.inbox) \in Nat
  <2>1. IsFiniteSet(me.inbox)
    BY <1>3, FS_Subset DEF Sessions
  <2> QED
    BY <1>1, <1>4, <2>1, FS_RemoveElement, FS_CardinalityType
<1>6. sess'[x] = new /\ \A q \in Replica \ {x} : sess'[q] = sess[q]
  <2> HIDE DEF new
  <2> QED
    BY <1>1 DEF Numbered, MergeInv
<1>7. ToDo(new) = ToDo(me) - 1
  <2> DEFINE a == Unit * (5 * (2 - me.heard) + 2 * Len(me.outbox)) - 2 * me.written
  <2>1. ToDo(me) = a + Cardinality(me.inbox)
    BY DEF ToDo
  <2>2. ToDo(new) = a + Cardinality(new.inbox)
    <3> HIDE DEF new
    <3> QED
      BY <1>4 DEF ToDo
  <2>3. a \in Int
    <3>1. Unit \in Nat /\ me.heard \in Int /\ Len(me.outbox) \in Int /\ me.written \in Int
      BY <1>2, SessionNumbers, UnitIs
    <3> HIDE DEF me
    <3>2. Unit * (5 * (2 - me.heard) + 2 * Len(me.outbox)) \in Int
      BY <3>1
    <3> QED
      BY <3>1, <3>2
  <2> HIDE DEF a, new
  <2> QED
    BY <1>5, <2>1, <2>2, <2>3
<1> QED
  <2>1. Len(wire[<<t, x>>]) \in Nat /\ Len(wire[<<x, t>>]) \in Nat
    BY <1>3
  <2> HIDE DEF new
  <2> QED
    BY <1>1, <1>2, <1>3, <1>4, <1>6, <1>7, <2>1 DEF SpentBy

(* The end of a session, its own or of the connection, leaves nobody more. *)
LEMMA EndsSpend ==
  ASSUME Numbered, NEW x \in Replica,
         Finish(x) \/ Abort(x) \/ Crash(x) \/ \E i \in Replica : Break(i, x)
  PROVE  /\ \A q \in Replica : \/ sess'[q].peer = sess[q].peer /\ ToDo(sess'[q]) = ToDo(sess[q])
                               \/ sess'[q].peer = NoPeer
         /\ \A a, b \in Replica : wire'[<<a, b>>] \in {wire[<<a, b>>], <<>>}
<1>0. NoSession.peer = NoPeer
  BY DEF NoSession, Session
<1>1. \A q \in Replica :
        /\ [sess[q] EXCEPT !.alive = FALSE].peer = sess[q].peer
        /\ ToDo([sess[q] EXCEPT !.alive = FALSE]) = ToDo(sess[q])
  <2> TAKE q \in Replica
  <2> DEFINE cut == [sess[q] EXCEPT !.alive = FALSE]
  <2>1. sess[q] \in Sessions
    BY DEF Numbered, MergeInv, SessionOK
  <2>2. /\ cut.peer = sess[q].peer /\ cut.heard = sess[q].heard /\ cut.outbox = sess[q].outbox
        /\ cut.written = sess[q].written /\ cut.inbox = sess[q].inbox
    BY <2>1 DEF Sessions
  <2> HIDE DEF cut
  <2>3. cut.peer = sess[q].peer /\ ToDo(cut) = ToDo(sess[q])
    BY <2>2 DEF ToDo
  <2> QED
    BY <2>3 DEF cut
<1>2. \A q \in Replica : sess'[q] \in {sess[q], NoSession, [sess[q] EXCEPT !.alive = FALSE]}
  BY DEF Finish, Abort, Crash, Break, Numbered, MergeInv
<1>3. \A a, b \in Replica : wire'[<<a, b>>] \in {wire[<<a, b>>], <<>>}
  BY DEF Finish, Abort, Crash, Break, FreshStreams, Numbered, MergeInv
<1> QED
  BY <1>0, <1>1, <1>2, <1>3

(* An exchange that opens has all of its work ahead.                       *)
LEMMA OpensBetween ==
  ASSUME Numbered, NEW i \in Replica, NEW x \in Replica, Connect(i, x)
  PROVE  /\ ~Active(i) /\ ~Active(x) /\ sess'[i].peer = x /\ sess'[x].peer = i
         /\ \A q \in Replica \ {i, x} : sess'[q] = sess[q]
         /\ \A a, b \in Replica : <<a, b>> \notin {<<i, x>>, <<x, i>>} =>
                wire'[<<a, b>>] = wire[<<a, b>>]
<1>1. i # x /\ ~Active(i) /\ ~Active(x) /\ OpenSessions(i, x) /\ FreshStreams(i, x)
  BY DEF Connect
<1>2. PICK ids : sess' = [sess EXCEPT ![i] = Session(x, <<Have(ids)>>), ![x] = Session(i, <<>>)]
  BY <1>1 DEF OpenSessions
<1>3. /\ sess'[i] = Session(x, <<Have(ids)>>) /\ sess'[x] = Session(i, <<>>)
      /\ \A q \in Replica \ {i, x} : sess'[q] = sess[q]
  BY <1>1, <1>2 DEF Numbered, MergeInv
<1>4. sess'[i].peer = x /\ sess'[x].peer = i
  BY <1>3 DEF Session
<1>5. \A a, b \in Replica : <<a, b>> \notin {<<i, x>>, <<x, i>>} =>
          wire'[<<a, b>>] = wire[<<a, b>>]
  BY <1>1 DEF FreshStreams
<1> QED
  BY <1>1, <1>3, <1>4, <1>5

LEMMA OpensWith ==
  ASSUME IsFiniteSet(Op), Numbered, NEW i \in Replica, NEW x \in Replica, Connect(i, x)
  PROVE  /\ ToDo(sess'[i]) = 12 * Unit /\ ToDo(sess'[x]) = 10 * Unit
         /\ wire'[<<i, x>>] = <<>> /\ wire'[<<x, i>>] = <<>>
<1>1. i # x /\ ~Active(i) /\ ~Active(x) /\ OpenSessions(i, x) /\ FreshStreams(i, x)
  BY DEF Connect
<1>2. PICK ids : sess' = [sess EXCEPT ![i] = Session(x, <<Have(ids)>>), ![x] = Session(i, <<>>)]
  BY <1>1 DEF OpenSessions
<1>3. sess'[i] = Session(x, <<Have(ids)>>) /\ sess'[x] = Session(i, <<>>)
  BY <1>1, <1>2 DEF Numbered, MergeInv
<1>4. Unit \in Nat /\ Cardinality({}) = 0
  BY UnitIs, FS_EmptySet
<1>6. Len(<<Have(ids)>>) = 1 /\ Len(<<>>) = 0
  OBVIOUS
<1>7. ToDo(Session(x, <<Have(ids)>>)) = 12 * Unit /\ ToDo(Session(i, <<>>)) = 10 * Unit
  <2>1. /\ ToDo(Session(x, <<Have(ids)>>)) = Unit * (5 * (2 - 0) + 2 * 1) - 2 * 0 + 0
        /\ ToDo(Session(i, <<>>)) = Unit * (5 * (2 - 0) + 2 * 0) - 2 * 0 + 0
    <3> DEFINE a == Session(x, <<Have(ids)>>)
               b == Session(i, <<>>)
    <3>1. /\ a.heard = 0 /\ Len(a.outbox) = 1 /\ a.written = 0 /\ Cardinality(a.inbox) = 0
          /\ b.heard = 0 /\ Len(b.outbox) = 0 /\ b.written = 0 /\ Cardinality(b.inbox) = 0
      <4>1. /\ a.heard = 0 /\ a.outbox = <<Have(ids)>> /\ a.written = 0 /\ a.inbox = {}
            /\ b.heard = 0 /\ b.outbox = <<>> /\ b.written = 0 /\ b.inbox = {}
        BY DEF Session
      <4> HIDE DEF a, b
      <4> QED
        BY <1>4, <1>6, <4>1
    <3> HIDE DEF a, b
    <3>2. /\ ToDo(a) = Unit * (5 * (2 - 0) + 2 * 1) - 2 * 0 + 0
          /\ ToDo(b) = Unit * (5 * (2 - 0) + 2 * 0) - 2 * 0 + 0
      BY <3>1 DEF ToDo
    <3> QED
      BY <3>2 DEF a, b
  <2> QED
    BY <1>4, <2>1
<1>8. wire'[<<i, x>>] = <<>> /\ wire'[<<x, i>>] = <<>>
  BY <1>1 DEF FreshStreams
<1> QED
  BY <1>3, <1>7, <1>8

(* The parts of an exchange's work are numbers.                            *)
WorkOK ==
    \A r \in Replica : Active(r) =>
        LET p == sess[r].peer
        IN  /\ p \in Replica \ {r} /\ ToDo(sess[r]) \in Nat
            /\ sess[p].peer = r => ToDo(sess[p]) \in Nat
            /\ Len(wire[<<p, r>>]) \in Nat /\ Len(wire[<<r, p>>]) \in Nat
            /\ Work(r) \in Nat

LEMMA WorkIs == IsFiniteSet(Op) /\ Numbered => WorkOK
<1> SUFFICES ASSUME IsFiniteSet(Op), Numbered, NEW r \in Replica, Active(r)
             PROVE  LET p == sess[r].peer
                    IN  /\ p \in Replica \ {r} /\ ToDo(sess[r]) \in Nat
                        /\ sess[p].peer = r => ToDo(sess[p]) \in Nat
                        /\ Len(wire[<<p, r>>]) \in Nat /\ Len(wire[<<r, p>>]) \in Nat
                        /\ Work(r) \in Nat
  BY DEF WorkOK
<1> DEFINE p == sess[r].peer
<1>1. /\ p \in Replica \ {r} /\ ToDo(sess[r]) \in Nat
      /\ Len(wire[<<p, r>>]) \in Nat /\ Len(wire[<<r, p>>]) \in Nat
  BY SessionNumbers
<1>2. sess[p].peer = r => ToDo(sess[p]) \in Nat
  BY <1>1, SessionNumbers, SyncAssumption DEF Active
<1>3. Work(r) \in Nat
  <2> HIDE DEF p
  <2>1. Work(r) = ToDo(sess[r]) + (IF sess[p].peer = r THEN ToDo(sess[p]) ELSE 0)
                    + Len(wire[<<p, r>>]) + Len(wire[<<r, p>>])
    BY DEF Work, p
  <2> DEFINE a == ToDo(sess[r])
             b == ToDo(sess[p])
             c == Len(wire[<<p, r>>])
             d == Len(wire[<<r, p>>])
             mutual == sess[p].peer = r
  <2>2. a \in Nat /\ c \in Nat /\ d \in Nat /\ (mutual => b \in Nat)
    BY <1>1, <1>2
  <2>3. Work(r) = a + (IF mutual THEN b ELSE 0) + c + d
    BY <2>1
  <2> HIDE DEF a, b, c, d, mutual
  <2> QED
    BY <2>2, <2>3
<1> QED
  BY <1>1, <1>2, <1>3

(* Work that is less on one side and no more elsewhere.                    *)
LEMMA WorkCompared ==
  ASSUME IsFiniteSet(Op), Numbered, Numbered', NEW r \in Replica, Active(r),
         sess'[r].peer = sess[r].peer
  PROVE  LET p == sess[r].peer
         IN  /\ SpentBy(r) => Work(r)' < Work(r)
             /\ sess[p].peer = r /\ SpentBy(p) => Work(r)' < Work(r)
             /\ /\ ToDo(sess'[r]) = ToDo(sess[r])
                /\ \/ sess'[p].peer = sess[p].peer /\ ToDo(sess'[p]) = ToDo(sess[p])
                   \/ sess'[p].peer # r
                /\ wire'[<<p, r>>] \in {wire[<<p, r>>], <<>>}
                /\ wire'[<<r, p>>] \in {wire[<<r, p>>], <<>>}
                => Work(r)' <= Work(r)
<1> DEFINE p == sess[r].peer
           a == ToDo(sess[r])
           b == IF sess[p].peer = r THEN ToDo(sess[p]) ELSE 0
           i == Len(wire[<<p, r>>])
           j == Len(wire[<<r, p>>])
           a2 == ToDo(sess'[r])
           b2 == IF sess'[p].peer = r THEN ToDo(sess'[p]) ELSE 0
           i2 == Len(wire'[<<p, r>>])
           j2 == Len(wire'[<<r, p>>])
<1>1. Work(r) = a + b + i + j /\ Work(r)' = a2 + b2 + i2 + j2
  BY DEF Work, ToDo, Unit
<1>2. /\ p \in Replica \ {r} /\ a \in Nat /\ b \in Nat /\ i \in Nat /\ j \in Nat
  BY WorkIs DEF WorkOK
<1>3. a2 \in Nat /\ b2 \in Nat /\ i2 \in Nat /\ j2 \in Nat
  <2>1. (IsFiniteSet(Op) /\ Numbered => WorkOK)'
    BY WorkIs, PTL
  <2> QED
    BY <2>1 DEF WorkOK, Active, ToDo, Unit, IsFiniteSet
<1>4. ASSUME SpentBy(r) PROVE Work(r)' < Work(r)
  <2>1. a2 + i2 + j2 < a + i + j /\ b2 = b
    BY <1>2, <1>4 DEF SpentBy
  <2> HIDE DEF a, b, i, j, a2, b2, i2, j2
  <2> QED
    BY <1>1, <1>2, <1>3, <2>1
<1>5. ASSUME sess[p].peer = r, SpentBy(p) PROVE Work(r)' < Work(r)
  <2>1. b2 + j2 + i2 < b + j + i /\ a2 = a
    BY <1>2, <1>5 DEF SpentBy
  <2> HIDE DEF a, b, i, j, a2, b2, i2, j2
  <2> QED
    BY <1>1, <1>2, <1>3, <2>1
<1>6. ASSUME ToDo(sess'[r]) = ToDo(sess[r]),
             \/ sess'[p].peer = sess[p].peer /\ ToDo(sess'[p]) = ToDo(sess[p])
             \/ sess'[p].peer # r,
             wire'[<<p, r>>] \in {wire[<<p, r>>], <<>>},
             wire'[<<r, p>>] \in {wire[<<r, p>>], <<>>}
      PROVE  Work(r)' <= Work(r)
  <2>0. Len(<<>>) = 0
    OBVIOUS
  <2>1. a2 = a /\ b2 \in {b, 0} /\ i2 \in {i, 0} /\ j2 \in {j, 0}
    BY <1>6, <2>0
  <2> HIDE DEF a, b, i, j, a2, b2, i2, j2
  <2> QED
    BY <1>1, <1>2, <1>3, <2>1
<1> QED
  BY <1>4, <1>5, <1>6

LEMMA StepSpends ==
  ASSUME IsFiniteSet(Op), Numbered, Numbered', NEW r \in Replica, Active(r), Active(r)', Step(r)
  PROVE  Work(r)' < Work(r)
<1>0. NoSession.peer = NoPeer
  BY DEF NoSession, Session
<1>1. ~Finish(r)
  BY <1>0 DEF Finish, Active, Numbered, MergeInv
<1>2. ~Abort(r)
  BY <1>0 DEF Abort, Active, Numbered, MergeInv
<1>3. SpentBy(r)
  BY <1>1, <1>2, WriteSpends, ReceiveSpends, IngestSpends DEF Step
<1> QED
  BY <1>3, WorkCompared DEF SpentBy

LEMMA WorkNeverGrows ==
  ASSUME IsFiniteSet(Op), Numbered, Numbered', NEW r \in Replica, Active(r), Active(r)', [Next]_vars
  PROVE  Work(r)' <= Work(r)
<1> DEFINE p == sess[r].peer
           Rest == /\ ToDo(sess'[r]) = ToDo(sess[r])
                   /\ \/ sess'[p].peer = sess[p].peer /\ ToDo(sess'[p]) = ToDo(sess[p])
                      \/ sess'[p].peer # r
                   /\ wire'[<<p, r>>] \in {wire[<<p, r>>], <<>>}
                   /\ wire'[<<r, p>>] \in {wire[<<r, p>>], <<>>}
<1>0. p \in Replica \ {r} /\ Work(r) \in Nat /\ Work(r)' \in Nat
  <2>1. (IsFiniteSet(Op) /\ Numbered => WorkOK)'
    BY WorkIs, PTL
  <2> QED
    BY <2>1, WorkIs DEF WorkOK, IsFiniteSet
<1>1. ASSUME sess'[r].peer = p, Rest PROVE Work(r)' <= Work(r)
  BY <1>1, WorkCompared
<1>2. ASSUME NEW x \in Replica, SpentBy(x) PROVE Work(r)' <= Work(r)
  <2>1. CASE x = r
    <3>1. sess'[r].peer = p
      BY <1>2, <2>1 DEF SpentBy
    <3>2. Work(r)' < Work(r)
      BY <1>2, <2>1, <3>1, WorkCompared
    <3> QED
      BY <1>0, <3>2
  <2>2. CASE x = p /\ sess[p].peer = r
    <3>1. sess'[r].peer = p
      BY <1>0, <1>2, <2>2 DEF SpentBy
    <3>2. Work(r)' < Work(r)
      BY <1>2, <2>2, <3>1, WorkCompared
    <3> QED
      BY <1>0, <3>2
  <2>3. CASE x # r /\ ~(x = p /\ sess[p].peer = r)
    <3>1. sess'[r] = sess[r] /\ (sess'[p] = sess[p] \/ sess'[p].peer # r)
      BY <1>0, <1>2, <2>3 DEF SpentBy
    <3>2. wire'[<<p, r>>] = wire[<<p, r>>] /\ wire'[<<r, p>>] = wire[<<r, p>>]
      BY <1>0, <1>2, <2>3 DEF SpentBy
    <3> QED
      BY <1>1, <3>1, <3>2
  <2> QED
    BY <2>1, <2>2, <2>3
<1>3. ASSUME NEW x \in Replica, Write(x) \/ Receive(x) \/ \E op \in Op : Ingest(x, op)
      PROVE  Work(r)' <= Work(r)
  BY <1>2, <1>3, WriteSpends, ReceiveSpends, IngestSpends
<1>4. ASSUME NEW x \in Replica,
             Finish(x) \/ Abort(x) \/ Crash(x) \/ \E i \in Replica : Break(i, x)
      PROVE  Work(r)' <= Work(r)
  <2>1. /\ \A q \in Replica : \/ sess'[q].peer = sess[q].peer /\ ToDo(sess'[q]) = ToDo(sess[q])
                              \/ sess'[q].peer = NoPeer
        /\ \A a, b \in Replica : wire'[<<a, b>>] \in {wire[<<a, b>>], <<>>}
    BY <1>4, EndsSpend
  <2>2. sess'[r].peer = p /\ ToDo(sess'[r]) = ToDo(sess[r])
    BY <2>1 DEF Active
  <2> QED
    BY <1>0, <1>1, <2>1, <2>2, SyncAssumption
<1>5. ASSUME NEW i \in Replica, NEW x \in Replica, Connect(i, x)
      PROVE  Work(r)' <= Work(r)
  <2>1. /\ ~Active(i) /\ ~Active(x) /\ sess'[i].peer = x /\ sess'[x].peer = i
        /\ \A q \in Replica \ {i, x} : sess'[q] = sess[q]
        /\ \A a, b \in Replica : <<a, b>> \notin {<<i, x>>, <<x, i>>} =>
               wire'[<<a, b>>] = wire[<<a, b>>]
    BY <1>5, OpensBetween, Zenon
  <2>2. r # i /\ r # x
    BY <2>1
  <2>3. sess'[r] = sess[r] /\ (sess'[p] = sess[p] \/ sess'[p].peer # r)
    BY <1>0, <2>1, <2>2
  <2>4. wire'[<<p, r>>] = wire[<<p, r>>] /\ wire'[<<r, p>>] = wire[<<r, p>>]
    BY <1>0, <2>1, <2>2
  <2> QED
    BY <1>1, <2>3, <2>4
<1>6. ASSUME sess' = sess, wire' = wire PROVE Work(r)' <= Work(r)
  BY <1>1, <1>6
<1>7. CASE Next
  <2>1. CASE \E x \in Replica : Step(x) \/ Crash(x)
    BY <1>3, <1>4, <2>1 DEF Step
  <2>2. CASE \E x \in Replica, op \in Op : Issue(x, op)
    BY <1>6, <2>2 DEF Issue
  <2>3. CASE \E i, x \in Replica : Connect(i, x) \/ Break(i, x)
    BY <1>4, <1>5, <2>3
  <2> QED
    BY <1>7, <2>1, <2>2, <2>3 DEF Next
<1> QED
  BY <1>6, <1>7 DEF vars

LEMMA WorkStarts ==
  ASSUME IsFiniteSet(Op), Numbered, Numbered', NEW r \in Replica, ~Active(r), Active(r)', [Next]_vars
  PROVE  Work(r)' = 22 * Unit
<1>1. PICK i \in Replica, x \in Replica : Connect(i, x) /\ r \in {i, x}
  <2>1. ASSUME NEW x \in Replica, SpentBy(x) PROVE FALSE
    BY <2>1 DEF SpentBy, Active
  <2>2. ASSUME NEW x \in Replica,
               Finish(x) \/ Abort(x) \/ Crash(x) \/ \E i \in Replica : Break(i, x)
        PROVE  FALSE
    BY <2>2, EndsSpend DEF Active
  <2>3. sess' # sess
    BY DEF Active
  <2>4. ~\E x \in Replica, op \in Op : Issue(x, op)
    BY <2>3 DEF Issue
  <2>5. ~\E x \in Replica : Step(x) \/ Crash(x)
    BY <2>1, <2>2, WriteSpends, ReceiveSpends, IngestSpends DEF Step
  <2>6. PICK i \in Replica, x \in Replica : Connect(i, x)
    BY <2>2, <2>3, <2>4, <2>5 DEF Next, vars
  <2>7. \A q \in Replica \ {i, x} : sess'[q] = sess[q]
    BY <2>6, OpensBetween
  <2> QED
    BY <2>6, <2>7 DEF Active
<1>2. /\ i # x /\ sess'[i].peer = x /\ sess'[x].peer = i
      /\ ToDo(sess'[i]) = 12 * Unit /\ ToDo(sess'[x]) = 10 * Unit
      /\ wire'[<<i, x>>] = <<>> /\ wire'[<<x, i>>] = <<>>
  <2>1. i # x
    BY <1>1 DEF Connect
  <2>2. sess'[i].peer = x /\ sess'[x].peer = i
    BY <1>1, OpensBetween, Zenon
  <2>3. /\ ToDo(sess'[i]) = 12 * Unit /\ ToDo(sess'[x]) = 10 * Unit
        /\ wire'[<<i, x>>] = <<>> /\ wire'[<<x, i>>] = <<>>
    BY <1>1, OpensWith
  <2> QED
    BY <2>1, <2>2, <2>3
<1>3. ASSUME NEW p \in Replica, sess'[r].peer = p, sess'[p].peer = r,
             wire'[<<p, r>>] = <<>>, wire'[<<r, p>>] = <<>>
      PROVE  Work(r)' = ToDo(sess'[r]) + ToDo(sess'[p]) + 0 + 0
  <2>1. Len(<<>>) = 0
    OBVIOUS
  <2> QED
    BY <1>3, <2>1 DEF Work, ToDo, Unit
<1>4. Unit \in Nat
  BY UnitIs
<1>5. CASE r = i
  <2>1. Work(r)' = 12 * Unit + 10 * Unit + 0 + 0
    BY <1>2, <1>3, <1>5
  <2> QED
    BY <1>4, <2>1
<1>6. CASE r = x
  <2>1. Work(r)' = 10 * Unit + 12 * Unit + 0 + 0
    BY <1>2, <1>3, <1>6
  <2> QED
    BY <1>4, <2>1
<1> QED
  BY <1>1, <1>5, <1>6

WorkBound == \A r \in Replica : Active(r) => Work(r) \in 0..(22 * Unit)

LEMMA WorkStaysBound ==
  ASSUME IsFiniteSet(Op)
  PROVE  Numbered /\ Numbered' /\ WorkBound /\ [Next]_vars => WorkBound'
<1> SUFFICES ASSUME Numbered, Numbered', WorkBound, [Next]_vars, NEW r \in Replica, Active(r)'
             PROVE  Work(r)' \in 0..(22 * Unit)
  BY DEF WorkBound, Unit
<1>1. Work(r)' \in Nat
  <2>1. (IsFiniteSet(Op) /\ Numbered => WorkOK)'
    BY WorkIs, PTL
  <2> QED
    BY <2>1 DEF WorkOK, IsFiniteSet
<1>2. Unit \in Nat
  BY UnitIs
<1>3. CASE Active(r)
  <2>1. Work(r)' <= Work(r) /\ Work(r) \in 0..(22 * Unit)
    BY <1>3, WorkNeverGrows DEF WorkBound
  <2> QED
    BY <1>1, <1>2, <2>1
<1>4. CASE ~Active(r)
  BY <1>2, <1>4, WorkStarts
<1> QED
  BY <1>3, <1>4

(* No exchange goes on forever, whatever breaks, crashes and fails: a step *)
(* of a side that does not end it uses up some of the work left, of which  *)
(* there was 22 * Unit at first and to which nothing adds.                 *)
THEOREM NoEndlessExchange == ASSUME IsFiniteSet(Op) PROVE Spec => EveryStepCounts
<1>1. Init => WorkBound
  BY DEF Init, WorkBound, Active, NoSession, Session
<1>2. Numbered /\ Numbered' /\ WorkBound' /\ [Next]_vars =>
          [\A r \in Replica : Active(r)' =>
              /\ Work(r)' \in 0..(22 * Unit)
              /\ Active(r) => Work(r)' <= Work(r)
              /\ Active(r) /\ Step(r) => Work(r)' < Work(r)]_vars
  <2> SUFFICES ASSUME Numbered, Numbered', WorkBound', [Next]_vars, NEW r \in Replica, Active(r)'
               PROVE  /\ Work(r)' \in 0..(22 * Unit)
                      /\ Active(r) => Work(r)' <= Work(r)
                      /\ Active(r) /\ Step(r) => Work(r)' < Work(r)
    OBVIOUS
  <2> QED
    BY WorkNeverGrows, StepSpends DEF WorkBound, Unit
<1> QED
  BY <1>1, <1>2, JamInvHolds, WorkStaysBound, PTL DEF Spec, EveryStepCounts, Numbered
=============================================================================
