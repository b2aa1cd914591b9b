------------------------------- MODULE Ledger -------------------------------
(***************************************************************************)
(* What a ledger promises its readers: ops arrive in any order and any     *)
(* number of times, and each read model is the projection of the ops held  *)
(* when it was taken (splittr-crdt lib.rs: state is "a pure function of    *)
(* the op set").  Project is a parameter: the promise does not depend on   *)
(* what a projection contains.                                             *)
(***************************************************************************)
CONSTANTS OpPool, Project(_)

VARIABLES
    held,              \* the op-set: an op is kept once
    view               \* the latest read model, with the op-set it shows

Init ==
    /\ held = {}
    /\ view = [of |-> {}, model |-> Project({})]

Deliver(op) ==
    /\ held' = held \cup {op}
    /\ UNCHANGED view

Refresh ==
    /\ view' = [of |-> held, model |-> Project(held)]
    /\ UNCHANGED held

Next ==
    \/ \E op \in OpPool : Deliver(op)
    \/ Refresh

Spec == Init /\ [][Next]_<<held, view>>

(* Ops may also arrive several at once, as when a log is replayed.         *)
Replay(ops) ==
    /\ held' = held \cup ops
    /\ UNCHANGED view

ReplayNext == Next \/ \E ops \in SUBSET OpPool : Replay(ops)

ReplaySpec == Init /\ [][ReplayNext]_<<held, view>>
=============================================================================
