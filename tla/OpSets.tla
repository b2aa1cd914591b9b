------------------------------- MODULE OpSets -------------------------------
(***************************************************************************)
(* What synchronization promises: replicas whose op-sets only grow, by ops *)
(* of their own and by ops some other replica holds (message.rs:           *)
(* "reconciliation is a set-union").                                       *)
(***************************************************************************)
CONSTANTS Replica, Op

VARIABLE store

Init == store = [r \in Replica |-> {}]

Grow(r, op) == store' = [store EXCEPT ![r] = @ \cup {op}]

(* A command at r issues an op nobody has: ids are content hashes over the *)
(* author and its clock reading.                                           *)
Issue(r, op) ==
    /\ \A s \in Replica : op \notin store[s]
    /\ Grow(r, op)

Copy(r, s, op) ==
    /\ op \in store[s]
    /\ Grow(r, op)

Next == \E r \in Replica, op \in Op : Issue(r, op) \/ \E s \in Replica : Copy(r, s, op)

Spec == Init /\ [][Next]_store
=============================================================================
