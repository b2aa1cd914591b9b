----------------------------- MODULE Repository -----------------------------
(***************************************************************************)
(* The durable op-log and the read model over it                           *)
(* (splittr-store: repository.rs over an OpStore such as redb_store.rs).   *)
(* append() verifies, commits, folds and invalidates in four steps; a      *)
(* crash may come between any two of them, a commit may fail, and the log  *)
(* is replayed when the repository is opened again.  append takes the      *)
(* repository by &mut, so no read is served while one is under way.        *)
(***************************************************************************)
EXTENDS Projection, Pool

CONSTANT Forged            \* the ops of the pool that fail Op::verify

ASSUME RepositoryAssumption == Forged \subseteq OpPool

VARIABLES
    stored,            \* the store's table: what is durable
    step,              \* "closed", "idle", or where append stands
    current,           \* the op append works on, as a set of at most one
    ops,               \* materializer.ops, in memory
    cached,            \* the memoized projection, as a set of at most one
    acked,             \* ghost: the ops some append answered Stored for
    served             \* ghost: the latest projection handed out, with its op-set

vars == <<stored, step, current, ops, cached, acked, served>>

Init ==
    /\ stored = {}
    /\ step = "closed"
    /\ current = {}
    /\ ops = {}
    /\ cached = {}
    /\ acked = {}
    /\ served = [of |-> {}, model |-> Project({})]

-----------------------------------------------------------------------------
(* Repository::open: replay the log.                                       *)
Open ==
    /\ step = "closed"
    /\ step' = "idle"
    /\ ops' = stored
    /\ cached' = {}
    /\ UNCHANGED <<stored, current, acked, served>>

\* (mutated form: the materializer sees the op before the log has it)
FoldFirst(op) ==
    /\ step = "idle"
    /\ op \notin Forged
    /\ step' = "persist"
    /\ current' = {op}
    /\ ops' = ops \cup {op}
    /\ UNCHANGED <<stored, cached, acked, served>>

\* (mutated form: nothing is verified)
Trust(op) ==
    /\ step = "idle"
    /\ step' = "persist"
    /\ current' = {op}
    /\ UNCHANGED <<stored, ops, cached, acked, served>>

(* Repository::append.  A forged op is answered Rejected.                  *)
Verify(op) ==
    /\ step = "idle"
    /\ op \notin Forged
    /\ step' = "persist"
    /\ current' = {op}
    /\ UNCHANGED <<stored, ops, cached, acked, served>>

Reject(op) ==
    /\ step = "idle"
    /\ op \in Forged
    /\ UNCHANGED vars

Return == step' = "idle" /\ current' = {}

(* The store's append commits: an op already there is answered Duplicate.  *)
Commit ==
    /\ step = "persist"
    /\ stored' = stored \cup current
    /\ IF current \subseteq stored
       THEN Return
       ELSE step' = "fold" /\ UNCHANGED current
    /\ UNCHANGED <<ops, cached, acked, served>>

(* A commit that reports an error may be durable all the same.             *)
CommitFails ==
    /\ step = "persist"
    /\ stored' \in {stored, stored \cup current}
    /\ Return
    /\ UNCHANGED <<ops, cached, acked, served>>

Fold ==
    /\ step = "fold"
    /\ ops' = ops \cup current
    /\ step' = "invalidate"
    /\ UNCHANGED <<stored, current, cached, acked, served>>

\* (mutated form: the memoized projection outlives the append)
KeepCache ==
    /\ step = "invalidate"
    /\ acked' = acked \cup current
    /\ Return
    /\ UNCHANGED <<stored, ops, cached, served>>

(* The cache is dropped and the caller answered Stored.                    *)
Invalidate ==
    /\ step = "invalidate"
    /\ cached' = {}
    /\ acked' = acked \cup current
    /\ Return
    /\ UNCHANGED <<stored, ops, served>>

(* Repository::projection, which folds when nothing is memoized.           *)
Read ==
    /\ step = "idle"
    /\ served' \in IF cached = {} THEN {[of |-> ops, model |-> Project(ops)]} ELSE cached
    /\ cached' = {served'}
    /\ UNCHANGED <<stored, step, current, ops, acked>>

(* The process dies: memory is lost, the table stays.                      *)
Crash ==
    /\ step # "closed"
    /\ step' = "closed"
    /\ current' = {}
    /\ ops' = {}
    /\ cached' = {}
    /\ UNCHANGED <<stored, acked, served>>

Next ==
    \/ Open
    \/ \E op \in OpPool : Verify(op) \/ Reject(op)
    \/ Commit
    \/ CommitFails
    \/ Fold
    \/ Invalidate
    \/ Read
    \/ Crash

Spec == Init /\ [][Next]_vars

-----------------------------------------------------------------------------
TypeOK ==
    /\ stored \subseteq OpPool \ Forged
    /\ step \in {"closed", "idle", "persist", "fold", "invalidate"}
    /\ current \in {{}} \cup {{op} : op \in OpPool \ Forged}
    /\ step \in {"closed", "idle"} <=> current = {}
    /\ ops \subseteq stored
    /\ acked \subseteq stored

(* What a reader was shown survives every crash, and so does every op      *)
(* append answered Stored for: both are durable before they are seen, and  *)
(* while the repository is open its materializer has them.                 *)
NothingUnseen ==
    /\ served.of \cup acked \subseteq stored
    /\ step # "closed" => served.of \cup acked \subseteq ops

(* Every read reflects every op acknowledged before it, also the first     *)
(* read after a crash and those that follow a failed commit: what is       *)
(* memoized between appends is the fold of all the materializer retains.   *)
ReadYourWrites ==
    step = "idle" =>
        /\ acked \subseteq ops
        /\ \A c \in cached : c = [of |-> ops, model |-> Project(ops)]

(* The ops the readers of the repository are shown, or will be when it is  *)
(* opened again.                                                           *)
Loaded == IF step = "closed" THEN stored ELSE ops

(* The repository is a ledger across crashes, failed commits and reopening:*)
(* every projection it serves is that of all it has loaded, and what it    *)
(* has loaded only grows.                                                  *)
L == INSTANCE Ledger WITH held <- Loaded, view <- served

ImplementsLedger == L!ReplaySpec
=============================================================================
