------------------------------- MODULE Clock -------------------------------
(***************************************************************************)
(* The hybrid logical clocks that stamp ops (splittr-app/src/clock.rs), as *)
(* App::commit_signed uses them: one generator per process, kept in memory *)
(* only, reading a system clock that belongs to the device.                *)
(***************************************************************************)
EXTENDS Integers, Sequences

CONSTANTS
    Sites,          \* the devices
    MaxWall,        \* bound: the system clocks stop here
    MaxOps,         \* bound: ops stamped in all, readings within a millisecond
    SetBack,        \* the devices whose system clock may be set back
    Restarted       \* the devices whose process may be restarted

ASSUME ClockAssumption == MaxWall \in Nat /\ MaxOps \in Nat

VARIABLES
    wall,           \* per device, the system clock in milliseconds
    last,           \* per device, HlcGenerator.last without its site
    stamped,        \* the ops stamped so far, in the order it happened
    log             \* per device, the ops in its store (indices of stamped)

clockVars == <<wall, last, stamped, log>>

Hlc(w, c) == [wall_ms |-> w, counter |-> c]

Less(a, b) == a.wall_ms < b.wall_ms \/ (a.wall_ms = b.wall_ms /\ a.counter < b.counter)

(* HlcGenerator::new: nothing of the log is consulted.                     *)
NewGenerator == Hlc(0, 0)

ClockInit ==
    /\ wall \in [Sites -> 0..MaxWall]
    /\ last = [s \in Sites |-> NewGenerator]
    /\ stamped = <<>>
    /\ log = [s \in Sites |-> {}]

\* (mutated form: the counter starts over within a millisecond)
Recount(hlc, now) == IF now >= hlc.wall_ms THEN Hlc(now, 0) ELSE Hlc(hlc.wall_ms, hlc.counter + 1)

\* (mutated form: the system clock is followed when it is set back)
Follow(hlc, now) == IF now # hlc.wall_ms THEN Hlc(now, 0) ELSE Hlc(now, hlc.counter + 1)

(* HlcGenerator::next                                                      *)
Advance(hlc, now) ==
    IF now > hlc.wall_ms THEN Hlc(now, 0) ELSE Hlc(hlc.wall_ms, hlc.counter + 1)

(* An op is stamped and appended to the device's own log.                  *)
Commit(s) ==
    LET hlc == Advance(last[s], wall[s])
    IN  /\ Len(stamped) < MaxOps /\ hlc.counter <= MaxOps
        /\ last' = [last EXCEPT ![s] = hlc]
        /\ stamped' = Append(stamped, [site |-> s, hlc |-> hlc, after |-> log[s]])
        /\ log' = [log EXCEPT ![s] = @ \cup {Len(stamped) + 1}]
        /\ UNCHANGED wall

(* A reading is taken for an op that is not appended: its commit fails, or *)
(* the root key it needs is locked.                                        *)
Waste(s) ==
    LET hlc == Advance(last[s], wall[s])
    IN  /\ hlc.counter <= MaxOps
        /\ last' = [last EXCEPT ![s] = hlc]
        /\ UNCHANGED <<wall, stamped, log>>

(* An op of another device arrives; the generator does not hear of it.     *)
Receive(s, i) ==
    /\ i \notin log[s]
    /\ log' = [log EXCEPT ![s] = @ \cup {i}]
    /\ UNCHANGED <<wall, last, stamped>>

(* The process starts again, at the earliest a millisecond later.          *)
Restart(s) ==
    /\ s \in Restarted
    /\ wall[s] < MaxWall
    /\ wall' = [wall EXCEPT ![s] = @ + 1]
    /\ last' = [last EXCEPT ![s] = NewGenerator]
    /\ UNCHANGED <<stamped, log>>

Tick(s) ==
    /\ \E w \in 0..MaxWall :
          /\ w > wall[s] \/ (s \in SetBack /\ w < wall[s])
          /\ wall' = [wall EXCEPT ![s] = w]
    /\ UNCHANGED <<last, stamped, log>>

ClockNext ==
    \E s \in Sites :
        \/ Commit(s)
        \/ Waste(s)
        \/ \E i \in 1..Len(stamped) : Receive(s, i)
        \/ Restart(s)
        \/ Tick(s)

ClockSpec == ClockInit /\ [][ClockNext]_clockVars

-----------------------------------------------------------------------------
(* The readings of a device's clock increase, so that of two ops of one    *)
(* device on the same register the later one wins (lww, materialize.rs).   *)
OwnOpsInOrder ==
    \A i, j \in 1..Len(stamped) :
        i < j /\ stamped[i].site = stamped[j].site => Less(stamped[i].hlc, stamped[j].hlc)

(* ADR-0001: "HLCs give a causality-respecting deterministic order": an op *)
(* issued on top of another one is ordered after it.                       *)
RespectsCausality ==
    \A j \in 1..Len(stamped) : \A i \in stamped[j].after :
        ~Less(stamped[j].hlc, stamped[i].hlc)
=============================================================================
