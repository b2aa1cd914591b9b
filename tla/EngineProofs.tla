---------------------------- MODULE EngineProofs ----------------------------
(***************************************************************************)
(* First the clocks: a device's readings increase for every number of      *)
(* devices and however far clocks and counters run, unless its clock may   *)
(* be set back and its process restarted as well.  ClockInv is what that   *)
(* rests on: everything a device stamped is at or before the generator's   *)
(* last reading or, after a restart, before the system clock.              *)
(*                                                                         *)
(* Then the engine, which uses its clock as Clock describes it: whatever   *)
(* the commands, however commits fail and whenever processes end, a step   *)
(* of the engine is a step of the clocks or leaves them alone, so that     *)
(* what is proved of them holds of the ops the engine issues.              *)
(*                                                                         *)
(* Last the ledgers the engine makes.  Issues says which ops the guards of *)
(* the commands let through, whatever the command, and New what such an op *)
(* adds; AppInv is what every step keeps: each device shows the projection *)
(* of what it holds, only certified devices run, each op is signed by the  *)
(* device or by its owner's root key, no id is issued twice, and what a    *)
(* command has still to do concerns the profile or a group of one's own.   *)
(* What such ledgers consist of makes each device's a ledger of Accounts,  *)
(* with the properties proved of those.                                    *)
(***************************************************************************)
EXTENDS Engine, LedgerTheorems, SequenceTheorems

Hlcs == [wall_ms : Nat, counter : Nat]

Stamps == [site : Sites, hlc : Hlcs, after : SUBSET Nat]

ClockTypeOK ==
    /\ wall \in [Sites -> Nat]
    /\ last \in [Sites -> Hlcs]
    /\ stamped \in Seq(Stamps)
    /\ log \in [Sites -> SUBSET Nat]

(* A clock that is not set back has passed all its readings.               *)
ClockIsAhead ==
    /\ \A s \in Sites \ SetBack : last[s].wall_ms <= wall[s]
    /\ \A i \in 1..Len(stamped) :
          stamped[i].site \notin SetBack => stamped[i].hlc.wall_ms <= wall[stamped[i].site]

NotAfter(a, b) == a = b \/ Less(a, b)

(* What the generator has forgotten the system clock has passed.           *)
Bounded(hlc, s) ==
    \/ NotAfter(hlc, last[s])
    \/ s \notin SetBack /\ last[s] = NewGenerator /\ hlc.wall_ms < wall[s]

ReadingsBounded == \A i \in 1..Len(stamped) : Bounded(stamped[i].hlc, stamped[i].site)

ClockInv == ClockTypeOK /\ ClockIsAhead /\ ReadingsBounded /\ OwnOpsInOrder

-----------------------------------------------------------------------------
(* Less is a strict order, and a reading is after all the generator gave.  *)
LEMMA LessIsTransitive ==
    ASSUME NEW a \in Hlcs, NEW b \in Hlcs, NEW c \in Hlcs, NotAfter(a, b), Less(b, c)
    PROVE  Less(a, c)
BY DEF Hlcs, NotAfter, Less

LEMMA AdvanceIsLater ==
    ASSUME NEW hlc \in Hlcs, NEW now \in Nat
    PROVE  Advance(hlc, now) \in Hlcs /\ Less(hlc, Advance(hlc, now))
BY DEF Hlcs, Advance, Hlc, Less

(* A process just started reads the system clock.                          *)
LEMMA NewGeneratorReadsClock ==
    ASSUME NEW now \in Nat, NEW a \in Hlcs, a.wall_ms < now
    PROVE  Less(a, Advance(NewGenerator, now))
BY DEF Hlcs, Advance, NewGenerator, Hlc, Less

(* What is stamped is a stamp.                                             *)
LEMMA StampedAreStamps ==
    ASSUME ClockTypeOK
    PROVE  \A i \in 1..Len(stamped) :
               /\ stamped[i].site \in Sites
               /\ stamped[i].hlc \in Hlcs
               /\ stamped[i].hlc.wall_ms \in Nat
<1> SUFFICES ASSUME NEW i \in 1..Len(stamped)
             PROVE  /\ stamped[i].site \in Sites
                    /\ stamped[i].hlc \in Hlcs
                    /\ stamped[i].hlc.wall_ms \in Nat
  OBVIOUS
<1>1. stamped[i] \in Stamps
  BY DEF ClockTypeOK
<1>2. stamped[i].site \in Sites /\ stamped[i].hlc \in Hlcs
  BY <1>1 DEF Stamps
<1> QED
  BY <1>2 DEF Hlcs

LEMMA InitHolds == ClockInit => ClockInv
<1> SUFFICES ASSUME ClockInit PROVE ClockInv
  OBVIOUS
<1>1. ClockTypeOK
  BY ClockAssumption DEF ClockInit, ClockTypeOK, NewGenerator, Hlc, Hlcs, Stamps
<1>2. ClockIsAhead
  BY ClockAssumption DEF ClockInit, ClockIsAhead, NewGenerator, Hlc
<1>3. ReadingsBounded /\ OwnOpsInOrder
  BY DEF ClockInit, ReadingsBounded, OwnOpsInOrder
<1> QED
  BY <1>1, <1>2, <1>3 DEF ClockInv

(* The reading a commit stamps is after all others of its device.          *)
LEMMA CommitStaysInductive ==
    ASSUME ClockInv, SetBack \cap Restarted = {}, NEW s \in Sites, Commit(s)
    PROVE  ClockInv'
<1> DEFINE hlc == Advance(last[s], wall[s])
           new == [site |-> s, hlc |-> hlc, after |-> log[s]]
           n   == Len(stamped)
<1> USE DEF ClockInv
<1>1. /\ last[s] \in Hlcs /\ wall[s] \in Nat
      /\ n \in Nat
  BY DEF ClockTypeOK
<1>2. hlc \in Hlcs /\ Less(last[s], hlc)
  BY <1>1, AdvanceIsLater
<1>3. \A i \in 1..n : stamped[i].hlc \in Hlcs /\ stamped[i].site \in Sites
  BY StampedAreStamps
<1>4. ASSUME NEW i \in 1..n, stamped[i].site = s
      PROVE  Less(stamped[i].hlc, hlc)
  <2>1. CASE NotAfter(stamped[i].hlc, last[s])
    BY <1>1, <1>2, <1>3, <2>1, LessIsTransitive
  <2>2. CASE last[s] = NewGenerator /\ stamped[i].hlc.wall_ms < wall[s]
    BY <1>1, <1>3, <2>2, NewGeneratorReadsClock
  <2> QED
    BY <1>4, <2>1, <2>2 DEF ReadingsBounded, Bounded
<1>5. new \in Stamps
  BY <1>2 DEF ClockTypeOK, Stamps
<1>6. /\ last' = [last EXCEPT ![s] = hlc]
      /\ stamped' = Append(stamped, new)
      /\ log' = [log EXCEPT ![s] = @ \cup {n + 1}]
      /\ wall' = wall
  BY DEF Commit
<1>7. /\ Len(stamped') = n + 1
      /\ stamped'[n + 1] = new
      /\ \A i \in 1..n : stamped'[i] = stamped[i]
  BY <1>1, <1>6 DEF ClockTypeOK
<1>8. new.site = s /\ new.hlc = hlc
  OBVIOUS
<1> HIDE DEF hlc, new
<1>9. /\ last'[s] = hlc
      /\ \A t \in Sites \ {s} : last'[t] = last[t]
  BY <1>6 DEF ClockTypeOK
<1>10. ClockTypeOK'
  BY <1>1, <1>2, <1>5, <1>6 DEF ClockTypeOK
<1>11. ClockIsAhead'
  <2>1. s \notin SetBack => hlc.wall_ms <= wall[s]
    BY <1>1 DEF ClockIsAhead, hlc, Advance, Hlc
  <2> QED
    BY <1>1, <1>3, <1>6, <1>7, <1>8, <1>9, <2>1 DEF ClockIsAhead
<1>12. ReadingsBounded'
  <2> SUFFICES ASSUME NEW i \in 1..Len(stamped')
               PROVE  Bounded(stamped[i].hlc, stamped[i].site)'
    BY DEF ReadingsBounded
  <2>1. CASE i = n + 1
    BY <1>7, <1>8, <1>9, <2>1 DEF Bounded, NotAfter
  <2>2. CASE i \in 1..n /\ stamped[i].site = s
    BY <1>4, <1>7, <1>9, <2>2 DEF Bounded, NotAfter
  <2>3. CASE i \in 1..n /\ stamped[i].site # s
    BY <1>3, <1>6, <1>7, <1>9, <2>3 DEF Bounded, NotAfter, ReadingsBounded
  <2> QED
    BY <1>1, <1>7, <2>1, <2>2, <2>3
<1>13. OwnOpsInOrder'
  BY <1>1, <1>4, <1>7, <1>8 DEF OwnOpsInOrder
<1> QED
  BY <1>10, <1>11, <1>12, <1>13

(* A reading that is not used takes the generator further.                 *)
LEMMA WasteStaysInductive ==
    ASSUME ClockInv, SetBack \cap Restarted = {}, NEW s \in Sites, Waste(s)
    PROVE  ClockInv'
<1> DEFINE hlc == Advance(last[s], wall[s])
<1> USE DEF ClockInv
<1>1. last[s] \in Hlcs /\ wall[s] \in Nat
  BY DEF ClockTypeOK
<1>2. hlc \in Hlcs /\ Less(last[s], hlc)
  BY <1>1, AdvanceIsLater
<1>3. /\ last' = [last EXCEPT ![s] = hlc]
      /\ wall' = wall /\ stamped' = stamped /\ log' = log
  BY DEF Waste
<1>4. s \notin SetBack => hlc.wall_ms <= wall[s]
  BY <1>1 DEF ClockIsAhead, Advance, Hlc
<1> HIDE DEF hlc
<1>5. /\ last'[s] = hlc
      /\ \A t \in Sites \ {s} : last'[t] = last[t]
  BY <1>3 DEF ClockTypeOK
<1>6. ClockTypeOK'
  BY <1>2, <1>3 DEF ClockTypeOK
<1>7. ClockIsAhead'
  BY <1>3, <1>4, <1>5 DEF ClockIsAhead
<1>8. ReadingsBounded'
  <2> SUFFICES ASSUME NEW i \in 1..Len(stamped)
               PROVE  Bounded(stamped[i].hlc, stamped[i].site)'
    BY <1>3 DEF ReadingsBounded
  <2>1. stamped[i].hlc \in Hlcs /\ stamped[i].site \in Sites
    BY StampedAreStamps
  <2>2. Bounded(stamped[i].hlc, stamped[i].site)
    BY DEF ReadingsBounded
  <2>3. CASE stamped[i].site # s
    BY <1>3, <1>5, <2>1, <2>2, <2>3 DEF Bounded, NotAfter
  <2>4. CASE stamped[i].site = s /\ NotAfter(stamped[i].hlc, last[s])
    BY <1>1, <1>2, <1>3, <1>5, <2>1, <2>4, LessIsTransitive DEF Bounded, NotAfter
  <2>5. CASE /\ stamped[i].site = s /\ last[s] = NewGenerator
             /\ stamped[i].hlc.wall_ms < wall[s]
    BY <1>1, <1>3, <1>5, <2>1, <2>5, NewGeneratorReadsClock DEF Bounded, NotAfter, hlc
  <2> QED
    BY <2>2, <2>3, <2>4, <2>5 DEF Bounded
<1>9. OwnOpsInOrder'
  BY <1>3 DEF OwnOpsInOrder
<1> QED
  BY <1>6, <1>7, <1>8, <1>9

(* A restart forgets the last reading, which the clock has passed.         *)
LEMMA RestartStaysInductive ==
    ASSUME ClockInv, SetBack \cap Restarted = {}, NEW s \in Sites, Restart(s)
    PROVE  ClockInv'
<1> USE DEF ClockInv
<1>1. s \notin SetBack
  BY DEF Restart
<1>2. /\ last'[s] = NewGenerator /\ wall'[s] = wall[s] + 1
      /\ \A t \in Sites \ {s} : last'[t] = last[t] /\ wall'[t] = wall[t]
      /\ stamped' = stamped
  BY DEF Restart, ClockTypeOK
<1>3. ClockTypeOK'
  BY DEF Restart, ClockTypeOK, NewGenerator, Hlc, Hlcs
<1>4. \A i \in 1..Len(stamped) :
          stamped[i].site \in Sites /\ stamped[i].hlc.wall_ms \in Nat
  BY StampedAreStamps
<1>5. ClockIsAhead'
  <2>1. \A t \in Sites : wall[t] \in Nat /\ last[t].wall_ms \in Nat
    BY DEF ClockTypeOK, Hlcs
  <2>2. \A t \in Sites \ SetBack : last'[t].wall_ms <= wall'[t]
    BY <1>1, <1>2, <2>1 DEF ClockIsAhead, NewGenerator, Hlc
  <2>3. \A i \in 1..Len(stamped') :
            stamped'[i].site \notin SetBack =>
                stamped'[i].hlc.wall_ms <= wall'[stamped'[i].site]
    BY <1>1, <1>2, <1>4, <2>1 DEF ClockIsAhead
  <2> QED
    BY <2>2, <2>3 DEF ClockIsAhead
<1>6. ReadingsBounded'
  <2> SUFFICES ASSUME NEW i \in 1..Len(stamped)
               PROVE  Bounded(stamped[i].hlc, stamped[i].site)'
    BY <1>2 DEF ReadingsBounded
  <2>1. CASE stamped[i].site = s
    <3>1. stamped[i].hlc.wall_ms <= wall[s]
      BY <1>1, <2>1 DEF ClockIsAhead
    <3>2. wall[s] \in Nat
      BY DEF ClockTypeOK
    <3> QED
      BY <1>1, <1>2, <1>4, <2>1, <3>1, <3>2 DEF Bounded
  <2>2. CASE stamped[i].site # s
    BY <1>2, <1>4, <2>2 DEF Bounded, NotAfter, ReadingsBounded
  <2> QED
    BY <2>1, <2>2
<1>7. OwnOpsInOrder'
  BY <1>2 DEF OwnOpsInOrder
<1> QED
  BY <1>3, <1>5, <1>6, <1>7

(* The system clock moves under the generator.                             *)
LEMMA TickStaysInductive ==
    ASSUME ClockInv, SetBack \cap Restarted = {}, NEW s \in Sites, Tick(s)
    PROVE  ClockInv'
<1> USE DEF ClockInv
<1>1. PICK w \in 0..MaxWall :
         /\ w > wall[s] \/ (s \in SetBack /\ w < wall[s])
         /\ wall' = [wall EXCEPT ![s] = w]
  BY DEF Tick
<1>2. last' = last /\ stamped' = stamped /\ log' = log
  BY DEF Tick
<1>3. /\ w \in Nat /\ wall'[s] = w
      /\ \A t \in Sites \ {s} : wall'[t] = wall[t]
      /\ \A t \in Sites : wall[t] \in Nat /\ last[t].wall_ms \in Nat
  BY <1>1, ClockAssumption DEF ClockTypeOK, Hlcs
<1>4. \A i \in 1..Len(stamped) :
          stamped[i].site \in Sites /\ stamped[i].hlc.wall_ms \in Nat
  BY StampedAreStamps
<1>5. ClockTypeOK'
  BY <1>1, <1>2, <1>3 DEF ClockTypeOK
<1>6. ClockIsAhead'
  BY <1>1, <1>2, <1>3, <1>4 DEF ClockIsAhead
<1>7. ReadingsBounded'
  <2> SUFFICES ASSUME NEW i \in 1..Len(stamped)
               PROVE  Bounded(stamped[i].hlc, stamped[i].site)'
    BY <1>2 DEF ReadingsBounded
  <2>1. Bounded(stamped[i].hlc, stamped[i].site)
    BY DEF ReadingsBounded
  <2>2. stamped[i].site \notin SetBack => wall[stamped[i].site] <= wall'[stamped[i].site]
    BY <1>1, <1>3, <1>4
  <2> QED
    BY <1>2, <1>3, <1>4, <2>1, <2>2 DEF Bounded, NotAfter
<1>8. OwnOpsInOrder'
  BY <1>2 DEF OwnOpsInOrder
<1> QED
  BY <1>5, <1>6, <1>7, <1>8

LEMMA NextStaysInductive ==
    ASSUME ClockInv, SetBack \cap Restarted = {}, [ClockNext]_clockVars
    PROVE  ClockInv'
<1>1. ASSUME NEW s \in Sites, Commit(s) PROVE ClockInv'
  BY <1>1, CommitStaysInductive
<1>2. ASSUME NEW s \in Sites, NEW i \in 1..Len(stamped), Receive(s, i) PROVE ClockInv'
  <2>1. wall' = wall /\ last' = last /\ stamped' = stamped
    BY <1>2 DEF Receive
  <2>2. ClockTypeOK'
    BY <1>2 DEF ClockInv, ClockTypeOK, Receive
  <2>3. (ClockIsAhead /\ ReadingsBounded /\ OwnOpsInOrder)'
    BY <2>1 DEF ClockInv, ClockIsAhead, ReadingsBounded, Bounded, NotAfter, OwnOpsInOrder
  <2> QED
    BY <2>2, <2>3 DEF ClockInv
<1>3. ASSUME NEW s \in Sites, Restart(s) PROVE ClockInv'
  BY <1>3, RestartStaysInductive
<1>4. ASSUME NEW s \in Sites, Tick(s) PROVE ClockInv'
  BY <1>4, TickStaysInductive
<1>5. ASSUME NEW s \in Sites, Waste(s) PROVE ClockInv'
  BY <1>5, WasteStaysInductive
<1>6. CASE UNCHANGED clockVars
  BY <1>6 DEF clockVars, ClockInv, ClockTypeOK, ClockIsAhead, ReadingsBounded, Bounded,
              NotAfter, OwnOpsInOrder
<1> QED
  BY <1>1, <1>2, <1>3, <1>4, <1>5, <1>6 DEF ClockNext

-----------------------------------------------------------------------------
(* HlcGenerator::next gives increasing readings, hence distinct ones, even *)
(* when the system clock is set back, and across restarts when it is not.  *)
THEOREM ReadingsIncrease ==
    ASSUME SetBack \cap Restarted = {}
    PROVE  ClockSpec => []OwnOpsInOrder
<1>1. ClockInv /\ [ClockNext]_clockVars => ClockInv'
  BY NextStaysInductive
<1>2. ClockInv => OwnOpsInOrder
  BY DEF ClockInv
<1> QED
  BY InitHolds, <1>1, <1>2, PTL DEF ClockSpec

-----------------------------------------------------------------------------
LEMMA EngineInitIsClockInit == Init => ClockInit
BY DEF Init

(* Every command takes at most one reading and issues at most one op.      *)
LEMMA IssueCommits ==
    ASSUME NEW d, NEW author, NEW content, Issue(d, author, content)
    PROVE  Commit(d)
BY DEF Issue

LEMMA CommandCommits ==
    ASSUME NEW d, NEW contents, Command(d, contents)
    PROVE  Commit(d)
BY IssueCommits DEF Command

LEMMA AsRootCommits ==
    ASSUME NEW d, NEW content, AsRoot(d, content)
    PROVE  Commit(d)
BY IssueCommits DEF AsRoot

LEMMA UserCommits ==
    ASSUME NEW d \in Sites,
           \/ ProfileCommands(d) \/ FriendCommands(d) \/ GroupCommands(d)
           \/ ExpenseCommands(d) \/ SettlementCommands(d) \/ DeviceCommands(d)
    PROVE  Commit(d)
<1>1. CASE ProfileCommands(d)
  BY <1>1, CommandCommits
     DEF ProfileCommands, SetMyName, AddPerson, ClaimPerson, MergePeople, AddAlias
<1>2. CASE FriendCommands(d)
  BY <1>2, CommandCommits DEF FriendCommands, AddFriend, AcceptInvite
<1>3. CASE GroupCommands(d)
  BY <1>3, CommandCommits
     DEF GroupCommands, CreateGroup, RenameGroup, ChangeCurrency, AddMember, RemoveMember,
         SetClosedPeriod
<1>4. CASE ExpenseCommands(d)
  BY <1>4, CommandCommits
     DEF ExpenseCommands, AddExpense, EditExpense, DeleteExpense, PublishExpense,
         LockExpense, UnlockExpense, SetExpenseLock
<1>5. CASE SettlementCommands(d)
  BY <1>5, CommandCommits DEF SettlementCommands, RecordSettlement, DeleteSettlement
<1>6. CASE DeviceCommands(d)
  BY <1>6, AsRootCommits DEF DeviceCommands, AuthorizeDevice, RevokeDevice
<1> QED
  BY <1>1, <1>2, <1>3, <1>4, <1>5, <1>6

-----------------------------------------------------------------------------
(* The ops issued are the ones stamped, which is an invariant of its own.  *)
Shape ==
    /\ \E S : issued \in Seq(S)
    /\ \E S : stamped \in Seq(S)
    /\ DOMAIN log = Sites /\ DOMAIN open = Sites /\ DOMAIN root = Sites /\ DOMAIN todo = Sites

EngineInv == TypeOK /\ Shape

(* What the ops issued and the clocks have to do with each other.          *)
InStep ==
    /\ \E S : issued \in Seq(S)
    /\ \E S : stamped \in Seq(S)
    /\ DOMAIN log = Sites
    /\ Len(issued) = Len(stamped)
    /\ \A d \in Sites : log[d] \subseteq DOMAIN issued

LEMMA AppendGrows ==
    ASSUME NEW S, NEW s \in Seq(S), NEW e
    PROVE  /\ Append(s, e) \in Seq(S \cup {e})
           /\ Len(Append(s, e)) = Len(s) + 1
           /\ DOMAIN Append(s, e) = 1..(Len(s) + 1)
<1>1. s \in Seq(S \cup {e})
  OBVIOUS
<1> QED
  BY <1>1

LEMMA IssueInStep ==
    ASSUME InStep, NEW d \in Sites, NEW author, NEW content, Issue(d, author, content)
    PROVE  InStep'
<1>1. PICK op : issued' = Append(issued, op)
  BY DEF Issue
<1>2. PICK hlc : stamped' = Append(stamped, hlc)
  BY DEF Issue, Commit
<1>3. log' = [log EXCEPT ![d] = @ \cup {Len(stamped) + 1}]
  BY DEF Issue, Commit
<1>4. PICK S : issued \in Seq(S)
  BY DEF InStep
<1>5. PICK T : stamped \in Seq(T)
  BY DEF InStep
<1>6. /\ issued' \in Seq(S \cup {op}) /\ Len(issued') = Len(issued) + 1
      /\ DOMAIN issued' = 1..(Len(issued) + 1)
  BY <1>1, <1>4, AppendGrows
<1>7. stamped' \in Seq(T \cup {hlc}) /\ Len(stamped') = Len(stamped) + 1
  BY <1>2, <1>5, AppendGrows
<1>8. \A x \in Sites : log'[x] \subseteq DOMAIN issued'
  <2>1. Len(issued) \in Nat /\ DOMAIN issued = 1..Len(issued) /\ Len(issued) = Len(stamped)
    BY <1>4 DEF InStep
  <2> QED
    BY <1>3, <1>6, <2>1 DEF InStep
<1> QED
  BY <1>3, <1>6, <1>7, <1>8 DEF InStep

LEMMA EngineInitInv == Init => EngineInv
BY DEF Init, ClockInit, EngineInv, TypeOK, Shape

(* The commands leave the Apps and the root keys alone.                    *)
LEMMA CommandKeeps ==
    ASSUME EngineInv, NEW d \in Sites, NEW contents, Command(d, contents)
    PROVE  EngineInv'
<1>1. InStep'
  BY IssueInStep DEF Command, EngineInv, TypeOK, Shape, InStep
<1> QED
  BY <1>1 DEF Command, EngineInv, TypeOK, Shape, InStep

LEMMA AsRootKeeps ==
    ASSUME EngineInv, NEW d \in Sites, NEW content, AsRoot(d, content)
    PROVE  EngineInv'
<1>1. InStep'
  BY IssueInStep DEF AsRoot, EngineInv, TypeOK, Shape, InStep
<1> QED
  BY <1>1 DEF AsRoot, EngineInv, TypeOK, Shape, InStep

LEMMA UserKeeps ==
    ASSUME EngineInv, NEW d \in Sites,
           \/ ProfileCommands(d) \/ FriendCommands(d) \/ GroupCommands(d)
           \/ ExpenseCommands(d) \/ SettlementCommands(d) \/ DeviceCommands(d)
    PROVE  EngineInv'
<1>1. CASE ProfileCommands(d)
  BY <1>1, CommandKeeps
     DEF ProfileCommands, SetMyName, AddPerson, ClaimPerson, MergePeople, AddAlias
<1>2. CASE FriendCommands(d)
  BY <1>2, CommandKeeps DEF FriendCommands, AddFriend, AcceptInvite
<1>3. CASE GroupCommands(d)
  BY <1>3, CommandKeeps
     DEF GroupCommands, CreateGroup, RenameGroup, ChangeCurrency, AddMember, RemoveMember,
         SetClosedPeriod
<1>4. CASE ExpenseCommands(d)
  BY <1>4, CommandKeeps
     DEF ExpenseCommands, AddExpense, EditExpense, DeleteExpense, PublishExpense,
         LockExpense, UnlockExpense, SetExpenseLock
<1>5. CASE SettlementCommands(d)
  BY <1>5, CommandKeeps DEF SettlementCommands, RecordSettlement, DeleteSettlement
<1>6. CASE DeviceCommands(d)
  BY <1>6, AsRootKeeps DEF DeviceCommands, AuthorizeDevice, RevokeDevice
<1> QED
  BY <1>1, <1>2, <1>3, <1>4, <1>5, <1>6

LEMMA LifecycleKeeps ==
    ASSUME EngineInv, NEW d \in Sites, Lifecycle(d)
    PROVE  EngineInv'
<1>0. InStep
  BY DEF EngineInv, TypeOK, Shape, InStep
<1>1. ASSUME NEW unlocked \in BOOLEAN, OpenApp(d, unlocked) PROVE EngineInv'
  <2>1. InStep'
    <3>1. CASE Enrolled(d, view[d])
      BY <1>0, <1>1, <3>1 DEF OpenApp, EnsureDeviceAuthorized, clockVars, InStep
    <3>2. CASE ~Enrolled(d, view[d])
      BY <1>0, <1>1, <3>2, IssueInStep DEF OpenApp, EnsureDeviceAuthorized
    <3> QED
      BY <3>1, <3>2
  <2> QED
    BY <1>1, <2>1 DEF OpenApp, EngineInv, TypeOK, Shape, InStep
<1>2. ASSUME NEW seed \in Range(Owner), UnlockRoot(d, seed) PROVE EngineInv'
  BY <1>2 DEF UnlockRoot, clockVars, EngineInv, TypeOK, Shape
<1>3. CASE LockRoot(d)
  BY <1>3 DEF LockRoot, clockVars, EngineInv, TypeOK, Shape
<1>4. CASE CrashApp(d)
  BY <1>4 DEF CrashApp, Restart, EngineInv, TypeOK, Shape
<1> QED
  BY <1>1, <1>2, <1>3, <1>4 DEF Lifecycle

LEMMA EngineStepInv == EngineInv /\ [Next]_vars => EngineInv'
<1> SUFFICES ASSUME EngineInv, Next PROVE EngineInv'
  BY DEF vars, clockVars, appVars, EngineInv, TypeOK, Shape
<1>1. PICK d \in Sites :
        \/ Lifecycle(d)
        \/ ProfileCommands(d) \/ FriendCommands(d) \/ GroupCommands(d)
        \/ ExpenseCommands(d) \/ SettlementCommands(d) \/ DeviceCommands(d)
        \/ Continue(d) \/ Fail(d)
        \/ \E i \in 1..Len(issued) : Ingest(d, i)
        \/ TimePasses(d)
  BY DEF Next
<1>2. CASE Continue(d)
  <2>1. CASE UNCHANGED <<clockVars, issued, view>>
    BY <1>2, <2>1 DEF Continue, clockVars, EngineInv, TypeOK, Shape
  <2>2. ASSUME NEW author, NEW content, Issue(d, author, content)
        PROVE  EngineInv'
    <3>1. InStep'
      BY <2>2, IssueInStep DEF EngineInv, TypeOK, Shape, InStep
    <3> QED
      BY <1>2, <3>1 DEF Continue, EngineInv, TypeOK, Shape, InStep
  <2> QED
    BY <1>2, <2>1, <2>2 DEF Continue
<1>3. CASE Fail(d)
  BY <1>3 DEF Fail, Waste, EngineInv, TypeOK, Shape
<1>4. ASSUME NEW i \in 1..Len(issued), Ingest(d, i)
      PROVE  EngineInv'
  BY <1>4 DEF Ingest, Receive, EngineInv, TypeOK, Shape
<1>5. CASE TimePasses(d)
  BY <1>5 DEF TimePasses, Tick, appVars, EngineInv, TypeOK, Shape
<1> QED
  BY <1>1, <1>2, <1>3, <1>4, <1>5, LifecycleKeeps, UserKeeps

(* Only a running App is in the middle of a command or has the root key.   *)
THEOREM EngineIsTyped == Spec => []TypeOK
<1>1. EngineInv => TypeOK
  BY DEF EngineInv
<1> QED
  BY <1>1, EngineInitInv, EngineStepInv, PTL DEF Spec

-----------------------------------------------------------------------------
(* A step of the engine is a step of the clocks or none.                   *)
LEMMA EngineStepIsClockStep == EngineInv /\ [Next]_vars => [ClockNext]_clockVars
<1> SUFFICES ASSUME EngineInv, Next PROVE ClockNext \/ UNCHANGED clockVars
  BY DEF vars
<1>1. PICK d \in Sites :
        \/ Lifecycle(d)
        \/ ProfileCommands(d) \/ FriendCommands(d) \/ GroupCommands(d)
        \/ ExpenseCommands(d) \/ SettlementCommands(d) \/ DeviceCommands(d)
        \/ Continue(d) \/ Fail(d)
        \/ \E i \in 1..Len(issued) : Ingest(d, i)
        \/ TimePasses(d)
  BY DEF Next
<1>2. CASE Lifecycle(d)
  BY <1>2, IssueCommits
     DEF Lifecycle, OpenApp, EnsureDeviceAuthorized, UnlockRoot, LockRoot, CrashApp, ClockNext
<1>3. CASE \/ ProfileCommands(d) \/ FriendCommands(d) \/ GroupCommands(d)
           \/ ExpenseCommands(d) \/ SettlementCommands(d) \/ DeviceCommands(d)
  BY <1>3, UserCommits DEF ClockNext
<1>4. CASE Continue(d)
  BY <1>4, IssueCommits DEF Continue, ClockNext
<1>5. CASE Fail(d)
  BY <1>5 DEF Fail, ClockNext
<1>6. ASSUME NEW i \in 1..Len(issued), Ingest(d, i)
      PROVE  ClockNext
  BY <1>6 DEF Ingest, EngineInv, TypeOK, ClockNext
<1>7. CASE TimePasses(d)
  BY <1>7 DEF TimePasses, ClockNext
<1> QED
  BY <1>1, <1>2, <1>3, <1>4, <1>5, <1>6, <1>7

(* The engine implements the specification of the clocks.                  *)
THEOREM EngineKeepsClock == Spec => ClockSpec
BY EngineInitIsClockInit, EngineInitInv, EngineStepInv, EngineStepIsClockStep,
   PTL DEF Spec, ClockSpec

(* Of two ops a device issues the later one has the later reading, unless  *)
(* its clock may be set back and its process restarted as well.            *)
THEOREM IssuedInOrder ==
    ASSUME SetBack \cap Restarted = {}
    PROVE  Spec => []OwnOpsInOrder
BY EngineKeepsClock, ReadingsIncrease, PTL

-----------------------------------------------------------------------------
(* What a device issues, as the guards of its commands have it.  Shaped    *)
(* names the fields of a kind.                                             *)

OfGroup == {"CreateGroup", "SetGroupName", "SetGroupCurrency", "SetClosedPeriod",
            "SetMembership", "CreateExpense", "RecordSettlement"}

OnExpenses == {"CreateExpense", "EditExpense", "VoidExpense", "PublishExpense", "SetExpenseLock"}

ByRootOnly == {"AuthorizeDevice", "RevokeDevice"}

Shaped(c) ==
    /\ "kind" \in DOMAIN c
    /\ c.kind = "AddAlias" => {"alias", "canonical"} \subseteq DOMAIN c
    /\ c.kind \in {"UpsertProfile", "SetAgreementKey", "SetMembership"} => "user" \in DOMAIN c
    /\ c.kind \in OfGroup => "group" \in DOMAIN c
    /\ c.kind = "SetMembership" => "member" \in DOMAIN c
    /\ c.kind = "SetClosedPeriod" => "until_ms" \in DOMAIN c
    /\ c.kind \in OnExpenses => "expense" \in DOMAIN c
    /\ c.kind \in ByRootOnly => {"identity", "device"} \subseteq DOMAIN c
    /\ c.kind = "AuthorizeDevice" => "site" \in DOMAIN c
    /\ c.kind \in {"CreateExpense", "EditExpense"} => "fields" \in DOMAIN c
    /\ c.kind = "RecordSettlement" => "amount" \in DOMAIN c

UserIds == {"id", "user"} \X Nat

(* A group the device created, and from which it knows of no removal.      *)
Mine(d, g) ==
    /\ \E i \in log[d] :
          stamped[i].site = d /\ issued[i].kind = "CreateGroup" /\ issued[i].group = g
    /\ \A op \in Held(d) : op.kind = "SetMembership" /\ op.group = g => op.member

ByDevice(d, c) ==
    /\ c.kind \notin ByRootOnly
    /\ c.kind = "AddAlias" => {c.alias, c.canonical} \subseteq UserIds
    /\ c.kind = "SetAgreementKey" => c.user = Me(d)
    /\ c.kind = "CreateGroup" => c.group = Fresh("group")
    /\ c.kind = "SetMembership" => RequireMember(d, c.group) \/ (Mine(d, c.group) /\ c.member)
    /\ c.kind \in {"SetGroupName", "SetGroupCurrency", "SetClosedPeriod"} =>
          RequireMember(d, c.group)
    /\ c.kind = "SetClosedPeriod" => c.until_ms \in Nat
    /\ c.kind \in {"CreateExpense", "RecordSettlement"} =>
          c.group = NoGroup \/ RequireMember(d, c.group)
    /\ c.kind = "CreateExpense" => c.expense = Fresh("expense")
    /\ c.kind \in {"EditExpense", "VoidExpense"} => RequireEditable(d, c.expense)
    /\ c.kind = "SetExpenseLock" =>
          /\ c.expense \in DOMAIN view[d].expenses
          /\ \/ view[d].expenses[c.expense].group = NoGroup
             \/ RequireMember(d, view[d].expenses[c.expense].group)
    /\ c.kind \in {"CreateExpense", "EditExpense"} => c.fields \in Forms
    /\ c.kind = "RecordSettlement" => c.amount \in Int

ByRoot(d, c) ==
    /\ c.kind \in ByRootOnly
    /\ c.identity = Owner[d]
    /\ c.kind = "AuthorizeDevice" => c.site \in Nat

Lawful(d, author, c) ==
    /\ Shaped(c)
    /\ \/ author = d /\ ByDevice(d, c)
       \/ author = Owner[d] /\ ByRoot(d, c)

(* What may be left to do: the key of the profile, or the members and the  *)
(* currency of a group.                                                    *)
KeyTodo(d) == {[kind |-> "SetAgreementKey", user |-> Me(d), key |-> Owner[d]]}

GroupTodo(g) ==
    {SetMembership(g, user, TRUE) : user \in UserIds}
    \cup {SetGroupCurrency(g, currency) : currency \in Currencies}

TodoOK(d) ==
    \/ todo[d] = <<>>
    \/ todo[d] \in Seq(KeyTodo(d))
    \/ \E g : Mine(d, g) /\ todo[d] \in Seq(GroupTodo(g))

-----------------------------------------------------------------------------
(* An op has the fields of its content.                                    *)
LEMMA OpHasFields ==
    ASSUME NEW id, NEW hlc, NEW author, NEW c, NEW op, op = OpOf(id, hlc, author, c)
    PROVE  /\ op.id = id /\ op.hlc = hlc /\ op.author = author
           /\ \A f \in DOMAIN c \ {"id", "hlc", "author"} : op[f] = c[f]
BY DEF OpOf

LEMMA ShapedFields ==
    ASSUME NEW id, NEW hlc, NEW author, NEW c, Shaped(c), NEW op, op = OpOf(id, hlc, author, c)
    PROVE  /\ op.kind = c.kind
           /\ c.kind = "AddAlias" => op.alias = c.alias /\ op.canonical = c.canonical
           /\ c.kind \in {"UpsertProfile", "SetAgreementKey", "SetMembership"} => op.user = c.user
           /\ c.kind \in OfGroup => op.group = c.group
           /\ c.kind = "SetMembership" => op.member = c.member
           /\ c.kind = "SetClosedPeriod" => op.until_ms = c.until_ms
           /\ c.kind \in OnExpenses => op.expense = c.expense
           /\ c.kind \in ByRootOnly => op.identity = c.identity /\ op.device = c.device
           /\ c.kind = "AuthorizeDevice" => op.site = c.site
           /\ c.kind \in {"CreateExpense", "EditExpense"} => op.fields = c.fields
           /\ c.kind = "RecordSettlement" => op.amount = c.amount
<1>1. \A f \in DOMAIN c \ {"id", "hlc", "author"} : op[f] = c[f]
  BY OpHasFields
<1> QED
  BY <1>1 DEF Shaped

LEMMA OpIsLawful ==
    ASSUME NEW d, NEW c, ByDevice(d, c), Shaped(c),
           NEW id, NEW hlc, NEW author, NEW op, op = OpOf(id, hlc, author, c)
    PROVE  ByDevice(d, op)
<1>1. /\ op.kind = c.kind
      /\ c.kind = "AddAlias" => op.alias = c.alias /\ op.canonical = c.canonical
      /\ c.kind \in {"UpsertProfile", "SetAgreementKey", "SetMembership"} => op.user = c.user
      /\ c.kind \in OfGroup => op.group = c.group
      /\ c.kind = "SetMembership" => op.member = c.member
      /\ c.kind = "SetClosedPeriod" => op.until_ms = c.until_ms
      /\ c.kind \in OnExpenses => op.expense = c.expense
      /\ c.kind \in {"CreateExpense", "EditExpense"} => op.fields = c.fields
      /\ c.kind = "RecordSettlement" => op.amount = c.amount
  BY ShapedFields
<1> QED
  BY <1>1 DEF ByDevice, OfGroup, OnExpenses

LEMMA CertIsLawful ==
    ASSUME NEW d, NEW c, ByRoot(d, c), Shaped(c),
           NEW id, NEW hlc, NEW author, NEW op, op = OpOf(id, hlc, author, c)
    PROVE  ByRoot(d, op)
BY ShapedFields DEF ByRoot, ByRootOnly

-----------------------------------------------------------------------------
(* What the command still does after the op c.                             *)
Left(d, c, rest) ==
    \/ rest = <<>>
    \/ rest \in Seq(KeyTodo(d))
    \/ c.kind = "CreateGroup" /\ rest \in Seq(GroupTodo(c.group))
    \/ /\ c.kind \in {"SetMembership", "SetGroupCurrency"}
       /\ c.kind = "SetMembership" => c.member
       /\ Mine(d, c.group) /\ rest \in Seq(GroupTodo(c.group))

(* A step that issues an op: who may, which, and what is left to do.       *)
Issues(d, author, c, rest) ==
    /\ Lawful(d, author, c)
    /\ Issue(d, author, c)
    /\ c.kind \notin ByRootOnly => open[d]
    /\ Left(d, c, rest)
    /\ todo'[d] = rest
    /\ \A x \in Sites \ {d} : todo'[x] = todo[x]
    /\ past' = past
    /\ \A x \in Sites : open'[x] => open[x] \/ (x = d /\ c = Certificate(d))

(* The first of a command's ops, and the others.                           *)
LEMMA FirstAndOthers ==
    ASSUME NEW R, NEW a \in R, NEW s \in Seq(R)
    PROVE  Head(<<a>> \o s) = a /\ Tail(<<a>> \o s) = s
<1> DEFINE t == <<a>> \o s
<1>1. /\ t \in Seq(R) /\ Len(t) = Len(s) + 1 /\ t[1] = a
      /\ \A i \in 1..Len(s) : t[i + 1] = s[i]
  BY DEF t
<1> HIDE DEF t
<1>2. Head(t) = a
  BY <1>1
<1>3. Tail(t) \in Seq(R) /\ Len(Tail(t)) = Len(s) /\ \A i \in 1..Len(s) : Tail(t)[i] = s[i]
  BY <1>1
<1>4. Tail(t) = s
  BY <1>3
<1> QED
  BY <1>2, <1>4 DEF t

(* One op of a command.                                                    *)
LEMMA CommandIssues ==
    ASSUME Shape, NEW d \in Sites, NEW contents, Command(d, contents),
           Shaped(Head(contents)), ByDevice(d, Head(contents)),
           Left(d, Head(contents), Tail(contents))
    PROVE  Issues(d, d, Head(contents), Tail(contents))
<1>1. /\ todo' = [todo EXCEPT ![d] = Tail(contents)] /\ DOMAIN todo = Sites
      /\ past' = past /\ open' = open /\ open[d] /\ Issue(d, d, Head(contents))
  BY DEF Command, Shape
<1>2. Lawful(d, d, Head(contents))
  BY DEF Lawful
<1> QED
  BY <1>1, <1>2 DEF Issues

LEMMA SingleIssues ==
    ASSUME Shape, NEW d \in Sites, NEW c, Command(d, <<c>>), Shaped(c), ByDevice(d, c)
    PROVE  Issues(d, d, c, <<>>)
<1>1. Head(<<c>>) = c /\ Tail(<<c>>) = <<>>
  OBVIOUS
<1>2. Left(d, c, <<>>)
  BY DEF Left
<1> QED
  BY <1>1, <1>2, CommandIssues

LEMMA RootIssues ==
    ASSUME Shape, NEW d \in Sites, NEW c, AsRoot(d, c), Shaped(c), ByRoot(d, c)
    PROVE  \E author : Issues(d, author, c, <<>>)
<1>1. /\ todo' = todo /\ todo[d] = <<>> /\ past' = past /\ open' = open /\ open[d]
      /\ Issue(d, Owner[d], c)
  BY DEF AsRoot
<1>2. Lawful(d, Owner[d], c) /\ Left(d, c, <<>>)
  BY DEF Lawful, Left
<1>3. Issues(d, Owner[d], c, <<>>)
  BY <1>1, <1>2 DEF Issues
<1> QED
  BY <1>3

(* The people there are.                                                   *)
LEMMA PeopleAreUsers ==
    /\ \A d \in Sites : Owner[d] \in Nat /\ Me(d) \in UserIds
    /\ People \subseteq UserIds
    /\ Guests \subseteq UserIds
    /\ MemberLists \subseteq Seq(UserIds)
BY EngineAssumption DEF Me, UserIdFor, People, UserIds

LEMMA ProfileIssues ==
    ASSUME Shape, NEW d \in Sites, ProfileCommands(d)
    PROVE  \E author, c, rest : Issues(d, author, c, rest)
<1>1. ASSUME NEW name, SetMyName(d, name) PROVE \E c, rest : Issues(d, d, c, rest)
  <2> DEFINE c == [kind |-> "UpsertProfile", user |-> Me(d), name |-> name]
             k == [kind |-> "SetAgreementKey", user |-> Me(d), key |-> Owner[d]]
             cs == <<c>> \o IF root[d] THEN <<k>> ELSE <<>>
  <2>1. Shaped(c) /\ ByDevice(d, c)
    BY DEF Shaped, ByDevice, ByRootOnly, OfGroup, OnExpenses
  <2>2. Command(d, cs)
    BY <1>1 DEF SetMyName
  <2>3. Head(cs) = c /\ Tail(cs) \in Seq(KeyTodo(d))
    <3> DEFINE rest == IF root[d] THEN <<k>> ELSE <<>>
    <3>1. rest \in Seq(KeyTodo(d)) /\ rest \in Seq(KeyTodo(d) \cup {c})
      <4>1. k \in KeyTodo(d)
        BY DEF KeyTodo
      <4> HIDE DEF c, k
      <4>2. <<k>> \in Seq(KeyTodo(d)) /\ <<k>> \in Seq(KeyTodo(d) \cup {c})
        BY <4>1
      <4>3. rest = <<k>> \/ rest = <<>>
        OBVIOUS
      <4>4. \A R : <<>> \in Seq(R)
        OBVIOUS
      <4> HIDE DEF rest
      <4> QED
        BY <4>2, <4>3, <4>4
    <3> HIDE DEF c, rest
    <3>2. Head(<<c>> \o rest) = c /\ Tail(<<c>> \o rest) = rest
      BY <3>1, FirstAndOthers
    <3> QED
      BY <3>1, <3>2 DEF rest
  <2> HIDE DEF c, cs
  <2>4. Left(d, Head(cs), Tail(cs))
    BY <2>3 DEF Left
  <2>5. Issues(d, d, Head(cs), Tail(cs))
    BY <2>1, <2>2, <2>3, <2>4, CommandIssues
  <2> QED
    BY <2>5
<1>2. ASSUME NEW name, AddPerson(d, name) PROVE \E c, rest : Issues(d, d, c, rest)
  <2> DEFINE c == [kind |-> "UpsertProfile", user |-> Fresh("user"), name |-> name]
  <2>1. Shaped(c) /\ ByDevice(d, c) /\ Command(d, <<c>>)
    BY <1>2 DEF Shaped, ByDevice, ByRootOnly, OfGroup, OnExpenses, AddPerson
  <2> HIDE DEF c
  <2> QED
    BY <2>1, SingleIssues
<1>3. ASSUME NEW user \in UserIds, NEW keep \in UserIds, AddAlias(d, user, keep)
      PROVE  \E c, rest : Issues(d, d, c, rest)
  <2> DEFINE c == [kind |-> "AddAlias", alias |-> user, canonical |-> keep]
  <2>1. Shaped(c) /\ ByDevice(d, c) /\ Command(d, <<c>>)
    BY <1>3 DEF Shaped, ByDevice, ByRootOnly, OfGroup, OnExpenses, AddAlias
  <2> HIDE DEF c
  <2> QED
    BY <2>1, SingleIssues
<1>4. ASSUME NEW user \in Guests, ClaimPerson(d, user) PROVE \E c, rest : Issues(d, d, c, rest)
  BY <1>3, <1>4, PeopleAreUsers DEF ClaimPerson
<1>5. ASSUME NEW user \in People, NEW keep \in People, MergePeople(d, user, keep)
      PROVE  \E c, rest : Issues(d, d, c, rest)
  BY <1>3, <1>5, PeopleAreUsers DEF MergePeople
<1> QED
  BY <1>1, <1>2, <1>4, <1>5 DEF ProfileCommands

LEMMA FriendIssues ==
    ASSUME Shape, NEW d \in Sites, FriendCommands(d)
    PROVE  \E author, c, rest : Issues(d, author, c, rest)
<1>1. PICK other : AddFriend(d, other)
  BY DEF FriendCommands, AcceptInvite
<1> DEFINE c == [kind |-> "DeclareFriend", other |-> other]
<1>2. Shaped(c) /\ ByDevice(d, c) /\ Command(d, <<c>>)
  BY <1>1 DEF Shaped, ByDevice, ByRootOnly, OfGroup, OnExpenses, AddFriend
<1> HIDE DEF c
<1> QED
  BY <1>2, SingleIssues

LEMMA GroupOpsFollow ==
    ASSUME NEW R, NEW a, NEW b \in R, NEW s \in Seq(R), NEW t \in Seq(R)
    PROVE  LET all == <<a, b>> \o s \o t IN Head(all) = a /\ Tail(all) \in Seq(R)
<1> DEFINE P == R \cup {a}
           all == <<a, b>> \o s \o t
<1>1. s \in Seq(P) /\ t \in Seq(P) /\ <<a, b>> \in Seq(P)
  OBVIOUS
<1>2. /\ all \in Seq(P) /\ Len(all) = 2 + Len(s) + Len(t) /\ all[1] = a /\ all[2] = b
      /\ \A i \in 3..(2 + Len(s)) : all[i] = s[i - 2]
      /\ \A i \in (3 + Len(s))..(2 + Len(s) + Len(t)) : all[i] = t[i - 2 - Len(s)]
  BY <1>1
<1>3. \A i \in 2..Len(all) : all[i] \in R
  <2> SUFFICES ASSUME NEW i \in 2..Len(all) PROVE all[i] \in R
    OBVIOUS
  <2>1. i = 2 \/ i \in 3..(2 + Len(s)) \/ i \in (3 + Len(s))..(2 + Len(s) + Len(t))
    BY <1>2
  <2> HIDE DEF all
  <2>2. CASE i \in 3..(2 + Len(s))
    BY <1>2, <2>2
  <2>3. CASE i \in (3 + Len(s))..(2 + Len(s) + Len(t))
    BY <1>2, <2>3
  <2> QED
    BY <1>2, <2>1, <2>2, <2>3
<1> HIDE DEF all
<1>4. Tail(all) \in Seq(P) /\ Len(Tail(all)) = Len(all) - 1
      /\ \A i \in 1..(Len(all) - 1) : Tail(all)[i] = all[i + 1]
  <2>1. all \in Seq(P) /\ Len(all) \in Nat /\ Len(all) >= 1
    BY <1>2
  <2> QED
    BY <2>1
<1>5. \A i \in 1..Len(Tail(all)) : Tail(all)[i] \in R
  BY <1>2, <1>3, <1>4
<1>6. Tail(all) \in Seq(R)
  <2>1. Tail(all) \in [1..Len(Tail(all)) -> P] /\ Len(Tail(all)) \in Nat
    BY <1>4, LenProperties
  <2>2. Tail(all) \in [1..Len(Tail(all)) -> R]
    BY <1>5, <2>1
  <2> QED
    BY <2>1, <2>2, SeqDef
<1> QED
  BY <1>2, <1>6 DEF all

LEMMA GroupIssues ==
    ASSUME Shape, NEW d \in Sites, GroupCommands(d)
    PROVE  \E author, c, rest : Issues(d, author, c, rest)
<1>1. ASSUME NEW name, NEW members \in MemberLists, NEW currency \in Currencies,
             CreateGroup(d, name, members, currency)
      PROVE  \E c, rest : Issues(d, d, c, rest)
  <2> DEFINE g == Fresh("group")
             R == GroupTodo(g)
             a == [kind |-> "CreateGroup", group |-> g, name |-> name]
             b == SetMembership(g, Me(d), TRUE)
             s == [i \in DOMAIN members |-> SetMembership(g, members[i], TRUE)]
             t == IF currency # DefaultCurrency THEN <<SetGroupCurrency(g, currency)>> ELSE <<>>
             cs == <<a, b>> \o s \o t
  <2>1. Command(d, cs)
    BY <1>1 DEF CreateGroup
  <2>2. Shaped(a) /\ ByDevice(d, a) /\ a.kind = "CreateGroup" /\ a.group = g
    BY DEF Shaped, ByDevice, ByRootOnly, OfGroup, OnExpenses
  <2>3. b \in R /\ s \in Seq(R) /\ t \in Seq(R)
    <3>1. \A user \in UserIds : SetMembership(g, user, TRUE) \in R
      BY DEF GroupTodo
    <3>2. SetGroupCurrency(g, currency) \in R
      BY DEF GroupTodo
    <3>3. members \in Seq(UserIds) /\ Me(d) \in UserIds
      BY PeopleAreUsers
    <3> HIDE DEF R, g
    <3>4. s \in Seq(R)
      <4>1. DOMAIN members = 1..Len(members) /\ Len(members) \in Nat
            /\ \A i \in DOMAIN members : members[i] \in UserIds
        BY <3>3
      <4>2. s \in [1..Len(members) -> R]
        BY <3>1, <4>1
      <4> HIDE DEF s
      <4>3. \A n \in Nat : [1..n -> R] \subseteq Seq(R)
        BY SeqDef
      <4> QED
        BY <4>1, <4>2, <4>3
    <3>5. \A e \in R : <<e>> \in Seq(R)
      OBVIOUS
    <3>6. t \in Seq(R)
      <4>1. t = <<SetGroupCurrency(g, currency)>> \/ t = <<>>
        OBVIOUS
      <4>2. <<>> \in Seq(R)
        OBVIOUS
      <4> HIDE DEF t
      <4> QED
        BY <3>2, <3>5, <4>1, <4>2
    <3> QED
      BY <3>1, <3>3, <3>4, <3>6
  <2> HIDE DEF R, a, b, s, t
  <2>4. Head(cs) = a /\ Tail(cs) \in Seq(R)
    BY <2>3, GroupOpsFollow
  <2>5. Left(d, a, Tail(cs))
    BY <2>2, <2>4 DEF Left, R
  <2> HIDE DEF cs
  <2>6. Issues(d, d, Head(cs), Tail(cs))
    BY <2>1, <2>2, <2>4, <2>5, CommandIssues
  <2> QED
    BY <2>6
<1>2. ASSUME NEW g, NEW name, RenameGroup(d, g, name) PROVE \E c, rest : Issues(d, d, c, rest)
  <2> DEFINE c == [kind |-> "SetGroupName", group |-> g, name |-> name]
  <2>1. Shaped(c) /\ ByDevice(d, c) /\ Command(d, <<c>>)
    BY <1>2 DEF Shaped, ByDevice, ByRootOnly, OfGroup, OnExpenses, RenameGroup
  <2> HIDE DEF c
  <2> QED
    BY <2>1, SingleIssues
<1>3. ASSUME NEW g, NEW currency, ChangeCurrency(d, g, currency)
      PROVE  \E c, rest : Issues(d, d, c, rest)
  <2> DEFINE c == [kind |-> "SetGroupCurrency", group |-> g, currency |-> currency]
  <2>1. Shaped(c) /\ ByDevice(d, c) /\ Command(d, <<c>>)
    BY <1>3 DEF Shaped, ByDevice, ByRootOnly, OfGroup, OnExpenses, ChangeCurrency, SetGroupCurrency
  <2> HIDE DEF c
  <2> QED
    BY <2>1, SingleIssues
<1>4. ASSUME NEW g, NEW user, NEW member, RequireMember(d, g),
             Command(d, <<SetMembership(g, user, member)>>)
      PROVE  \E c, rest : Issues(d, d, c, rest)
  <2> DEFINE c == [kind |-> "SetMembership", group |-> g, user |-> user, member |-> member]
  <2>1. Shaped(c) /\ ByDevice(d, c) /\ Command(d, <<c>>)
    BY <1>4 DEF Shaped, ByDevice, ByRootOnly, OfGroup, OnExpenses, SetMembership
  <2> HIDE DEF c
  <2> QED
    BY <2>1, SingleIssues
<1>5. ASSUME NEW g, NEW until_ms \in Closings, SetClosedPeriod(d, g, until_ms)
      PROVE  \E c, rest : Issues(d, d, c, rest)
  <2> DEFINE c == [kind |-> "SetClosedPeriod", group |-> g, until_ms |-> until_ms]
  <2>1. until_ms \in Nat
    BY EngineAssumption
  <2>2. Shaped(c) /\ ByDevice(d, c) /\ Command(d, <<c>>)
    BY <1>5, <2>1 DEF Shaped, ByDevice, ByRootOnly, OfGroup, OnExpenses, SetClosedPeriod
  <2> HIDE DEF c
  <2> QED
    BY <2>2, SingleIssues
<1> QED
  BY <1>1, <1>2, <1>3, <1>4, <1>5 DEF GroupCommands, AddMember, RemoveMember

LEMMA ExpenseIssues ==
    ASSUME Shape, NEW d \in Sites, ExpenseCommands(d)
    PROVE  \E author, c, rest : Issues(d, author, c, rest)
<1> USE DEF Shaped, ByDevice, ByRootOnly, OfGroup, OnExpenses
<1>1. ASSUME NEW g, NEW fields \in Forms, NEW draft, AddExpense(d, g, fields, draft)
      PROVE  \E c, rest : Issues(d, d, c, rest)
  <2> DEFINE c == [kind |-> "CreateExpense", expense |-> Fresh("expense"), group |-> g,
                   fields |-> fields, draft |-> draft]
  <2>1. Shaped(c) /\ ByDevice(d, c) /\ Command(d, <<c>>)
    BY <1>1 DEF AddExpense
  <2> HIDE DEF c
  <2> QED
    BY <2>1, SingleIssues
<1>2. ASSUME NEW e, NEW fields \in Forms, EditExpense(d, e, fields)
      PROVE  \E c, rest : Issues(d, d, c, rest)
  <2> DEFINE c == [kind |-> "EditExpense", expense |-> e, fields |-> fields]
  <2>1. Shaped(c) /\ ByDevice(d, c) /\ Command(d, <<c>>)
    BY <1>2 DEF EditExpense
  <2> HIDE DEF c
  <2> QED
    BY <2>1, SingleIssues
<1>3. ASSUME NEW e, DeleteExpense(d, e)
      PROVE  \E c, rest : Issues(d, d, c, rest)
  <2> DEFINE c == [kind |-> "VoidExpense", expense |-> e]
  <2>1. Shaped(c) /\ ByDevice(d, c) /\ Command(d, <<c>>)
    BY <1>3 DEF DeleteExpense
  <2> HIDE DEF c
  <2> QED
    BY <2>1, SingleIssues
<1>4. ASSUME NEW e, PublishExpense(d, e)
      PROVE  \E c, rest : Issues(d, d, c, rest)
  <2> DEFINE c == [kind |-> "PublishExpense", expense |-> e]
  <2>1. Shaped(c) /\ ByDevice(d, c) /\ Command(d, <<c>>)
    BY <1>4 DEF PublishExpense
  <2> HIDE DEF c
  <2> QED
    BY <2>1, SingleIssues
<1>5. ASSUME NEW e, NEW locked, SetExpenseLock(d, e, locked)
      PROVE  \E c, rest : Issues(d, d, c, rest)
  <2> DEFINE c == [kind |-> "SetExpenseLock", expense |-> e, locked |-> locked]
  <2>1. Shaped(c) /\ ByDevice(d, c) /\ Command(d, <<c>>)
    BY <1>5 DEF SetExpenseLock
  <2> HIDE DEF c
  <2> QED
    BY <2>1, SingleIssues
<1> QED
  BY <1>1, <1>2, <1>3, <1>4, <1>5 DEF ExpenseCommands, LockExpense, UnlockExpense

LEMMA SettlementIssues ==
    ASSUME Shape, NEW d \in Sites, SettlementCommands(d)
    PROVE  \E author, c, rest : Issues(d, author, c, rest)
<1> USE DEF Shaped, ByDevice, ByRootOnly, OfGroup, OnExpenses
<1>1. ASSUME NEW g, NEW from, NEW to, NEW amount \in 0..1, RecordSettlement(d, g, from, to, amount)
      PROVE  \E c, rest : Issues(d, d, c, rest)
  <2> DEFINE c == [kind |-> "RecordSettlement", settlement |-> Fresh("settlement"),
                   group |-> g, from |-> from, to |-> to, amount |-> amount]
  <2>1. Shaped(c) /\ ByDevice(d, c) /\ Command(d, <<c>>)
    BY <1>1 DEF RecordSettlement
  <2> HIDE DEF c
  <2> QED
    BY <2>1, SingleIssues
<1>2. ASSUME NEW s, DeleteSettlement(d, s)
      PROVE  \E c, rest : Issues(d, d, c, rest)
  <2> DEFINE c == [kind |-> "VoidSettlement", settlement |-> s]
  <2>1. Shaped(c) /\ ByDevice(d, c) /\ Command(d, <<c>>)
    BY <1>2 DEF DeleteSettlement
  <2> HIDE DEF c
  <2> QED
    BY <2>1, SingleIssues
<1> QED
  BY <1>1, <1>2 DEF SettlementCommands

LEMMA DeviceIssues ==
    ASSUME Shape, NEW d \in Sites, DeviceCommands(d)
    PROVE  \E author, c, rest : Issues(d, author, c, rest)
<1> USE DEF Shaped, ByRoot, ByRootOnly, OfGroup, OnExpenses
<1>1. ASSUME NEW device, NEW site \in Sites, AuthorizeDevice(d, device, site)
      PROVE  \E author, c, rest : Issues(d, author, c, rest)
  <2> DEFINE c == [kind |-> "AuthorizeDevice", identity |-> Owner[d],
                   device |-> device, site |-> site]
  <2>1. Shaped(c) /\ ByRoot(d, c) /\ AsRoot(d, c)
    BY <1>1, EngineAssumption DEF AuthorizeDevice
  <2> HIDE DEF c
  <2> QED
    BY <2>1, RootIssues
<1>2. ASSUME NEW device, RevokeDevice(d, device)
      PROVE  \E author, c, rest : Issues(d, author, c, rest)
  <2> DEFINE c == [kind |-> "RevokeDevice", identity |-> Owner[d], device |-> device]
  <2>1. Shaped(c) /\ ByRoot(d, c) /\ AsRoot(d, c)
    BY <1>2 DEF RevokeDevice
  <2> HIDE DEF c
  <2> QED
    BY <2>1, RootIssues
<1> QED
  BY <1>1, <1>2 DEF DeviceCommands

(* A running command goes on with what was left, ...                       *)
LEMMA ContinueIssues ==
    ASSUME EngineInv, NEW d \in Sites, TodoOK(d), Continue(d),
           ~UNCHANGED <<clockVars, issued, view>>
    PROVE  \E author, c, rest : Issues(d, author, c, rest)
<1> DEFINE c == Head(todo[d])
           rest == Tail(todo[d])
<1>1. /\ todo[d] # <<>> /\ open[d] /\ past' = past /\ open' = open
      /\ todo' = [todo EXCEPT ![d] = rest] /\ Issue(d, d, c)
      /\ ~(c.kind = "SetGroupCurrency" /\ ~RequireMember(d, c.group))
  <2>1. todo[d] # <<>> /\ past' = past /\ open' = open
    BY DEF Continue
  <2>2. open[d]
    BY <2>1 DEF EngineInv, TypeOK
  <2>3. /\ ~(c.kind = "SetGroupCurrency" /\ ~RequireMember(d, c.group))
        /\ todo' = [todo EXCEPT ![d] = Tail(@)] /\ Issue(d, d, c)
    BY DEF Continue
  <2> QED
    BY <2>1, <2>2, <2>3
<1>2. todo'[d] = rest /\ \A x \in Sites \ {d} : todo'[x] = todo[x]
  BY <1>1 DEF EngineInv, Shape
<1>3. /\ Shaped(c) /\ ByDevice(d, c) /\ Left(d, c, rest)
  <2>1. CASE todo[d] \in Seq(KeyTodo(d))
    <3>1. c \in KeyTodo(d) /\ rest \in Seq(KeyTodo(d))
      BY <1>1, <2>1, HeadTailProperties
    <3>2. c = [kind |-> "SetAgreementKey", user |-> Me(d), key |-> Owner[d]]
      BY <3>1 DEF KeyTodo
    <3> HIDE DEF c, rest
    <3> QED
      BY <3>1, <3>2 DEF Shaped, ByDevice, ByRootOnly, OfGroup, OnExpenses, Left
  <2>2. ASSUME NEW g, Mine(d, g), todo[d] \in Seq(GroupTodo(g))
        PROVE  /\ Shaped(c) /\ ByDevice(d, c) /\ Left(d, c, rest)
    <3>1. c \in GroupTodo(g) /\ rest \in Seq(GroupTodo(g))
      BY <1>1, <2>2, HeadTailProperties
    <3> HIDE DEF c, rest
    <3>2. CASE \E user \in UserIds : c = SetMembership(g, user, TRUE)
      <4>1. PICK user \in UserIds :
               c = [kind |-> "SetMembership", group |-> g, user |-> user, member |-> TRUE]
        BY <3>2 DEF SetMembership
      <4> QED
        BY <2>2, <3>1, <4>1 DEF Shaped, ByDevice, ByRootOnly, OfGroup, OnExpenses, Left
    <3>3. CASE \E currency \in Currencies : c = SetGroupCurrency(g, currency)
      <4>1. PICK currency \in Currencies :
               c = [kind |-> "SetGroupCurrency", group |-> g, currency |-> currency]
        BY <3>3 DEF SetGroupCurrency
      <4> QED
        BY <1>1, <2>2, <3>1, <4>1 DEF Shaped, ByDevice, ByRootOnly, OfGroup, OnExpenses, Left
    <3> QED
      BY <3>1, <3>2, <3>3 DEF GroupTodo
  <2> QED
    BY <1>1, <2>1, <2>2 DEF TodoOK
<1>4. Issues(d, d, c, rest)
  <2> HIDE DEF c, rest
  <2> QED
    BY <1>1, <1>2, <1>3 DEF Issues, Lawful
<1> QED
  BY <1>4

(* and an App certifies its device when it is opened.                      *)
LEMMA OpenIssues ==
    ASSUME EngineInv, NEW d \in Sites, NEW unlocked, OpenApp(d, unlocked), ~Enrolled(d, view[d])
    PROVE  \E author, c, rest : Issues(d, author, c, rest)
<1> DEFINE c == Certificate(d)
<1>1. /\ Issue(d, Owner[d], c) /\ ~open[d] /\ open' = [open EXCEPT ![d] = TRUE]
      /\ past' = past /\ todo' = todo
  BY DEF OpenApp, EnsureDeviceAuthorized
<1>2. todo[d] = <<>>
  BY <1>1 DEF EngineInv, TypeOK
<1>3. Shaped(c) /\ ByRoot(d, c)
  BY EngineAssumption DEF Certificate, Shaped, ByRoot, ByRootOnly, OfGroup, OnExpenses
<1>4. Lawful(d, Owner[d], c) /\ Left(d, c, <<>>)
  BY <1>3 DEF Lawful, Left
<1>5. \A x \in Sites : open'[x] => open[x] \/ (x = d /\ c = Certificate(d))
  BY <1>1 DEF EngineInv, Shape
<1>6. Issues(d, Owner[d], c, <<>>)
  <2>1. c.kind \in ByRootOnly
    BY <1>3 DEF ByRoot
  <2> HIDE DEF c
  <2> QED
    BY <1>1, <1>2, <1>4, <1>5, <2>1 DEF Issues
<1> QED
  BY <1>6

(* What learns of no op and begins nothing.                                *)
Rests ==
    /\ UNCHANGED <<past, issued, stamped, log, view>>
    /\ \A x \in Sites : open'[x] => open[x] \/ Enrolled(x, view[x])
    /\ \A x \in Sites : todo'[x] = todo[x] \/ todo'[x] = <<>>

(* A step issues one op, lets one arrive, or does neither.                 *)
LEMMA StepIs ==
    ASSUME EngineInv, \A d \in Sites : TodoOK(d), [Next]_vars
    PROVE  \/ \E d \in Sites : \E author, c, rest : Issues(d, author, c, rest)
           \/ \E d \in Sites : \E i \in 1..Len(issued) : Ingest(d, i)
           \/ Rests
<1> DEFINE P == \/ \E d \in Sites : \E author, c, rest : Issues(d, author, c, rest)
                \/ \E d \in Sites : \E i \in 1..Len(issued) : Ingest(d, i)
                \/ Rests
<1>1. CASE UNCHANGED vars
  <2>1. Rests
    BY <1>1 DEF vars, clockVars, appVars, Rests
  <2> QED
    BY <2>1
<1>2. CASE Next
  <2>1. PICK d \in Sites :
          \/ Lifecycle(d)
          \/ ProfileCommands(d) \/ FriendCommands(d) \/ GroupCommands(d)
          \/ ExpenseCommands(d) \/ SettlementCommands(d) \/ DeviceCommands(d)
          \/ Continue(d) \/ Fail(d)
          \/ \E i \in 1..Len(issued) : Ingest(d, i)
          \/ TimePasses(d)
    BY <1>2 DEF Next
  <2>2. Shape
    BY DEF EngineInv
  <2>3. CASE \/ ProfileCommands(d) \/ FriendCommands(d) \/ GroupCommands(d)
             \/ ExpenseCommands(d) \/ SettlementCommands(d) \/ DeviceCommands(d)
    <3>1. \E author, c, rest : Issues(d, author, c, rest)
      BY <2>2, <2>3, ProfileIssues, FriendIssues, GroupIssues, ExpenseIssues, SettlementIssues,
         DeviceIssues
    <3> QED
      BY <3>1
  <2>4. CASE Continue(d)
    <3>1. CASE UNCHANGED <<clockVars, issued, view>>
      <4>1. /\ todo' = [todo EXCEPT ![d] = <<>>]
            /\ past' = past /\ open' = open
        <5>1. \A author, c : Issue(d, author, c) => issued' # issued
          <6>1. PICK S : issued \in Seq(S)
            BY <2>2 DEF Shape
          <6>2. \A op : Append(issued, op) # issued
            BY <6>1, AppendGrows
          <6> QED
            BY <6>2 DEF Issue
        <5> QED
          BY <2>4, <3>1, <5>1 DEF Continue
      <4>2. Rests
        BY <2>2, <3>1, <4>1 DEF Rests, clockVars, Shape
      <4> QED
        BY <4>2
    <3>2. CASE ~UNCHANGED <<clockVars, issued, view>>
      <4>1. \E author, c, rest : Issues(d, author, c, rest)
        BY <2>4, <3>2, ContinueIssues
      <4> QED
        BY <4>1
    <3> QED
      BY <3>1, <3>2
  <2>5. CASE Fail(d)
    <3>1. Rests
      BY <2>2, <2>5 DEF Fail, Waste, Rests, Shape
    <3> QED
      BY <3>1
  <2>6. CASE \E i \in 1..Len(issued) : Ingest(d, i)
    BY <2>6
  <2>7. CASE TimePasses(d)
    <3>1. Rests
      BY <2>7 DEF TimePasses, Tick, appVars, Rests
    <3> QED
      BY <3>1
  <2>8. CASE Lifecycle(d)
    <3>1. ASSUME NEW unlocked \in BOOLEAN, OpenApp(d, unlocked) PROVE P
      <4>1. CASE Enrolled(d, view[d])
        <5>1. Rests
          BY <2>2, <3>1, <4>1
             DEF OpenApp, EnsureDeviceAuthorized, clockVars, Rests, Shape
        <5> QED
          BY <5>1
      <4>2. CASE ~Enrolled(d, view[d])
        <5>1. \E author, c, rest : Issues(d, author, c, rest)
          BY <3>1, <4>2, OpenIssues
        <5> QED
          BY <5>1
      <4> QED
        BY <4>1, <4>2
    <3>2. ASSUME NEW seed \in Range(Owner), UnlockRoot(d, seed) PROVE P
      <4>1. Rests
        BY <3>2 DEF UnlockRoot, clockVars, Rests
      <4> QED
        BY <4>1
    <3>3. CASE LockRoot(d)
      <4>1. Rests
        BY <3>3 DEF LockRoot, clockVars, Rests
      <4> QED
        BY <4>1
    <3>4. CASE CrashApp(d)
      <4>1. Rests
        BY <2>2, <3>4 DEF CrashApp, Restart, Rests, Shape
      <4> QED
        BY <4>1
    <3> QED
      BY <2>8, <3>1, <3>2, <3>3, <3>4 DEF Lifecycle
  <2> QED
    BY <2>1, <2>3, <2>4, <2>5, <2>6, <2>7, <2>8
<1> QED
  BY <1>1, <1>2

-----------------------------------------------------------------------------
(* What an op that is issued changes.                                      *)
Known == past \cup {issued[i] : i \in DOMAIN issued}

Adds(d, op) ==
    LET n == Len(issued) + 1
    IN  /\ past' = past
        /\ n \in Nat \ {0} /\ DOMAIN issued = 1..(n - 1) /\ Len(issued') = n /\ DOMAIN issued' = 1..n
        /\ issued'[n] = op /\ stamped'[n].site = d
        /\ \A i \in 1..(n - 1) : issued'[i] = issued[i] /\ stamped'[i] = stamped[i]
        /\ log'[d] = log[d] \cup {n} /\ \A x \in Sites \ {d} : log'[x] = log[x]
        /\ \A x \in Sites : log[x] \subseteq 1..(n - 1)
        /\ view'[d] = Project(Held(d) \cup {op}) /\ \A x \in Sites \ {d} : view'[x] = view[x]
        /\ DOMAIN view' = Sites

(* A reading's rank is a number.                                           *)
LEMMA RankIsNat ==
    ASSUME NEW hlc \in Hlcs, NEW d \in Sites
    PROVE  Rank(hlc, d) \in Nat
<1>1. Max(Sites) \in Nat
  <2>1. \E m \in Sites : \A x \in Sites : m >= x
    <3> DEFINE leq == {q \in Nat \X Nat : q[1] <= q[2]}
    <3>1. Sites \subseteq Nat /\ IsFiniteSet(Sites) /\ Sites # {}
      BY EngineAssumption
    <3>2. \A x, y \in Nat : <<x, y>> \in leq <=> x <= y
      OBVIOUS
    <3> HIDE DEF leq
    <3>3. TotalOrder(leq, Sites)
      BY <3>1, <3>2 DEF TotalOrder
    <3>4. \E m \in Sites : \A x \in Sites : <<x, m>> \in leq
      BY <3>1, <3>3, GreatestExists
    <3> QED
      BY <3>1, <3>2, <3>4
  <2>2. Max(Sites) \in Sites
    BY <2>1 DEF Max
  <2> QED
    BY <2>2, EngineAssumption
<1>2. MaxOps \in Nat /\ hlc.wall_ms \in Nat /\ hlc.counter \in Nat /\ d \in Nat
  BY ClockAssumption, EngineAssumption DEF Hlcs
<1>3. \A a, b \in Nat : a * b \in Nat
  OBVIOUS
<1>4. hlc.wall_ms * (MaxOps + 1) \in Nat
  BY <1>2, <1>3
<1>5. (hlc.wall_ms * (MaxOps + 1) + hlc.counter) * (Max(Sites) + 1) \in Nat
  <2>1. hlc.wall_ms * (MaxOps + 1) + hlc.counter \in Nat /\ Max(Sites) + 1 \in Nat
    BY <1>1, <1>2, <1>4
  <2> QED
    BY <1>3, <2>1
<1> QED
  BY <1>2, <1>5 DEF Rank, PastBound

LEMMA IssueAdds ==
    ASSUME EngineInv, ClockTypeOK, NEW d \in Sites, NEW author, NEW c, Issue(d, author, c),
           past' = past, DOMAIN view = Sites
    PROVE  \E op : /\ op.hlc \in Nat /\ op.id \in Int
                   /\ \E hlc : op = OpOf(1000 - Len(issued), hlc, author, c)
                   /\ op.author = author
                   /\ Adds(d, op)
<1> DEFINE reading == Advance(last[d], wall[d])
           op == OpOf(1000 - Len(issued), Rank(reading, d), author, c)
           n == Len(issued) + 1
<1>1. PICK S : issued \in Seq(S)
  BY DEF EngineInv, Shape
<1>2. PICK T : stamped \in Seq(T)
  BY DEF EngineInv, Shape
<1>3. /\ n \in Nat \ {0} /\ DOMAIN issued = 1..(n - 1) /\ Len(stamped) + 1 = n
      /\ \A x \in Sites : log[x] \subseteq 1..(n - 1)
  BY <1>1 DEF EngineInv, TypeOK
<1>4. Rank(reading, d) \in Nat
  <2>1. reading \in Hlcs
    BY AdvanceIsLater DEF ClockTypeOK
  <2> QED
    BY <2>1, RankIsNat
<1>5. op.id = 1000 - Len(issued) /\ op.hlc = Rank(reading, d) /\ op.author = author
  BY OpHasFields
<1>6. /\ issued' = Append(issued, op)
      /\ stamped' = Append(stamped, [site |-> d, hlc |-> reading, after |-> log[d]])
      /\ log' = [log EXCEPT ![d] = @ \cup {Len(stamped) + 1}]
      /\ view' = [view EXCEPT ![d] = Project(Held(d) \cup {op})]
  BY DEF Issue, Commit
<1> HIDE DEF op, reading
<1>7. /\ Len(issued') = n /\ DOMAIN issued' = 1..n /\ issued'[n] = op
      /\ \A i \in 1..(n - 1) : issued'[i] = issued[i]
  <2>1. issued \in Seq(S \cup {op})
    BY <1>1
  <2> QED
    BY <1>6, <2>1
<1>8. /\ stamped'[n].site = d
      /\ \A i \in 1..(n - 1) : stamped'[i] = stamped[i]
  <2> DEFINE new == [site |-> d, hlc |-> reading, after |-> log[d]]
  <2>1. stamped \in Seq(T \cup {new}) /\ new.site = d
    BY <1>2
  <2> HIDE DEF new
  <2> QED
    BY <1>3, <1>6, <2>1 DEF new
<1>9. /\ log'[d] = log[d] \cup {n} /\ \A x \in Sites \ {d} : log'[x] = log[x]
      /\ view'[d] = Project(Held(d) \cup {op}) /\ \A x \in Sites \ {d} : view'[x] = view[x]
      /\ DOMAIN view' = Sites
  BY <1>3, <1>6 DEF EngineInv, Shape
<1>10. Adds(d, op)
  <2> HIDE DEF n
  <2> QED
    BY <1>3, <1>7, <1>8, <1>9 DEF Adds, n
<1> QED
  BY <1>3, <1>4, <1>5, <1>10 DEF op

(* Its device holds it, and everybody what he held before.                 *)
LEMMA AddsHeld ==
    ASSUME NEW d \in Sites, NEW op, Adds(d, op)
    PROVE  /\ Held(d)' = Held(d) \cup {op}
           /\ \A x \in Sites \ {d} : Held(x)' = Held(x)
           /\ Known' = Known \cup {op}
<1> DEFINE n == Len(issued) + 1
<1>1. /\ past' = past /\ n \in Nat \ {0} /\ DOMAIN issued = 1..(n - 1) /\ DOMAIN issued' = 1..n
      /\ issued'[n] = op /\ \A i \in 1..(n - 1) : issued'[i] = issued[i]
      /\ log'[d] = log[d] \cup {n} /\ \A x \in Sites \ {d} : log'[x] = log[x]
      /\ \A x \in Sites : log[x] \subseteq 1..(n - 1)
  BY DEF Adds
<1> HIDE DEF n
<1>2. \A x \in Sites : {issued'[i] : i \in log[x]} = {issued[i] : i \in log[x]}
  BY <1>1
<1>3. {issued'[i] : i \in log[d] \cup {n}} = {issued'[i] : i \in log[d]} \cup {op}
  BY <1>1
<1>4. /\ 1..n = 1..(n - 1) \cup {n}
      /\ {issued'[i] : i \in 1..(n - 1)} = {issued[i] : i \in 1..(n - 1)}
  <2>1. 1..n = 1..(n - 1) \cup {n}
    BY <1>1
  <2>2. {issued'[i] : i \in 1..(n - 1)} = {issued[i] : i \in 1..(n - 1)}
    BY <1>1
  <2> QED
    BY <2>1, <2>2
<1>5. {issued'[i] : i \in 1..n} = {issued[i] : i \in 1..(n - 1)} \cup {op}
  BY <1>1, <1>4
<1> QED
  BY <1>1, <1>2, <1>3, <1>5 DEF Held, Known

(* What an op that arrives changes.                                        *)
Hears(d, i) ==
    /\ UNCHANGED <<past, issued, stamped, open, todo>> /\ todo[d] = <<>>
    /\ i \in DOMAIN issued /\ i \notin log[d]
    /\ log'[d] = log[d] \cup {i} /\ \A x \in Sites \ {d} : log'[x] = log[x]
    /\ Held(d)' = Held(d) \cup {issued[i]}
    /\ \A x \in Sites \ {d} : Held(x)' = Held(x)
    /\ view'[d] = Project(Held(d) \cup {issued[i]})
    /\ \A x \in Sites \ {d} : view'[x] = view[x]
    /\ Known' = Known /\ DOMAIN view' = Sites

LEMMA IngestHeld ==
    ASSUME EngineInv, DOMAIN view = Sites, NEW d \in Sites, NEW i \in 1..Len(issued), Ingest(d, i)
    PROVE  Hears(d, i)
<1>1. /\ UNCHANGED <<past, issued, stamped, open, todo>> /\ todo[d] = <<>>
      /\ log' = [log EXCEPT ![d] = @ \cup {i}] /\ i \notin log[d]
      /\ view' = [view EXCEPT ![d] = Project(Held(d) \cup {issued[i]})]
  BY DEF Ingest, Receive
<1>2. i \in DOMAIN issued
  <2>1. PICK S : issued \in Seq(S)
    BY DEF EngineInv, Shape
  <2> QED
    BY <2>1
<1>3. /\ log'[d] = log[d] \cup {i} /\ \A x \in Sites \ {d} : log'[x] = log[x]
      /\ view'[d] = Project(Held(d) \cup {issued[i]})
      /\ \A x \in Sites \ {d} : view'[x] = view[x]
      /\ DOMAIN view' = Sites
  BY <1>1 DEF EngineInv, Shape
<1>4. Held(d)' = Held(d) \cup {issued[i]} /\ \A x \in Sites \ {d} : Held(x)' = Held(x)
  BY <1>1, <1>3 DEF Held
<1>5. Known' = Known
  BY <1>1 DEF Known
<1> QED
  BY <1>1, <1>2, <1>3, <1>4, <1>5 DEF Hears

-----------------------------------------------------------------------------
(* The ops there are, and who signed them.                                 *)
OpOK(op) ==
    /\ op.hlc \in Nat /\ op.id \in Int
    /\ op.kind = "AuthorizeDevice" /\ op.author = op.identity =>
          op.identity \in Nat /\ op.site \in Nat
    /\ op.kind = "AddAlias" => {op.alias, op.canonical} \subseteq UserIds
    /\ op.kind = "SetClosedPeriod" => op.until_ms \in Nat

Signed(x, op) ==
    \/ op.author = Owner[x] /\ op.kind \in ByRootOnly
    \/ op.author = x /\ op.kind \notin ByRootOnly /\ Enrolled(x, view[x])

OpsOK == past \in Pasts /\ \A op \in Known : OpOK(op)

LedgersOK ==
    /\ OpsOK /\ DOMAIN view = Sites
    /\ \A x \in Sites : view[x] = Project(Held(x))
    /\ \A x \in Sites : open[x] => Enrolled(x, view[x])
    /\ \A i \in DOMAIN issued : stamped[i].site \in Sites /\ i \in log[stamped[i].site]
    /\ \A x \in Sites : \A i \in log[x] : stamped[i].site = x => Signed(x, issued[i])

HeldOK ==
    \A x \in Sites : Held(x) \subseteq Known /\ OpSet(Held(x)) /\ CertsNumbered(Held(x))

LEMMA HeldAreOps == EngineInv /\ OpsOK => HeldOK
<1> SUFFICES ASSUME EngineInv, OpsOK, NEW x \in Sites
             PROVE  /\ Held(x) \subseteq Known
                    /\ OpSet(Held(x)) /\ CertsNumbered(Held(x))
  BY DEF HeldOK
<1>1. Held(x) \subseteq Known
  BY DEF Held, Known, EngineInv, TypeOK
<1>2. IsFiniteSet(Held(x))
  <2>1. IsFiniteSet(past)
    BY PastsAssumption DEF OpsOK
  <2>2. IsFiniteSet(log[x])
    <3>1. PICK S : issued \in Seq(S)
      BY DEF EngineInv, Shape
    <3>2. DOMAIN issued = 1..Len(issued) /\ Len(issued) \in Nat
      BY <3>1
    <3>3. IsFiniteSet(1..Len(issued))
      BY <3>2, FS_Interval
    <3> QED
      BY <3>2, <3>3, FS_Subset DEF EngineInv, TypeOK
  <2>3. IsFiniteSet({issued[i] : i \in log[x]})
    BY <2>2, FiniteImage
  <2> QED
    BY <2>1, <2>3, FS_Union DEF Held
<1> QED
  BY <1>1, <1>2 DEF OpSet, CertsNumbered, OpsOK, OpOK, SelfSigned, OfKind, UserIds

(* Who is enrolled stays so,                                               *)
LEMMA EnrolledStays ==
    ASSUME NEW S, NEW T, OpSet(S), OpSet(T), CertsNumbered(S), CertsNumbered(T), S \subseteq T,
           NEW x, Enrolled(x, Project(S))
    PROVE  Enrolled(x, Project(T))
<1>1. \E c \in SelfSigned(S, "AuthorizeDevice") : c.device = x
  BY DevicesShown DEF Enrolled
<1>2. SelfSigned(S, "AuthorizeDevice") \subseteq SelfSigned(T, "AuthorizeDevice")
  BY DEF SelfSigned, OfKind
<1> QED
  BY <1>1, <1>2, DevicesShown DEF Enrolled

(* and is shown as the device of one who certified it.                     *)
LEMMA ShownCertifier ==
    ASSUME EngineInv, LedgersOK, NEW x \in Sites, Enrolled(x, view[x])
    PROVE  /\ view[x].devices[x].identity = IdentityOf(CollectDevices(Held(x)), x)
           /\ view[x].devices[x].identity \in Certifiers(x)
<1>1. OpSet(Held(x)) /\ CertsNumbered(Held(x)) /\ Held(x) \subseteq Known
  BY HeldAreOps DEF HeldOK, LedgersOK
<1>2. view[x] = Project(Held(x))
  BY DEF LedgersOK
<1>3. /\ view[x].devices[x].identity = IdentityOf(CollectDevices(Held(x)), x)
      /\ \E c \in SelfSigned(Held(x), "AuthorizeDevice") :
            c.device = x /\ view[x].devices[x].identity = c.identity
  BY <1>1, <1>2, DevicesShown DEF Enrolled
<1> QED
  BY <1>3 DEF Certifiers

(* Held sets grow, and views with them.                                    *)
Grown ==
    \A x \in Sites : Held(x) \subseteq Held(x)' /\ view'[x] = Project(Held(x)')

LEMMA SignedStays ==
    ASSUME EngineInv, EngineInv', LedgersOK, Grown,
           OpsOK', NEW x \in Sites
    PROVE  Enrolled(x, view[x]) => Enrolled(x, view'[x])
<1>1. OpSet(Held(x)) /\ CertsNumbered(Held(x)) /\ view[x] = Project(Held(x))
  BY HeldAreOps DEF HeldOK, LedgersOK
<1>2. OpSet(Held(x)') /\ CertsNumbered(Held(x)')
  <2>1. (EngineInv /\ OpsOK => HeldOK)'
    BY HeldAreOps, PTL
  <2> QED
    BY <2>1 DEF HeldOK, OpSet, CertsNumbered, SelfSigned, OfKind
<1>3. Held(x) \subseteq Held(x)' /\ view'[x] = Project(Held(x)')
  BY DEF Grown
<1> QED
  BY <1>1, <1>2, <1>3, EnrolledStays

(* The op of a step that issues one.                                       *)
New(d, op, rest) ==
    /\ Adds(d, op) /\ OpOK(op)
    /\ \/ op.author = d /\ ByDevice(d, op) /\ open[d]
       \/ op.author = Owner[d] /\ ByRoot(d, op)
    /\ Left(d, op, rest)
    /\ todo'[d] = rest /\ \A x \in Sites \ {d} : todo'[x] = todo[x]
    /\ \A x \in Sites : open'[x] =>
          \/ open[x]
          \/ /\ x = d /\ op.kind = "AuthorizeDevice" /\ op.device = d
             /\ op.author = op.identity

LEMMA IssuesNew ==
    ASSUME EngineInv, ClockTypeOK, DOMAIN view = Sites,
           NEW d \in Sites, NEW author, NEW c, NEW rest, Issues(d, author, c, rest)
    PROVE  \E op : New(d, op, rest)
<1>1. /\ Shaped(c) /\ Issue(d, author, c) /\ past' = past
      /\ \/ author = d /\ ByDevice(d, c)
         \/ author = Owner[d] /\ ByRoot(d, c)
      /\ c.kind \notin ByRootOnly => open[d]
  BY DEF Issues, Lawful
<1>2. PICK op : /\ op.hlc \in Nat /\ op.id \in Int
                /\ \E hlc : op = OpOf(1000 - Len(issued), hlc, author, c)
                /\ op.author = author
                /\ Adds(d, op)
  BY <1>1, IssueAdds
<1>3. PICK hlc : op = OpOf(1000 - Len(issued), hlc, author, c)
  BY <1>2
<1>4. /\ ByDevice(d, c) => ByDevice(d, op)
      /\ ByRoot(d, c) => ByRoot(d, op)
  BY <1>1, <1>3, OpIsLawful, CertIsLawful
<1>5. /\ op.kind = c.kind
      /\ c.kind \in OfGroup => op.group = c.group
      /\ c.kind = "SetMembership" => op.member = c.member
      /\ c.kind \in ByRootOnly => op.identity = c.identity /\ op.device = c.device
  BY <1>1, <1>3, ShapedFields
<1>6. \/ op.author = d /\ ByDevice(d, op) /\ open[d]
      \/ op.author = Owner[d] /\ ByRoot(d, op)
  BY <1>1, <1>2, <1>4 DEF ByDevice
<1>7. OpOK(op)
  <2>1. CASE ByDevice(d, op)
    BY <1>2, <2>1 DEF ByDevice, OpOK, ByRootOnly
  <2>2. CASE ByRoot(d, op)
    BY <1>2, <2>2, PeopleAreUsers DEF ByRoot, OpOK, ByRootOnly
  <2> QED
    BY <1>6, <2>1, <2>2
<1>8. Left(d, op, rest)
  BY <1>5 DEF Issues, Left, OfGroup
<1>9. \A x \in Sites : open'[x] =>
          \/ open[x]
          \/ /\ x = d /\ op.kind = "AuthorizeDevice" /\ op.device = d
             /\ op.author = op.identity
  <2>1. c = Certificate(d) => /\ c.kind = "AuthorizeDevice" /\ c.device = d
                              /\ c.identity = Owner[d] /\ c.kind \in ByRootOnly
    BY DEF Certificate, ByRootOnly
  <2>2. op.kind \in ByRootOnly => op.author = Owner[d]
    BY <1>6 DEF ByDevice
  <2> QED
    BY <1>5, <2>1, <2>2 DEF Issues
<1>10. todo'[d] = rest /\ \A x \in Sites \ {d} : todo'[x] = todo[x]
  BY DEF Issues
<1> QED
  BY <1>2, <1>6, <1>7, <1>8, <1>9, <1>10 DEF New

(* Everybody holds what he held,                                           *)
LEMMA NewGrown ==
    ASSUME LedgersOK, NEW d \in Sites, NEW op, Adds(d, op)
    PROVE  Grown
<1>1. /\ Held(d)' = Held(d) \cup {op} /\ \A x \in Sites \ {d} : Held(x)' = Held(x)
      /\ view'[d] = Project(Held(d) \cup {op}) /\ \A x \in Sites \ {d} : view'[x] = view[x]
  BY AddsHeld DEF Adds
<1>2. \A x \in Sites : view[x] = Project(Held(x))
  BY DEF LedgersOK
<1> QED
  BY <1>1, <1>2 DEF Grown

LEMMA NewKeepsLedgers ==
    ASSUME EngineInv, EngineInv', LedgersOK, NEW d \in Sites, NEW op, NEW rest, New(d, op, rest)
    PROVE  LedgersOK'
<1> DEFINE n == Len(issued) + 1
<1>1. Adds(d, op) /\ OpOK(op)
  BY DEF New
<1>2. OpsOK'
  <2>1. past' = past /\ Known' = Known \cup {op}
    BY <1>1, AddsHeld DEF Adds
  <2> QED
    BY <1>1, <2>1 DEF OpsOK, LedgersOK
<1>3. Grown
  BY <1>1, NewGrown
<1>4. \A x \in Sites : Enrolled(x, view[x]) => Enrolled(x, view'[x])
  BY <1>2, <1>3, SignedStays
<1>5. \A x \in Sites : open'[x] => Enrolled(x, view'[x])
  <2> SUFFICES ASSUME NEW x \in Sites, open'[x] PROVE Enrolled(x, view'[x])
    OBVIOUS
  <2>1. CASE open[x]
    BY <1>4, <2>1 DEF LedgersOK
  <2>2. CASE /\ x = d /\ op.kind = "AuthorizeDevice" /\ op.device = d
             /\ op.author = op.identity
    <3>1. Held(x)' = Held(x) \cup {op}
      BY <1>1, <2>2, AddsHeld
    <3>2. (EngineInv /\ OpsOK => HeldOK)'
      BY HeldAreOps, PTL
    <3>3. OpSet(Held(x)') /\ CertsNumbered(Held(x)')
      BY <1>2, <3>2 DEF HeldOK, OpSet, CertsNumbered, SelfSigned, OfKind
    <3>4. op \in SelfSigned(Held(x)', "AuthorizeDevice")
      BY <2>2, <3>1 DEF SelfSigned, OfKind
    <3>5. view'[x] = Project(Held(x)')
      BY <1>3 DEF Grown
    <3> QED
      BY <2>2, <3>3, <3>4, <3>5, DevicesShown DEF Enrolled
  <2> QED
    BY <2>1, <2>2 DEF New
<1>6. ASSUME NEW x \in Sites, NEW i \in log'[x], stamped'[i].site = x
      PROVE  Signed(x, issued[i])'
  <2>1. /\ n \in Nat \ {0} /\ issued'[n] = op /\ stamped'[n].site = d
        /\ \A j \in 1..(n - 1) : issued'[j] = issued[j] /\ stamped'[j] = stamped[j]
        /\ log'[d] = log[d] \cup {n} /\ \A y \in Sites \ {d} : log'[y] = log[y]
        /\ \A y \in Sites : log[y] \subseteq 1..(n - 1)
    BY <1>1 DEF Adds
  <2>2. CASE i \in log[x]
    <3>1. i \in 1..(n - 1) /\ issued'[i] = issued[i] /\ stamped[i].site = x
      BY <1>6, <2>1, <2>2
    <3>2. Signed(x, issued[i])
      BY <2>2, <3>1 DEF LedgersOK
    <3> QED
      BY <1>4, <3>1, <3>2 DEF Signed
  <2>3. CASE i = n /\ x = d
    <3>1. issued'[i] = op
      BY <2>1, <2>3
    <3>2. \/ op.author = d /\ op.kind \notin ByRootOnly /\ open[d]
          \/ op.author = Owner[d] /\ op.kind \in ByRootOnly
      BY DEF New, ByDevice, ByRoot
    <3>3. open[d] => Enrolled(d, view'[d])
      BY <1>4 DEF LedgersOK
    <3> QED
      BY <2>3, <3>1, <3>2, <3>3 DEF Signed
  <2> QED
    BY <1>6, <2>1, <2>2, <2>3
<1>7. DOMAIN view' = Sites
  BY <1>1 DEF Adds
<1>8. \A i \in DOMAIN issued' : stamped'[i].site \in Sites /\ i \in log'[stamped'[i].site]
  BY <1>1 DEF Adds, LedgersOK
<1> QED
  BY <1>2, <1>3, <1>5, <1>6, <1>7, <1>8 DEF LedgersOK, Grown

LEMMA HearsKeepsLedgers ==
    ASSUME EngineInv, EngineInv', LedgersOK, NEW d \in Sites, NEW i, Hears(d, i)
    PROVE  LedgersOK'
<1>1. /\ UNCHANGED <<past, issued, stamped, open, todo>>
      /\ i \in DOMAIN issued /\ i \notin log[d]
      /\ log'[d] = log[d] \cup {i} /\ \A x \in Sites \ {d} : log'[x] = log[x]
      /\ Held(d)' = Held(d) \cup {issued[i]}
      /\ \A x \in Sites \ {d} : Held(x)' = Held(x)
      /\ view'[d] = Project(Held(d) \cup {issued[i]})
      /\ \A x \in Sites \ {d} : view'[x] = view[x]
      /\ Known' = Known /\ DOMAIN view' = Sites
  BY DEF Hears
<1>2. OpsOK'
  BY <1>1 DEF OpsOK, LedgersOK
<1>3. Grown
  <2>1. \A x \in Sites : view[x] = Project(Held(x))
    BY DEF LedgersOK
  <2> QED
    BY <1>1, <2>1 DEF Grown
<1>4. \A x \in Sites : Enrolled(x, view[x]) => Enrolled(x, view'[x])
  BY <1>2, <1>3, SignedStays
<1>5. \A x \in Sites : open'[x] => Enrolled(x, view'[x])
  BY <1>1, <1>4 DEF LedgersOK
<1>6. \A j \in DOMAIN issued' : stamped'[j].site \in Sites /\ j \in log'[stamped'[j].site]
  BY <1>1 DEF LedgersOK
<1>7. ASSUME NEW x \in Sites, NEW j \in log'[x], stamped'[j].site = x
      PROVE  Signed(x, issued[j])'
  <2>1. j \in log[x]
    BY <1>1, <1>7 DEF LedgersOK
  <2>2. Signed(x, issued[j])
    BY <1>1, <1>7, <2>1 DEF LedgersOK
  <2> QED
    BY <1>1, <1>4, <2>2 DEF Signed
<1> QED
  BY <1>1, <1>2, <1>3, <1>5, <1>6, <1>7 DEF LedgersOK, Grown

-----------------------------------------------------------------------------
(* No id is issued twice: no op names what is still to be created, and     *)
(* what was issued as a create is the only create of its id.               *)
Future(prefix) == {prefix} \X {n \in Nat : n >= PastBound + Len(issued)}

Naming == {"CreateGroup", "SetMembership", "CreateExpense", "RecordSettlement"}

NotYet(op) ==
    /\ op.kind \in Naming => op.group \notin Future("group")
    /\ op.kind = "CreateExpense" => op.expense \notin Future("expense")

Alone(op) ==
    /\ op.kind = "CreateGroup" =>
          \A o \in Known : o.kind = "CreateGroup" /\ o.group = op.group => o = op
    /\ op.kind = "CreateExpense" =>
          \A o \in Known : o.kind = "CreateExpense" /\ o.expense = op.expense => o = op

FreshOK ==
    /\ \A op \in Known : NotYet(op)
    /\ \A i \in DOMAIN issued : Alone(issued[i])

(* A fresh id is one of the future, which it leaves.                       *)
LEMMA FreshIsNext ==
    ASSUME EngineInv, NEW prefix
    PROVE  /\ Fresh(prefix) \in Future(prefix)
           /\ Len(issued') = Len(issued) + 1 =>
                 Future(prefix)' \subseteq Future(prefix) \ {Fresh(prefix)}
<1>1. Len(issued) \in Nat
  <2>1. PICK S : issued \in Seq(S)
    BY DEF EngineInv, Shape
  <2> QED
    BY <2>1
<1> QED
  BY <1>1 DEF Fresh, Future, PastBound

(* A member's group was created.                                           *)
LEMMA GroupIsOld ==
    ASSUME EngineInv, LedgersOK, FreshOK, NEW d \in Sites, NEW g,
           RequireMember(d, g) \/ Mine(d, g)
    PROVE  g \notin Future("group")
<1>1. \E op \in Known : op.kind = "CreateGroup" /\ op.group = g
  <2>1. CASE RequireMember(d, g)
    <3>1. g \in DOMAIN Project(Held(d)).groups
      BY <2>1 DEF RequireMember, LedgersOK
    <3>2. \E op \in Held(d) : op.kind = "CreateGroup" /\ op.group = g
      BY <3>1, GroupsShown
    <3> QED
      BY <3>2, HeldAreOps DEF HeldOK, LedgersOK
  <2>2. CASE Mine(d, g)
    BY <2>2 DEF Mine, Known, EngineInv, TypeOK
  <2> QED
    BY <2>1, <2>2
<1> QED
  BY <1>1 DEF FreshOK, NotYet, Naming

LEMMA NewKeepsFresh ==
    ASSUME EngineInv, LedgersOK, FreshOK, NEW d \in Sites, NEW op, NEW rest, New(d, op, rest)
    PROVE  FreshOK'
<1> DEFINE n == Len(issued) + 1
<1>1. Adds(d, op) /\ Known' = Known \cup {op}
  BY AddsHeld DEF New
<1>2. /\ n \in Nat \ {0} /\ issued'[n] = op /\ DOMAIN issued' = 1..n /\ DOMAIN issued = 1..(n - 1)
      /\ \A i \in 1..(n - 1) : issued'[i] = issued[i]
      /\ Len(issued') = n
  BY <1>1 DEF Adds
<1>3. \A prefix : /\ Fresh(prefix) \in Future(prefix)
                  /\ Future(prefix)' \subseteq Future(prefix) \ {Fresh(prefix)}
  BY <1>2, FreshIsNext
<1>4. op.kind = "CreateGroup" => op.group = Fresh("group")
  BY DEF New, ByDevice, ByRoot, ByRootOnly
<1>5. op.kind = "CreateExpense" => op.expense = Fresh("expense")
  BY DEF New, ByDevice, ByRoot, ByRootOnly
<1>6. op.kind \in Naming => op.group \notin Future("group")'
  <2>1. NoGroup \notin Future("group")
    BY EngineAssumption DEF Future
  <2>2. op.kind \in Naming \ {"CreateGroup"} =>
           op.group = NoGroup \/ RequireMember(d, op.group) \/ Mine(d, op.group)
    BY DEF New, ByDevice, ByRoot, ByRootOnly, Naming
  <2>3. op.kind \in Naming \ {"CreateGroup"} => op.group \notin Future("group")
    BY <2>1, <2>2, GroupIsOld
  <2> QED
    BY <1>3, <1>4, <2>3
<1>7. NotYet(op)'
  BY <1>3, <1>5, <1>6 DEF NotYet
<1>8. \A o \in Known : NotYet(o)'
  BY <1>3 DEF NotYet, FreshOK
<1>9. Alone(op)'
  BY <1>1, <1>3, <1>4, <1>5 DEF Alone, FreshOK, NotYet, Naming
<1>10. ASSUME NEW i \in 1..(n - 1) PROVE Alone(issued[i])'
  <2>1. issued[i] \in Known /\ Alone(issued[i]) /\ issued'[i] = issued[i]
    BY <1>2 DEF Known, FreshOK
  <2>2. NotYet(issued[i])
    BY <2>1 DEF FreshOK
  <2> QED
    BY <1>1, <1>3, <1>4, <1>5, <2>1, <2>2 DEF Alone, NotYet, Naming
<1> QED
  BY <1>1, <1>2, <1>7, <1>8, <1>9, <1>10 DEF FreshOK

LEMMA HearsKeepsFresh ==
    ASSUME FreshOK, NEW d, NEW i, Hears(d, i)
    PROVE  FreshOK'
BY DEF Hears, FreshOK, NotYet, Alone, Future

LEMMA RestsKeepsFresh ==
    ASSUME FreshOK, Rests
    PROVE  FreshOK'
BY DEF Rests, FreshOK, NotYet, Alone, Future, Known

LEMMA RestsKeepsLedgers ==
    ASSUME LedgersOK, Rests
    PROVE  LedgersOK'
<1>1. /\ UNCHANGED <<past, issued, stamped, log, view>>
      /\ \A x \in Sites : open'[x] => open[x] \/ Enrolled(x, view[x])
  BY DEF Rests
<1>2. Known' = Known /\ \A x \in Sites : Held(x)' = Held(x)
  BY <1>1 DEF Known, Held
<1>3. \A x \in Sites : view[x] = Project(Held(x))
  BY DEF LedgersOK
<1>4. \A x \in Sites : view'[x] = Project(Held(x)')
  BY <1>1, <1>2, <1>3
<1>5. \A x \in Sites : \A i \in log'[x] : stamped'[i].site = x => Signed(x, issued[i])'
  BY <1>1 DEF LedgersOK, Signed
<1> QED
  BY <1>1, <1>2, <1>4, <1>5 DEF LedgersOK, OpsOK

-----------------------------------------------------------------------------
(* What is left to do concerns the profile or a group of one's own.        *)
LEMMA NewKeepsTodo ==
    ASSUME EngineInv, LedgersOK, FreshOK, \A x \in Sites : TodoOK(x),
           NEW d \in Sites, NEW op, NEW rest, New(d, op, rest)
    PROVE  \A x \in Sites : TodoOK(x)'
<1> DEFINE n == Len(issued) + 1
<1>1. /\ n \in Nat \ {0} /\ issued'[n] = op /\ stamped'[n].site = d
      /\ \A i \in 1..(n - 1) : issued'[i] = issued[i] /\ stamped'[i] = stamped[i]
      /\ log'[d] = log[d] \cup {n} /\ \A x \in Sites \ {d} : log'[x] = log[x]
      /\ \A x \in Sites : log[x] \subseteq 1..(n - 1)
      /\ Held(d)' = Held(d) \cup {op} /\ \A x \in Sites \ {d} : Held(x)' = Held(x)
  BY AddsHeld DEF New, Adds
<1>2. ASSUME NEW x \in Sites \ {d}, NEW g, Mine(x, g) PROVE Mine(x, g)'
  BY <1>1, <1>2 DEF Mine
<1>3. ASSUME NEW g, Mine(d, g), op.kind = "SetMembership" /\ op.group = g => op.member
      PROVE  Mine(d, g)'
  BY <1>1, <1>3 DEF Mine
<1>4. ASSUME op.kind = "CreateGroup" PROVE Mine(d, op.group)'
  <2>1. op.group = Fresh("group")
    BY <1>4 DEF New, ByDevice, ByRoot, ByRootOnly
  <2>2. op.group \in Future("group")
    BY <2>1, FreshIsNext
  <2>3. \A o \in Held(d) : o.kind = "SetMembership" => o.group # op.group
    BY <2>2, HeldAreOps DEF HeldOK, LedgersOK, FreshOK, NotYet, Naming
  <2> QED
    BY <1>1, <1>4, <2>3 DEF Mine
<1>5. ASSUME NEW x \in Sites \ {d} PROVE TodoOK(x)'
  <2>1. todo'[x] = todo[x] /\ TodoOK(x)
    BY DEF New
  <2> QED
    BY <1>2, <2>1 DEF TodoOK, KeyTodo, GroupTodo, Me
<1>6. TodoOK(d)'
  <2>1. todo'[d] = rest /\ Left(d, op, rest)
    BY DEF New
  <2>2. CASE op.kind = "CreateGroup" /\ rest \in Seq(GroupTodo(op.group))
    BY <1>4, <2>1, <2>2 DEF TodoOK, GroupTodo
  <2>3. CASE /\ op.kind \in {"SetMembership", "SetGroupCurrency"}
             /\ op.kind = "SetMembership" => op.member
             /\ Mine(d, op.group) /\ rest \in Seq(GroupTodo(op.group))
    BY <1>3, <2>1, <2>3 DEF TodoOK, GroupTodo
  <2>4. CASE rest = <<>> \/ rest \in Seq(KeyTodo(d))
    BY <2>1, <2>4 DEF TodoOK, KeyTodo, Me
  <2> QED
    BY <2>1, <2>2, <2>3, <2>4 DEF Left
<1> QED
  BY <1>5, <1>6

LEMMA HearsKeepsTodo ==
    ASSUME \A x \in Sites : TodoOK(x), NEW d \in Sites, NEW i, Hears(d, i)
    PROVE  \A x \in Sites : TodoOK(x)'
<1>1. /\ UNCHANGED <<past, issued, stamped, todo>> /\ todo[d] = <<>>
      /\ \A x \in Sites \ {d} : log'[x] = log[x] /\ Held(x)' = Held(x)
  BY DEF Hears
<1>2. TodoOK(d)'
  BY <1>1 DEF TodoOK
<1>3. ASSUME NEW x \in Sites \ {d} PROVE TodoOK(x)'
  <2>1. \A g : Mine(x, g) => Mine(x, g)'
    BY <1>1 DEF Mine
  <2> QED
    BY <1>1, <2>1 DEF TodoOK, KeyTodo, GroupTodo, Me
<1> QED
  BY <1>2, <1>3

LEMMA RestsKeepsTodo ==
    ASSUME \A x \in Sites : TodoOK(x), Rests
    PROVE  \A x \in Sites : TodoOK(x)'
<1>1. \A x \in Sites : \A g : Mine(x, g) => Mine(x, g)'
  BY DEF Mine, Rests, Held
<1> QED
  BY <1>1 DEF Rests, TodoOK, KeyTodo, GroupTodo, Me

-----------------------------------------------------------------------------
(* The clocks run in their range, whatever they are set to.                *)
LEMMA ClocksStayTyped ==
    ASSUME ClockTypeOK, [ClockNext]_clockVars
    PROVE  ClockTypeOK'
<1>1. ASSUME NEW s \in Sites, Commit(s) PROVE ClockTypeOK'
  <2> DEFINE hlc == Advance(last[s], wall[s])
             new == [site |-> s, hlc |-> hlc, after |-> log[s]]
  <2>1. hlc \in Hlcs
    BY AdvanceIsLater DEF ClockTypeOK
  <2>2. new \in Stamps
    BY <2>1 DEF ClockTypeOK, Stamps
  <2>3. /\ last' = [last EXCEPT ![s] = hlc] /\ stamped' = Append(stamped, new)
        /\ log' = [log EXCEPT ![s] = @ \cup {Len(stamped) + 1}] /\ wall' = wall
    BY <1>1 DEF Commit
  <2> HIDE DEF hlc, new
  <2> QED
    BY <2>1, <2>2, <2>3 DEF ClockTypeOK
<1>2. ASSUME NEW s \in Sites, Waste(s) PROVE ClockTypeOK'
  <2>1. Advance(last[s], wall[s]) \in Hlcs
    BY AdvanceIsLater DEF ClockTypeOK
  <2> QED
    BY <1>2, <2>1 DEF Waste, ClockTypeOK
<1>3. ASSUME NEW s \in Sites, NEW i \in 1..Len(stamped), Receive(s, i) PROVE ClockTypeOK'
  BY <1>3 DEF Receive, ClockTypeOK
<1>4. ASSUME NEW s \in Sites, Restart(s) PROVE ClockTypeOK'
  BY <1>4 DEF Restart, ClockTypeOK, NewGenerator, Hlc, Hlcs
<1>5. ASSUME NEW s \in Sites, Tick(s) PROVE ClockTypeOK'
  BY <1>5, ClockAssumption DEF Tick, ClockTypeOK
<1>6. CASE UNCHANGED clockVars
  BY <1>6 DEF clockVars, ClockTypeOK
<1> QED
  BY <1>1, <1>2, <1>3, <1>4, <1>5, <1>6 DEF ClockNext

(* The inductive invariant of the engine.                                  *)
AppInv ==
    /\ EngineInv /\ ClockTypeOK /\ LedgersOK /\ FreshOK
    /\ \A x \in Sites : TodoOK(x)

LEMMA AppInit == Init => AppInv
<1> SUFFICES ASSUME Init PROVE AppInv
  OBVIOUS
<1>1. EngineInv
  BY EngineInitInv
<1>2. ClockTypeOK
  BY ClockAssumption DEF Init, ClockInit, ClockTypeOK, NewGenerator, Hlc, Hlcs, Stamps
<1>3. /\ Known = past /\ issued = <<>> /\ past \in Pasts
      /\ \A x \in Sites : Held(x) = past /\ log[x] = {}
  BY DEF Init, ClockInit, Known, Held
<1>4. \A op \in past : OpOK(op)
  BY <1>3, PastsAssumption DEF OpOK, UserIds
<1>5. \A x \in Sites : view[x] = Project(past) /\ open[x] = Enrolled(x, view[x])
  BY DEF Init
<1>6. LedgersOK
  <2>1. DOMAIN view = Sites /\ DOMAIN issued = {}
    BY DEF Init
  <2> QED
    BY <1>3, <1>4, <1>5, <2>1 DEF LedgersOK, OpsOK
<1>7. FreshOK
  <2>1. Len(issued) = 0 /\ DOMAIN issued = {}
    BY <1>3
  <2>2. \A op \in past : NotYet(op)
    <3>1. \A prefix : Future(prefix) = {prefix} \X {n \in Nat : n >= PastBound}
      BY <2>1 DEF Future, PastBound
    <3>2. \A op \in past :
            /\ op.kind \in Naming => op.group \notin {"group"} \X {n \in Nat : n >= PastBound}
            /\ op.kind = "CreateExpense" =>
                  op.expense \notin {"expense"} \X {n \in Nat : n >= PastBound}
      BY <1>3, PastsAssumption DEF Naming
    <3> QED
      BY <3>1, <3>2 DEF NotYet
  <2> QED
    BY <1>3, <2>1, <2>2 DEF FreshOK
<1>8. \A x \in Sites : TodoOK(x)
  BY DEF Init, TodoOK
<1> QED
  BY <1>1, <1>2, <1>6, <1>7, <1>8 DEF AppInv

LEMMA AppStep == AppInv /\ [Next]_vars => AppInv'
<1> SUFFICES ASSUME AppInv, [Next]_vars PROVE AppInv'
  OBVIOUS
<1> USE DEF AppInv
<1>1. EngineInv' /\ ClockTypeOK'
  BY EngineStepInv, EngineStepIsClockStep, ClocksStayTyped
<1>2. ASSUME NEW d \in Sites, NEW author, NEW c, NEW rest, Issues(d, author, c, rest)
      PROVE  AppInv'
  <2>1. PICK op : New(d, op, rest)
    BY <1>2, IssuesNew DEF LedgersOK
  <2> QED
    BY <1>1, <2>1, NewKeepsLedgers, NewKeepsFresh, NewKeepsTodo
<1>3. ASSUME NEW d \in Sites, NEW i \in 1..Len(issued), Ingest(d, i)
      PROVE  AppInv'
  <2>1. Hears(d, i)
    BY <1>3, IngestHeld DEF LedgersOK
  <2> QED
    BY <1>1, <2>1, HearsKeepsLedgers, HearsKeepsFresh, HearsKeepsTodo
<1>4. CASE Rests
  BY <1>1, <1>4, RestsKeepsLedgers, RestsKeepsFresh, RestsKeepsTodo
<1> QED
  BY <1>2, <1>3, <1>4, StepIs

-----------------------------------------------------------------------------
(* Everything a device issued is attributed on that device itself: its     *)
(* certificate comes before its ops.  It is attributed to the identity the *)
(* device was opened with, except where somebody else has certified the    *)
(* device as well.                                                         *)
THEOREM IssuedOpsAreMine == Spec => []OwnOpsAreMine
<1>1. AppInv => OwnOpsAreMine
  <2> SUFFICES ASSUME AppInv, NEW d \in Sites, NEW i \in log[d], stamped[i].site = d
               PROVE  \/ issued[i].author = Owner[d]
                      \/ /\ issued[i].author = d
                         /\ Enrolled(d, view[d])
                         /\ Certifiers(d) \subseteq {Owner[d]} =>
                               view[d].devices[d].identity = Owner[d]
    BY DEF OwnOpsAreMine
  <2> QED
    BY ShownCertifier DEF AppInv, LedgersOK, Signed
<1> QED
  BY <1>1, AppInit, AppStep, PTL DEF Spec

-----------------------------------------------------------------------------
(* The ledger of a device in standing: shown as its owner's and not as     *)
(* revoked.                                                                *)

(* What such a device signed is by its owner, and nothing of it revoked.   *)
LEMMA InStandingActs ==
    ASSUME AppInv, NEW d \in Sites, InStanding(d), NEW op, op.author = d, op.hlc \in Nat
    PROVE  /\ ~RevokedAt(CollectDevices(Held(d)), op)
           /\ Actor(Build(Held(d)), op) = Resolve(Build(Held(d)), Me(d))
<1>1. /\ OpSet(Held(d)) /\ CertsNumbered(Held(d)) /\ view[d] = Project(Held(d))
      /\ Enrolled(d, view[d])
  BY HeldAreOps DEF AppInv, HeldOK, LedgersOK, InStanding
<1>2. ~\E r \in SelfSigned(Held(d), "RevokeDevice") : r.device = d
  BY <1>1, DevicesShown DEF InStanding, Enrolled
<1>3. IdentityOf(CollectDevices(Held(d)), d) = Owner[d]
  BY <1>1, ShownCertifier DEF AppInv, InStanding
<1>4. Build(Held(d)).devices = CollectDevices(Held(d))
  BY Stages
<1>5. ~RevokedAt(CollectDevices(Held(d)), op)
  BY <1>1, <1>2, RevokedIs
<1> QED
  BY <1>3, <1>4, <1>5 DEF Actor, RawActor, Me

(* However many of its commits were lost, a group that was created can be  *)
(* repaired by its creator, on a device in standing: he is in it until     *)
(* somebody is removed from it.                                            *)
THEOREM CreatorsCanRepair == Spec => []FounderKeepsGroup
<1>1. AppInv => FounderKeepsGroup
  <2> SUFFICES ASSUME AppInv, NEW d \in Sites, NEW i \in log[d],
                      stamped[i].site = d, issued[i].kind = "CreateGroup",
                      InStanding(d), Me(d) \notin DOMAIN view[d].aliases,
                      \A op \in OfKind(Held(d), "SetMembership") :
                         op.group = issued[i].group => op.member
               PROVE  RequireMember(d, issued[i].group)
    BY DEF FounderKeepsGroup
  <2> DEFINE S == Held(d)
             op == issued[i]
             auth == Build(Held(d))
  <2>1. /\ OpSet(S) /\ S \subseteq Known /\ view[d] = Project(S)
    BY HeldAreOps DEF AppInv, HeldOK, LedgersOK
  <2>2. op \in S /\ i \in DOMAIN issued
    BY DEF Held, AppInv, EngineInv, TypeOK
  <2>3. op.author = d /\ op.hlc \in Nat
    BY <2>1, <2>2, OpsHaveOrder DEF AppInv, LedgersOK, Signed, ByRootOnly
  <2>4. /\ ~RevokedAt(CollectDevices(S), op)
        /\ Actor(auth, op) = Resolve(auth, Me(d))
    BY <2>3, InStandingActs
  <2>5. op \in Live(S)
    BY <2>2, <2>4 DEF Live, Standing
  <2>6. \A o \in S : o.kind = "CreateGroup" /\ o.group = op.group => o = op
    BY <2>1, <2>2 DEF AppInv, FreshOK, Alone
  <2>7. /\ op.group \in DOMAIN auth.founders
        /\ auth.founders[op.group] = Actor(auth, op)
        /\ op.group \in DOMAIN Project(S).groups
    <3>1. op.kind = "CreateGroup"
      OBVIOUS
    <3> HIDE DEF op
    <3> QED
      BY <2>1, <2>5, <2>6, <3>1, FoundedAlone
  <2>8. Resolve(auth, Me(d)) = Me(d)
    BY <2>1, ModelParts DEF Resolve
  <2>9. \A o \in S : o.kind = "SetMembership" /\ o.group = op.group => o.member
    BY DEF OfKind
  <2>10. auth.founders[op.group] \in CurrentMembers(auth, op.group)
    <3> HIDE DEF S, op
    <3> QED
      BY <2>1, <2>7, <2>9, FounderStays DEF S
  <2>11. Project(S).groups[op.group].members = CurrentMembers(auth, op.group)
    BY <2>7, ModelParts
  <2> QED
    BY <2>1, <2>4, <2>7, <2>8, <2>10, <2>11 DEF RequireMember
<1> QED
  BY <1>1, AppInit, AppStep, PTL DEF Spec

-----------------------------------------------------------------------------
(* What a step issues.                                                     *)

(* Only the device that takes the step issues anything, and that is one    *)
(* op.                                                                     *)
LEMMA OneNew ==
    ASSUME AppInv, [Next]_vars, NEW x \in Sites, NEW op \in NewOps(x)
    PROVE  \E rest : New(x, op, rest)
<1>1. PICK i \in DOMAIN issued' \ DOMAIN issued : stamped'[i].site = x /\ op = issued'[i]
  BY DEF NewOps
<1>2. ASSUME NEW d \in Sites, NEW author, NEW c, NEW rest, Issues(d, author, c, rest)
      PROVE  \E r : New(x, op, r)
  <2>1. PICK o : New(d, o, rest)
    BY <1>2, IssuesNew DEF AppInv, LedgersOK
  <2> DEFINE n == Len(issued) + 1
  <2>2. /\ n \in Nat \ {0} /\ DOMAIN issued = 1..(n - 1) /\ DOMAIN issued' = 1..n
        /\ issued'[n] = o /\ stamped'[n].site = d
    BY <2>1 DEF New, Adds
  <2> HIDE DEF n
  <2>3. i = n
    BY <1>1, <2>2
  <2> QED
    BY <1>1, <2>1, <2>2, <2>3
<1>3. ASSUME NEW d \in Sites, NEW j \in 1..Len(issued), Ingest(d, j)
      PROVE  FALSE
  BY <1>1, <1>3 DEF Ingest
<1>4. CASE Rests
  BY <1>1, <1>4 DEF Rests
<1> QED
  BY <1>2, <1>3, <1>4, StepIs DEF AppInv

(* Its device's ledger before and after.                                   *)
LEMMA NewLedger ==
    ASSUME AppInv, [Next]_vars, NEW d \in Sites, NEW op, NEW rest, New(d, op, rest)
    PROVE  /\ OpSet(Held(d)) /\ view[d] = Project(Held(d)) /\ Held(d) \subseteq Known
           /\ OpSet(Held(d) \cup {op}) /\ view'[d] = Project(Held(d) \cup {op})
           /\ Held(d)' = Held(d) \cup {op}
           /\ op.hlc \in Nat /\ op.id \in Int
           /\ Alone(op)' /\ Held(d) \cup {op} \subseteq Known'
<1>1. AppInv'
  BY AppStep
<1>2. OpSet(Held(d)) /\ view[d] = Project(Held(d)) /\ Held(d) \subseteq Known
  BY HeldAreOps DEF AppInv, HeldOK, LedgersOK
<1>3. Held(d)' = Held(d) \cup {op} /\ view'[d] = Project(Held(d) \cup {op})
  BY AddsHeld DEF New, Adds
<1>4. OpSet(Held(d)') /\ Held(d)' \subseteq Known'
  <2>1. (EngineInv /\ OpsOK => HeldOK)'
    BY HeldAreOps, PTL
  <2> QED
    BY <1>1, <2>1 DEF HeldOK, OpSet, AppInv, LedgersOK
<1>5. Alone(op)'
  <2>1. Len(issued) + 1 \in DOMAIN issued' /\ issued'[Len(issued) + 1] = op
    BY DEF New, Adds
  <2> QED
    BY <1>1, <2>1 DEF AppInv, FreshOK
<1> QED
  BY <1>2, <1>3, <1>4, <1>5 DEF New, OpOK

(* It is quiet, unless it is about who is who.                             *)
LEMMA QuietNew ==
    ASSUME AppInv, NEW d \in Sites, NEW op, NEW rest, New(d, op, rest), op.kind \notin WhoIsWho
    PROVE  Quiet(Held(d), op) /\ op.author = d /\ ByDevice(d, op)
<1>1. op.author = d /\ ByDevice(d, op)
  BY DEF New, ByRoot, ByRootOnly, WhoIsWho
<1>2. op.kind = "CreateGroup" => Unnamed(Held(d), op.group)
  <2> SUFFICES ASSUME op.kind = "CreateGroup" PROVE Unnamed(Held(d), op.group)
    OBVIOUS
  <2>1. op.group \in Future("group")
    BY <1>1, FreshIsNext DEF ByDevice, AppInv
  <2>2. Held(d) \subseteq Known
    BY HeldAreOps DEF AppInv, HeldOK, LedgersOK
  <2> QED
    BY <2>1, <2>2 DEF Unnamed, AppInv, FreshOK, NotYet, Naming
<1> QED
  BY <1>1, <1>2 DEF Quiet, Nameless, WhoIsWho

(* A shown expense is not created again.                                   *)
LEMMA ShownIsMade ==
    ASSUME AppInv, NEW d \in Sites, NEW op, NEW rest, New(d, op, rest),
           NEW e \in DOMAIN view[d].expenses
    PROVE  ~Makes(op, e)
<1> SUFFICES ASSUME op.kind = "CreateExpense", op.expense = e PROVE FALSE
  BY DEF Makes
<1>1. e \in Future("expense")
  BY FreshIsNext DEF New, ByDevice, ByRoot, ByRootOnly, AppInv
<1>2. view[d] = Project(Held(d)) /\ Held(d) \subseteq Known
  BY HeldAreOps DEF AppInv, HeldOK, LedgersOK
<1>3. \E o \in Held(d) : o.kind = "CreateExpense" /\ o.expense = e
  BY <1>2, ShownIsCreated
<1> QED
  BY <1>1, <1>2, <1>3 DEF AppInv, FreshOK, NotYet

(* Periods are closed up to some millisecond.                              *)
LEMMA ClosedIsNat ==
    ASSUME AppInv, NEW d \in Sites, NEW e
    PROVE  ClosedUntil(d, e) \in Nat
<1> DEFINE g == view[d].expenses[e].group
<1>1. view[d] = Project(Held(d)) /\ \A o \in Held(d) : OpOK(o)
  BY HeldAreOps DEF AppInv, HeldOK, LedgersOK, OpsOK
<1>2. OpSet(Held(d))
  BY HeldAreOps DEF AppInv, HeldOK, LedgersOK
<1>3. g \in DOMAIN view[d].groups => view[d].groups[g].closed_until_ms \in Nat
  BY <1>1, <1>2, ClosedAreWritten DEF OpOK
<1> QED
  BY <1>3 DEF ClosedUntil

(* Commands leave the content of what their device shows as locked, or     *)
(* closed up to and including the last millisecond, as it is, unless they  *)
(* change who is who.                                                      *)
THEOREM FrozenContentStays == Spec => ClosedBooksStay
<1>1. AppInv /\ [Next]_vars =>
         \A d \in Sites : \A op \in NewOps(d) : op.kind \notin WhoIsWho =>
            \A e \in Expenses(d) : Frozen(d, e) =>
               /\ e \in Expenses(d)'
               /\ view'[d].expenses[e].fields = view[d].expenses[e].fields
  <2> SUFFICES ASSUME AppInv, [Next]_vars, NEW d \in Sites, NEW op \in NewOps(d),
                      op.kind \notin WhoIsWho, NEW e \in Expenses(d), Frozen(d, e)
               PROVE  /\ e \in Expenses(d)'
                      /\ view'[d].expenses[e].fields = view[d].expenses[e].fields
    OBVIOUS
  <2>1. PICK rest : New(d, op, rest)
    BY OneNew
  <2>2. /\ OpSet(Held(d)) /\ view[d] = Project(Held(d))
        /\ OpSet(Held(d) \cup {op}) /\ view'[d] = Project(Held(d) \cup {op})
    BY <2>1, NewLedger
  <2>3. Quiet(Held(d), op) /\ ByDevice(d, op)
    BY <2>1, QuietNew
  <2>4. ~Makes(op, e)
    BY <2>1, ShownIsMade DEF Expenses
  <2>5. ~RequireEditable(d, e)
    BY ClosedIsNat DEF RequireEditable, Frozen
  <2>6. op.kind \in {"EditExpense", "VoidExpense"} => op.expense # e
    BY <2>3, <2>5 DEF ByDevice
  <2> HIDE DEF Expenses
  <2>7. /\ e \in DOMAIN Project(Held(d) \cup {op}).expenses
        /\ Project(Held(d) \cup {op}).expenses[e].fields = Project(Held(d)).expenses[e].fields
    BY <2>2, <2>3, <2>4, <2>6, OneExpense DEF Expenses
  <2> QED
    BY <2>2, <2>7 DEF Expenses
<1> QED
  BY <1>1, AppInit, AppStep, PTL DEF Spec, ClosedBooksStay

-----------------------------------------------------------------------------
(* The guards and the authorization.                                       *)

(* Who issues an op that changes no names is who the device is.            *)
LEMMA NewActs ==
    ASSUME AppInv, [Next]_vars, NEW d \in Sites, NEW op, NEW rest, New(d, op, rest),
           op.author = d, Nameless(op), InStanding(d),
           NEW S, S = Held(d), NEW T, T = Held(d) \cup {op}
    PROVE  /\ op \in Live(T) /\ ~RevokedAt(Build(T).devices, op)
           /\ Who(T) = Who(S)
           /\ Actor(Build(T), op) = Resolve(Build(S), Me(d))
           /\ Actor(Who(S), op) = Resolve(Build(S), Me(d))
           /\ \A u : Resolve(Build(T), u) = Resolve(Build(S), u)
<1>1. op.hlc \in Nat
  BY NewLedger
<1>2. /\ ~RevokedAt(CollectDevices(S), op)
      /\ Actor(Build(S), op) = Resolve(Build(S), Me(d))
  BY <1>1, InStandingActs
<1>3. CollectDevices(T) = CollectDevices(S) /\ Who(T) = Who(S)
  BY OneDevices, OnePeople DEF Nameless
<1>4. \A X : /\ Build(X).devices = CollectDevices(X) /\ Build(X).aliases = Who(X).aliases
             /\ Who(X).devices = CollectDevices(X)
  BY Stages
<1>5. Actor(Build(T), op) = Actor(Build(S), op) /\ Actor(Who(S), op) = Actor(Build(S), op)
  BY <1>3, <1>4, ActorSame
<1>6. op \in Live(T)
  BY <1>2, <1>3 DEF Live, Standing
<1>7. \A u : Resolve(Build(T), u) = Resolve(Build(S), u)
  BY <1>3, <1>4, ResolveSame
<1> QED
  BY <1>2, <1>3, <1>4, <1>5, <1>6, <1>7

(* A member is one as of a timely op,                                      *)
LEMMA MemberIsOne ==
    ASSUME AppInv, NEW d \in Sites, NEW op, op.hlc \in Nat, Timely(d, op),
           NEW g, RequireMember(d, g)
    PROVE  /\ Resolve(Build(Held(d)), Me(d)) = Me(d)
           /\ IsMemberAsOf(Build(Held(d)).membership, g, Me(d), OrderOf(op))
<1>1. OpSet(Held(d)) /\ view[d] = Project(Held(d))
  BY HeldAreOps DEF AppInv, HeldOK, LedgersOK
<1>2. Me(d) \in CurrentMembers(Build(Held(d)), g)
  BY <1>1, ModelParts DEF RequireMember
<1>3. OrderOf(op)[1] = op.hlc
  BY DEF OrderOf
<1>4. \A o \in Held(d) : o.hlc < OrderOf(op)[1]
  BY <1>3 DEF Timely
<1> QED
  BY <1>1, <1>2, <1>3, <1>4, MembersAct

(* so is the founder of a group from which nobody is removed,              *)
LEMMA FounderIsOne ==
    ASSUME AppInv, NEW d \in Sites, InStanding(d), NEW op, op.hlc \in Nat, Timely(d, op),
           NEW g, Mine(d, g)
    PROVE  IsMemberAsOf(Build(Held(d)).membership, g, Resolve(Build(Held(d)), Me(d)), OrderOf(op))
<1> DEFINE S == Held(d)
<1>1. OpSet(S) /\ S \subseteq Known
  BY HeldAreOps DEF AppInv, HeldOK, LedgersOK
<1>2. PICK i \in log[d] : /\ stamped[i].site = d /\ issued[i].kind = "CreateGroup"
                          /\ issued[i].group = g
  BY DEF Mine
<1>3. PICK c \in S : c = issued[i] /\ i \in DOMAIN issued
  BY <1>2 DEF Held, AppInv, EngineInv, TypeOK
<1>4. c.author = d /\ c.hlc \in Nat /\ c.kind = "CreateGroup" /\ c.group = g
  BY <1>1, <1>2, <1>3, OpsHaveOrder DEF AppInv, LedgersOK, Signed, ByRootOnly
<1>5. c \in Live(S) /\ Actor(Build(S), c) = Resolve(Build(S), Me(d))
  <2>1. ~RevokedAt(CollectDevices(S), c) /\ Actor(Build(S), c) = Resolve(Build(S), Me(d))
    BY <1>4, InStandingActs
  <2> QED
    BY <2>1 DEF Live, Standing
<1>6. \A o \in S : o.kind = "CreateGroup" /\ o.group = c.group => o = c
  BY <1>1, <1>2, <1>3 DEF AppInv, FreshOK, Alone
<1>7. \A o \in S : o.kind = "SetMembership" /\ o.group = g => o.member
  BY DEF Mine
<1>8. OrderOf(op)[1] \in Nat \ {0}
  <2>1. c.hlc < op.hlc
    BY <1>3 DEF Timely
  <2> QED
    BY <1>4, <2>1 DEF OrderOf
<1> HIDE DEF S
<1>9. g \in DOMAIN Build(S).founders /\ Build(S).founders[g] = Actor(Build(S), c)
  BY <1>1, <1>4, <1>5, <1>6, FoundedAlone
<1>10. IsMemberAsOf(Build(S).membership, g, Build(S).founders[g], OrderOf(op))
  BY <1>1, <1>7, <1>8, <1>9, FounderStays
<1> QED
  BY <1>5, <1>9, <1>10 DEF S

(* A change of members that is accepted becomes an event.                  *)
LEMMA ChangeCounts ==
    ASSUME AppInv, [Next]_vars, NEW d \in Sites, NEW op, NEW rest, New(d, op, rest),
           op.kind = "SetMembership", InStanding(d), Timely(d, op)
    PROVE  \E event \in Build(Held(d) \cup {op}).membership : event.at = OrderOf(op)
<1> DEFINE S == Held(d)
           T == Held(d) \cup {op}
           mS == Membership(Who(S), Founders(Who(S), Live(S)), Live(S))
<1>1. OpSet(S) /\ OpSet(T) /\ op.hlc \in Nat
  BY NewLedger
<1>2. op.author = d /\ ByDevice(d, op) /\ Nameless(op)
  BY DEF New, ByRoot, ByRootOnly, Nameless
<1>3. op \in Live(T) /\ Actor(Who(S), op) = Resolve(Build(S), Me(d))
  BY <1>2, NewActs
<1>4. IsMemberAsOf(Build(S).membership, op.group, Resolve(Build(S), Me(d)), OrderOf(op))
  <2>1. CASE RequireMember(d, op.group)
    BY <1>1, <2>1, MemberIsOne
  <2>2. CASE Mine(d, op.group)
    BY <1>1, <2>2, FounderIsOne
  <2> QED
    BY <1>2, <2>1, <2>2 DEF ByDevice
<1>5. Build(S).membership = mS
      /\ Build(T).membership = Membership(Who(T), Founders(Who(T), Live(T)), Live(T))
  BY Stages
<1>6. \A o \in S : o.hlc < op.hlc
  BY DEF Timely
<1> HIDE DEF S
<1>7. Build(T).membership = Replayed(Who(S), op, mS)
  BY <1>1, <1>3, <1>5, <1>6, OneChange DEF S
<1>8. Event(Who(S), op) \in Build(T).membership
  BY <1>3, <1>4, <1>5, <1>7 DEF Replayed
<1>9. Event(Who(S), op).at = OrderOf(op)
  BY DEF Event
<1> QED
  BY <1>8, <1>9

(* The creates of a shown expense have readings of their own.              *)
LEMMA CreatesApart ==
    ASSUME AppInv, NEW d \in Sites, NEW e
    PROVE  Apart({op \in OfKind(Held(d), "CreateExpense") : op.expense = e})
<1> DEFINE C == {op \in OfKind(Held(d), "CreateExpense") : op.expense = e}
<1>1. \A x \in C : x \in Known /\ x.kind = "CreateExpense" /\ x.expense = e
  BY HeldAreOps DEF AppInv, HeldOK, LedgersOK, OfKind
<1>2. \A x \in C : x \in past \/ \E i \in DOMAIN issued : x = issued[i]
  BY <1>1 DEF Known
<1>3. \A x \in past, y \in past : x.hlc = y.hlc => x = y
  BY PastsAssumption DEF AppInv, LedgersOK, OpsOK
<1>4. \A x \in C, y \in C : (\E i \in DOMAIN issued : x = issued[i]) => y = x
  BY <1>1 DEF AppInv, FreshOK, Alone
<1> HIDE DEF C
<1>5. \A x, y \in C : x.hlc = y.hlc => x = y
  BY <1>2, <1>3, <1>4
<1> QED
  BY <1>5 DEF Apart, C

(* What else is accepted is entitled.                                      *)
LEMMA AcceptedIsEntitled ==
    ASSUME AppInv, [Next]_vars, NEW d \in Sites, NEW op, NEW rest, New(d, op, rest),
           op.kind \notin WhoIsWho, Guarded(d, op), InStanding(d), Timely(d, op)
    PROVE  Entitled(Build(Held(d) \cup {op}), op)
<1> DEFINE S == Held(d)
           T == Held(d) \cup {op}
           auth == Build(T)
           me == Resolve(Build(S), Me(d))
<1> SUFFICES Entitled(auth, op)
  OBVIOUS
<1>1. /\ OpSet(S) /\ OpSet(T) /\ op.hlc \in Nat /\ view[d] = Project(S)
      /\ Alone(op)' /\ T \subseteq Known'
  BY NewLedger
<1>2. Quiet(S, op) /\ op.author = d /\ ByDevice(d, op)
  BY QuietNew
<1>3. /\ op \in Live(T) /\ ~RevokedAt(auth.devices, op)
      /\ Who(T) = Who(S) /\ Actor(auth, op) = me
      /\ \A u : Resolve(auth, u) = Resolve(Build(S), u)
  BY <1>2, NewActs DEF Quiet
<1>4. ASSUME NEW g, RequireMember(d, g), ~Founds(op, g)
      PROVE  IsMemberAsOf(auth.membership, g, me, OrderOf(op))
  <2>1. me = Me(d) /\ IsMemberAsOf(Build(S).membership, g, me, OrderOf(op))
    BY <1>1, <1>4, MemberIsOne
  <2>2. \A X : Build(X).membership = Membership(Who(X), Founders(Who(X), Live(X)), Live(X))
    BY Stages
  <2> HIDE DEF S, T, me
  <2>3. IsMemberAsOf(Build(T).membership, g, me, OrderOf(op))
          <=> IsMemberAsOf(Build(S).membership, g, me, OrderOf(op))
    BY <1>1, <1>2, <1>4, <2>2, OneMembership DEF S, T
  <2> QED
    BY <2>1, <2>3
<1>5. CASE op.kind = "CreateGroup"
  <2>1. \A o \in T : o.kind = "CreateGroup" /\ o.group = op.group => o = op
    BY <1>1, <1>5 DEF Alone
  <2> HIDE DEF T, S, me
  <2>2. op.group \in DOMAIN auth.founders /\ auth.founders[op.group] = Actor(auth, op)
    BY <1>1, <1>3, <1>5, <2>1, FoundedAlone
  <2> HIDE DEF auth
  <2> QED
    BY <1>3, <1>5, <2>2 DEF Entitled
<1>6. CASE op.kind \in {"SetGroupName", "SetGroupCurrency", "SetClosedPeriod"}
  <2>1. RequireMember(d, op.group) /\ ~Founds(op, op.group)
    BY <1>2, <1>6 DEF ByDevice, Founds
  <2>2. IsMemberAsOf(auth.membership, op.group, Actor(auth, op), OrderOf(op))
    BY <1>3, <1>4, <2>1
  <2> QED
    BY <1>3, <1>6, <2>2 DEF Entitled
<1>7. CASE op.kind \in {"CreateExpense", "RecordSettlement"}
  <2>1. op.group # NoGroup /\ RequireMember(d, op.group) /\ ~Founds(op, op.group)
    BY <1>2, <1>7 DEF ByDevice, Guarded, Founds
  <2>2. IsMemberAsOf(auth.membership, op.group, Actor(auth, op), OrderOf(op))
    BY <1>3, <1>4, <2>1
  <2>3. MayCreate(auth, op, Users(op))
    BY <2>1, <2>2 DEF MayCreate
  <2> QED
    BY <1>3, <1>7, <2>3 DEF Entitled
<1>8. CASE op.kind = "SetExpenseLock"
  <2> DEFINE e == op.expense
             g == view[d].expenses[e].group
  <2>1. e \in DOMAIN view[d].expenses /\ g # NoGroup /\ RequireMember(d, g) /\ ~Founds(op, g)
    BY <1>2, <1>8 DEF ByDevice, Guarded, Founds
  <2>2. e \in DOMAIN Build(S).expenses /\ Build(S).expenses[e].group = g
    <3>1. e \in DOMAIN Project(S).expenses /\ g = Project(S).expenses[e].group
      BY <1>1, <2>1
    <3> HIDE DEF e, g
    <3>2. Apart({c \in OfKind(S, "CreateExpense") : c.expense = e})
      BY CreatesApart
    <3> HIDE DEF S
    <3> QED
      BY <1>1, <3>1, <3>2, ExpenseBound
  <2>3. ~Makes(op, e)
    BY <1>8 DEF Makes
  <2> HIDE DEF S, T, me, e, g
  <2>4. e \in DOMAIN auth.expenses /\ auth.expenses[e].group = g
    BY <1>1, <1>2, <2>2, <2>3, OneBinding DEF S, T
  <2>5. IsMemberAsOf(auth.membership, g, Actor(auth, op), OrderOf(op))
    BY <1>3, <1>4, <2>1
  <2> HIDE DEF auth
  <2>6. EntityEntitled(auth, auth.expenses, e, op)
    BY <2>1, <2>4, <2>5 DEF EntityEntitled
  <2> QED
    BY <1>3, <1>8, <2>6 DEF Entitled, e
<1>9. CASE op.kind = "UpsertProfile"
  <2>1. op.user = Me(d)
    BY <1>9 DEF Guarded
  <2>2. MayName(auth, op)
    BY <1>3, <2>1 DEF MayName
  <2> QED
    BY <1>3, <1>9, <2>2 DEF Entitled
<1>10. CASE op.kind = "SetAgreementKey"
  <2>1. Actor(auth, op) = Resolve(auth, op.user)
    BY <1>2, <1>3, <1>10 DEF ByDevice
  <2> QED
    BY <1>3, <1>10, <2>1 DEF Entitled
<1> QED
  BY <1>5, <1>6, <1>7, <1>8, <1>9, <1>10 DEF Guarded, WhoIsWho

(* The guards of the commands and the authorization of ops, written apart  *)
(* from each other, agree: what the engine of a device in standing accepts *)
(* in a group counts in its author's own ledger, unless its clock is       *)
(* behind an op it has received.                                           *)
THEOREM GuardsAgree == Spec => AcceptedCounts
<1>1. AppInv /\ [Next]_vars =>
         \A d \in Sites : \A op \in NewOps(d) :
            Guarded(d, op) /\ Timely(d, op) /\ InStanding(d) => Counts(Build(Held(d)'), op)
  <2> SUFFICES ASSUME AppInv, [Next]_vars, NEW d \in Sites, NEW op \in NewOps(d),
                      Guarded(d, op), Timely(d, op), InStanding(d)
               PROVE  Counts(Build(Held(d)'), op)
    OBVIOUS
  <2>1. PICK rest : New(d, op, rest)
    BY OneNew
  <2>2. Held(d)' = Held(d) \cup {op}
    BY <2>1, NewLedger
  <2>3. CASE op.kind = "SetMembership"
    BY <2>1, <2>2, <2>3, ChangeCounts DEF Counts
  <2>4. CASE op.kind # "SetMembership"
    <3>1. op.kind \notin WhoIsWho
      BY <2>4 DEF Guarded, WhoIsWho
    <3> QED
      BY <2>1, <2>2, <2>4, <3>1, AcceptedIsEntitled DEF Counts
  <2> QED
    BY <2>3, <2>4
<1> QED
  BY <1>1, AppInit, AppStep, PTL DEF Spec, AcceptedCounts

-----------------------------------------------------------------------------
(* What the people in front of the devices are shown.  Accounts states     *)
(* what a ledger owes its readers; here it is the ledger of a device, of   *)
(* the ops that the guards of the commands let through.  (No pool of ops   *)
(* is given in advance.)                                                   *)
CONSTANT Reader            \* any device

book == [of |-> Held(Reader), model |-> view[Reader]]

Book == INSTANCE AccountsProofs WITH
            OpPool <- {}, held <- Held(Reader), view <- book

(* The projection of Accounts is the one of the engine.                    *)
LEMMA SameDevices == ASSUME NEW S PROVE Book!CollectDevices(S) = CollectDevices(S)
BY DEF Book!CollectDevices, CollectDevices, Book!SelfSigned, SelfSigned, Book!OfKind,
       OfKind, Book!CertAtOrBefore, CertAtOrBefore, Book!Min, Min

LEMMA SameIdentities == ASSUME NEW d, NEW O PROVE Book!Identities(d, O) = Identities(d, O)
BY DEF Book!Identities, Identities, Book!ResolveAliases, ResolveAliases, Book!Component,
       Component, Book!SmallestUser, SmallestUser, Book!SortsAtOrBefore, SortsAtOrBefore,
       Book!AliasAuthorized, AliasAuthorized, Book!IsPlaceholder, IsPlaceholder,
       Book!RawActor, RawActor, Book!UserIdFor, UserIdFor, Book!IdentityOf, IdentityOf,
       Book!OfKind, OfKind

LEMMA SameFounders == ASSUME NEW a, NEW O PROVE Book!Founders(a, O) = Founders(a, O)
BY DEF Book!Founders, Founders, Book!OfKind, OfKind, Book!Earliest, Earliest,
       Book!AtOrBefore, AtOrBefore, Book!OrderOf, OrderOf, Book!Actor, Actor,
       Book!Resolve, Resolve, Book!RawActor, RawActor, Book!UserIdFor, UserIdFor,
       Book!IdentityOf, IdentityOf

LEMMA SameFriends == ASSUME NEW a, NEW O PROVE Book!FriendDecls(a, O) = FriendDecls(a, O)
BY DEF Book!FriendDecls, FriendDecls, Book!OfKind, OfKind, Book!Actor, Actor,
       Book!Resolve, Resolve, Book!RawActor, RawActor, Book!UserIdFor, UserIdFor,
       Book!IdentityOf, IdentityOf

LEMMA SameMembership == ASSUME NEW a, NEW f, NEW O PROVE Book!Membership(a, f, O) =
       Membership(a, f, O)
BY DEF Book!Membership, Membership, Book!OfKind, OfKind, Book!IsMemberAsOf, IsMemberAsOf,
       Book!MinOrder, MinOrder, Book!Latest, Latest, Book!MapThenFoldSet, MapThenFoldSet,
       Book!AtOrBefore, AtOrBefore, Book!OrderOf, OrderOf, Book!Actor, Actor,
       Book!Resolve, Resolve, Book!RawActor, RawActor, Book!UserIdFor, UserIdFor,
       Book!IdentityOf, IdentityOf

LEMMA SameGrants == ASSUME NEW a, NEW f, NEW O PROVE Book!Grants(a, f, O) = Grants(a, f, O)
BY SameFriends, SameMembership DEF Book!Grants, Grants

LEMMA SameContexts == ASSUME NEW r, NEW O PROVE Book!Contexts(r, O) = Contexts(r, O)
BY DEF Book!Contexts, Contexts, Book!Bindings, Bindings, Book!OfKind, OfKind,
       Book!MayCreate, MayCreate, Book!Users, Users, Book!FieldUsers, FieldUsers,
       Book!BindingCreate, BindingCreate, Book!PartiesOf, PartiesOf, Book!FriendOpOk,
       FriendOpOk, Book!IsFriend, IsFriend, Book!IsPlaceholder, IsPlaceholder,
       Book!IsMemberAsOf, IsMemberAsOf, Book!AtOrBefore, AtOrBefore, Book!OrderOf,
       OrderOf, Book!Actor, Actor, Book!Resolve, Resolve, Book!RawActor, RawActor,
       Book!UserIdFor, UserIdFor, Book!IdentityOf, IdentityOf

LEMMA SameStages == ASSUME NEW w, NEW O PROVE Book!Staged(w, O) = Staged(w, O)
BY SameFounders, SameGrants, SameContexts DEF Book!Staged, Staged

LEMMA SameAuthority == ASSUME NEW S PROVE Book!Build(S) = Build(S)
BY SameDevices, SameIdentities, SameStages DEF Book!Build, Build, Book!FromDevices,
       FromDevices, Book!Standing, Standing, Book!RevokedAt, RevokedAt

LEMMA SameEntitled == ASSUME NEW S, NEW a PROVE Book!EntitledOps(S, a) = EntitledOps(S, a)
BY DEF Book!EntitledOps, EntitledOps, Book!Entitled, Entitled, Book!RevokedAt, RevokedAt,
       Book!EntityEntitled, EntityEntitled, Book!MayName, MayName, Book!MayCreate,
       MayCreate, Book!Users, Users, Book!FieldUsers, FieldUsers, Book!PartiesOf,
       PartiesOf, Book!FriendOpOk, FriendOpOk, Book!IsFriend, IsFriend,
       Book!IsPlaceholder, IsPlaceholder, Book!IsMemberAsOf, IsMemberAsOf,
       Book!AliasAuthorized, AliasAuthorized, Book!AtOrBefore, AtOrBefore, Book!OrderOf,
       OrderOf, Book!Actor, Actor, Book!Resolve, Resolve, Book!RawActor, RawActor,
       Book!UserIdFor, UserIdFor, Book!IdentityOf, IdentityOf

LEMMA SameFolder == ASSUME NEW O PROVE Book!FolderOf(O) = FolderOf(O)
BY DEF Book!FolderOf, FolderOf, Book!LastWrites, LastWrites, Book!LastWrite, LastWrite,
       Book!Write, Write, Book!OfKind, OfKind, Book!SettlementData, SettlementData,
       Book!NameWrites, NameWrites, Book!CurrencyWrites, CurrencyWrites,
       Book!ClosedWrites, ClosedWrites, Book!ProfileWrites, ProfileWrites, Book!KeyWrites,
       KeyWrites, Book!GroupWrites, GroupWrites, Book!VersionWrites, VersionWrites,
       Book!LockWrites, LockWrites, Book!SettlementWrites, SettlementWrites, Book!Created,
       Created, Book!Published, Published, Book!Voided, Voided, Book!VoidedSettlements,
       VoidedSettlements

LEMMA SameAssembly == ASSUME NEW f, NEW a PROVE Book!Assemble(f, a) = Assemble(f, a)
BY DEF Book!Assemble, Assemble, Book!ValueOr, ValueOr, Book!DefaultCurrency,
       DefaultCurrency, Book!CurrentMembers, CurrentMembers, Book!DeviceRecords,
       DeviceRecords, Book!ConfirmedFriends, ConfirmedFriends, Book!IsFriend, IsFriend,
       Book!AtOrBefore, AtOrBefore

LEMMA SameProjection == ASSUME NEW S PROVE Book!Project(S) = Project(S)
BY SameAuthority, SameEntitled, SameFolder, SameAssembly DEF Book!Project, Project,
       Book!ReadModel, ReadModel


(* The contents of what was issued.                                        *)
WrittenOK ==
    \A i \in DOMAIN issued :
        /\ issued[i].kind \in {"CreateExpense", "EditExpense"} => issued[i].fields \in Forms
        /\ issued[i].kind = "RecordSettlement" => issued[i].amount \in Int
        /\ issued[i].kind = "CreateGroup" => issued[i].group # NoGroup

LEMMA WrittenStep == AppInv /\ WrittenOK /\ [Next]_vars => WrittenOK'
<1> SUFFICES ASSUME AppInv, WrittenOK, [Next]_vars PROVE WrittenOK'
  OBVIOUS
<1>1. ASSUME NEW d \in Sites, NEW author, NEW c, NEW rest, Issues(d, author, c, rest)
      PROVE  WrittenOK'
  <2>1. PICK op : New(d, op, rest)
    BY <1>1, IssuesNew DEF LedgersOK, AppInv
  <2>2. /\ op.kind \in {"CreateExpense", "EditExpense"} => op.fields \in Forms
        /\ op.kind = "RecordSettlement" => op.amount \in Int
        /\ op.kind = "CreateGroup" => op.group = Fresh("group")
    BY <2>1 DEF New, ByDevice, ByRoot, ByRootOnly
  <2>3. op.kind = "CreateGroup" => op.group # NoGroup
    <3>1. Fresh("group") \in Future("group")
      BY FreshIsNext DEF AppInv
    <3> QED
      BY <2>2, <3>1, EngineAssumption DEF Future
  <2> QED
    BY <2>1, <2>2, <2>3 DEF New, Adds, WrittenOK
<1>2. ASSUME NEW d \in Sites, NEW i \in 1..Len(issued), Ingest(d, i)
      PROVE  WrittenOK'
  BY <1>2 DEF Ingest, WrittenOK
<1>3. CASE Rests
  BY <1>3 DEF Rests, WrittenOK
<1> QED
  BY <1>1, <1>2, <1>3, StepIs DEF AppInv

LEMMA WrittenHolds == Spec => [](AppInv /\ WrittenOK)
<1>1. Init => WrittenOK
  BY DEF Init, WrittenOK
<1> QED
  BY <1>1, AppInit, AppStep, WrittenStep, PTL DEF Spec

(* What people may enter is in balance (Entry), and so is what the devices *)
(* have from earlier days.                                                 *)
EnteredOK ==
    /\ Reader \in Sites
    /\ \A fields \in Forms : Book!InBalance(fields) /\ FieldUsers(fields) \subseteq UserIds
    /\ \A S \in Pasts : \A op \in S : Book!Sound(op)

(* So the invariant of Accounts holds of a device's ledger,                *)
LEMMA ReaderIsLedger == ASSUME EnteredOK PROVE AppInv /\ WrittenOK => Book!LedgerInv
<1> SUFFICES ASSUME AppInv, WrittenOK PROVE Book!LedgerInv
  OBVIOUS
<1>1. /\ OpSet(Held(Reader)) /\ Held(Reader) \subseteq Known
      /\ view[Reader] = Project(Held(Reader))
  BY HeldAreOps DEF AppInv, LedgersOK, HeldOK, EnteredOK
<1>2. ASSUME NEW op \in Known PROVE Book!Sound(op)
  <2>1. CASE op \in past
    BY <2>1 DEF EnteredOK, AppInv, LedgersOK, OpsOK
  <2>2. CASE \E i \in DOMAIN issued : op = issued[i]
    <3>1. OpOK(op)
      BY DEF AppInv, LedgersOK, OpsOK
    <3>2. /\ op.kind \in {"CreateExpense", "EditExpense"} =>
                 Book!InBalance(op.fields) /\ FieldUsers(op.fields) \subseteq UserIds
          /\ op.kind = "RecordSettlement" => op.amount \in Int
          /\ op.kind = "CreateGroup" => op.group # NoGroup
      BY <2>2 DEF WrittenOK, EnteredOK
    <3>3. Book!FieldUsers(op.fields) = FieldUsers(op.fields)
      BY DEF Book!FieldUsers, FieldUsers
    <3> QED
      BY <3>1, <3>2, <3>3 DEF OpOK, Book!Sound, UserIds
  <2> QED
    BY <2>1, <2>2 DEF Known
<1>3. Book!IsFiniteSet(Held(Reader))
  BY <1>1 DEF OpSet, IsFiniteSet, Book!IsFiniteSet
<1>4. Book!Arrived(Held(Reader))
  BY <1>1, <1>2, <1>3 DEF Book!Arrived
<1>5. view[Reader] = Book!Project(Held(Reader))
  BY <1>1, SameProjection
<1> QED
  BY <1>4, <1>5 DEF Book!LedgerInv, book

(* and a later read model is of all that an earlier one showed.            *)
LEMMA ReaderGrows ==
    ASSUME Reader \in Sites
    PROVE  AppInv /\ [Next]_vars => [book.of \subseteq book'.of]_book
<1> SUFFICES ASSUME AppInv, [Next]_vars PROVE Held(Reader) \subseteq Held(Reader)'
  BY DEF book
<1>1. ASSUME NEW d \in Sites, NEW author, NEW c, NEW rest, Issues(d, author, c, rest)
      PROVE  Held(Reader) \subseteq Held(Reader)'
  <2>1. PICK op : New(d, op, rest)
    BY <1>1, IssuesNew DEF LedgersOK, AppInv
  <2> QED
    BY <2>1, NewGrown DEF New, Grown, AppInv
<1>2. ASSUME NEW d \in Sites, NEW i \in 1..Len(issued), Ingest(d, i)
      PROVE  Held(Reader) \subseteq Held(Reader)'
  <2>1. Hears(d, i)
    BY <1>2, IngestHeld DEF AppInv, LedgersOK
  <2> QED
    BY <2>1 DEF Hears
<1>3. CASE Rests
  BY <1>3 DEF Rests, Held
<1> QED
  BY <1>1, <1>2, <1>3, StepIs DEF AppInv

(* Whatever the people do with their devices, however commits fail and     *)
(* processes end and in whatever order ops arrive, every device keeps the  *)
(* books: balances sum to zero, move with claims as merges say, and agree  *)
(* with the views of them and with the screens, members were admitted and  *)
(* names are their own; and contexts are as shown, unless two ops that the *)
(* device holds share a reading.                                           *)
THEOREM DevicesKeepBooks ==
    ASSUME EnteredOK
    PROVE  Spec => /\ [](/\ Book!ZeroSum /\ Book!PairwiseReconciles /\ Book!GroupsReconcile
                         /\ Book!ScreensAgree
                         /\ Book!NoSelfAdmission /\ Book!OwnersNameThemselves
                         /\ Book!Apart(Held(Reader)) => Book!ContextsAgree)
                   /\ Book!MergesAddUp
<1>1. Book!LedgerInv =>
          /\ Book!ZeroSum /\ Book!PairwiseReconciles /\ Book!GroupsReconcile
          /\ Book!ScreensAgree
          /\ Book!NoSelfAdmission /\ Book!OwnersNameThemselves
          /\ Book!Apart(Held(Reader)) => Book!ContextsAgree
  BY Book!NetsSumToZero, Book!DebtsAdd, Book!GroupsAdd, Book!ScreensAdd,
     Book!MembersAdmitted, Book!OwnersName, Book!BoundAsShown
     DEF Book!KindsAssumption, Book!IdsAssumption, Book!AmountsAssumption, Book!OpPoolAssumption
<1>2. Book!LedgerInv /\ Book!LedgerInv' /\ [book.of \subseteq book'.of]_book =>
          [Book!OnlyMerges /\ Book!SameLedger =>
             Book!NetBalances(book'.model)
               = Book!Merged(Book!NetBalances(book.model), book'.model)]_book
  BY Book!NetsMoved
     DEF Book!KindsAssumption, Book!IdsAssumption, Book!AmountsAssumption, Book!OpPoolAssumption
<1> QED
  BY <1>1, <1>2, WrittenHolds, ReaderIsLedger, ReaderGrows, PTL DEF EnteredOK, Spec, Book!MergesAddUp

(* And when all that reaches a device are removals and revocations later   *)
(* than every op it holds, its expenses and settlements stay as they were, *)
(* unless two of its ops share a reading.                                  *)
THEOREM RemovalsKeepPast ==
    ASSUME EnteredOK
    PROVE  Spec => [][Book!Apart(Held(Reader))'
                        /\ (\A op \in book'.of \ book.of : Book!LaterRemoval(op, book.of))
                      => /\ book'.model.expenses = book.model.expenses
                         /\ book'.model.settlements = book.model.settlements]_book
<1>1. Book!LedgerInv /\ Book!LedgerInv' /\ [book.of \subseteq book'.of]_book =>
          [Book!Apart(Held(Reader))'
             /\ (\A op \in book'.of \ book.of : Book!LaterRemoval(op, book.of))
           => /\ book'.model.expenses = book.model.expenses
              /\ book'.model.settlements = book.model.settlements]_book
  BY Book!PastKept
     DEF Book!KindsAssumption, Book!IdsAssumption, Book!AmountsAssumption, Book!OpPoolAssumption
<1> QED
  BY <1>1, WrittenHolds, ReaderIsLedger, ReaderGrows, PTL DEF EnteredOK, Spec
=============================================================================
