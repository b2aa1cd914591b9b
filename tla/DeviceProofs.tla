---------------------------- MODULE DeviceProofs ----------------------------
(***************************************************************************)
(* What a device keeps, for every set of seeds, keys, PINs and salts and   *)
(* wherever its process ends.  The argument has three layers: which        *)
(* identity the stored keys belong to (Enrolment), under which PIN the     *)
(* vault is sealed at each step of a procedure (Lockstep), and when the    *)
(* seed may be in clear (InClear).                                         *)
(***************************************************************************)
EXTENDS Device, TLAPS

Typed ==
    /\ plain \in Seeds \cup {None}
    /\ dbkey \in Keys \cup {None}
    /\ salt \in Salts \cup {None}
    /\ old \in Pins /\ new \in Pins
    /\ pc \in {"idle", "set_salt", "set_hash", "set_seal", "set_drop", "reseal", "change_salt",
               "change_hash", "unseal", "discard", "clear_hash", "clear_salt", "migrate",
               "migrate_drop"}

SealedUnder(pin) ==
    vault # None => \E s \in Salts, seed \in Seeds :
        KeyPair(seed) = idpub /\ vault = SealSeed(pin, s, seed)

(* Before the identity is recorded only a first run can have enrolled the  *)
(* device, with the seed that is still in clear.                           *)
NotRecorded ==
    /\ vault = None /\ hash = None /\ pc = "idle"
    /\ engine \in {"closed", "enrolled"}
    /\ log # None => plain # None /\ dbkey # None /\ log = Seal(dbkey, KeyPair(plain))
    /\ engine = "enrolled" => log # None /\ me = KeyPair(plain)

(* From then on every key there is belongs to it.                          *)
Recorded ==
    /\ idpub \in {KeyPair(seed) : seed \in Seeds}
    /\ dbkey # None /\ log = Seal(dbkey, idpub)
    /\ engine \in {"closed", "open"}
    /\ engine = "open" => me = idpub
    /\ plain # None \/ vault # None
    /\ plain # None => KeyPair(plain) = idpub
    /\ \E pin \in Pins : SealedUnder(pin)
    /\ pc = "discard" => plain # None
    /\ pc \in {"set_drop", "migrate_drop"} => vault # None

Screens ==
    /\ screen \in {"off", "onboarding"} => engine = "closed" /\ pc = "idle"
    /\ screen = "onboarding" => idpub = None /\ log = None

Enrolment ==
    /\ idpub = None => NotRecorded
    /\ idpub # None => Recorded
    /\ Screens

(* The vault follows the lock, but within a change of the PIN.             *)
LockFollowed ==
    /\ hash = None => vault = None
    /\ hash # None => \E pin \in Pins : hash = HashPin(pin, salt) /\ SealedUnder(pin)

Lockstep ==
    /\ "change" \notin broken /\ pc \notin {"change_salt", "change_hash"} => LockFollowed
    /\ pc \in {"set_salt", "set_hash"} => hash = None
    /\ pc \in {"set_seal", "set_drop", "migrate", "migrate_drop"} => hash = HashPin(new, salt)
    /\ pc \in {"set_drop", "migrate_drop", "change_salt", "change_hash"} => SealedUnder(new)
    /\ pc \in {"clear_hash", "clear_salt"} => vault = None
    /\ pc = "clear_salt" => hash = None
    /\ pc \in {"reseal", "change_salt", "change_hash"} => hash # None

InClear ==
    hash # None /\ broken \cap {"set", "remove", "unlock"} = {}
        /\ pc \in {"idle", "reseal", "change_salt", "change_hash", "unseal"}
    => plain = None

DeviceInv == Typed /\ Enrolment /\ Lockstep /\ InClear

-----------------------------------------------------------------------------
(* What the cryptography gives: a seal opens with its own key only, and    *)
(* nothing that is stored is None.                                         *)
LEMMA SealedOpens ==
    ASSUME NEW pin, NEW other, NEW s, NEW seed
    PROVE  /\ OpenSeed(pin, SealSeed(pin, s, seed)) = seed
           /\ pin # other => OpenSeed(other, SealSeed(pin, s, seed)) = None
BY DEF OpenSeed, SealSeed, Open, Seal, DeriveKey

LEMMA StoredIsSome ==
    ASSUME NEW seed \in Seeds
    PROVE  /\ seed # None /\ KeyPair(seed) # None
           /\ \A key \in Keys : key # None /\ Seal(key, KeyPair(seed)) # None
           /\ \A pin \in Pins, s \in Salts : SealSeed(pin, s, seed) # None
BY DeviceAssumption

LEMMA HashIsSome ==
    ASSUME NEW pin \in Pins, NEW s \in Salts \cup {None}
    PROVE  HashPin(pin, s) # None
BY DeviceAssumption DEF HashPin

LEMMA LogKeyOpens ==
    ASSUME NEW key, NEW pair
    PROVE  Open(key, Seal(key, pair)) = pair
BY DEF Open, Seal

LEMMA PinsTold ==
    ASSUME NEW pin, NEW other, NEW s, HashPin(pin, s) = HashPin(other, s)
    PROVE  pin = other
BY DEF HashPin

(* A phrase that is accepted gives a seed.                                 *)
LEMMA PhraseGivesSeed ==
    ASSUME NEW phrase \in Phrases, SeedFromPhrase(phrase) # None
    PROVE  SeedFromPhrase(phrase) \in Seeds
BY DEF Phrases, SeedFromPhrase

(* A PIN that opens the vault is the one it is sealed under, and finds the *)
(* identity's seed.                                                        *)
LEMMA OpenedIsOurs ==
    ASSUME Recorded, NEW pin \in Pins, vault # None, OpenSeed(pin, vault) # None
    PROVE  /\ OpenSeed(pin, vault) \in Seeds
           /\ KeyPair(OpenSeed(pin, vault)) = idpub
           /\ SealedUnder(pin)
<1>1. PICK other \in Pins, s \in Salts, seed \in Seeds :
          KeyPair(seed) = idpub /\ vault = SealSeed(other, s, seed)
  BY DEF Recorded, SealedUnder
<1>2. pin = other
  BY <1>1, SealedOpens
<1> QED
  BY <1>1, <1>2, SealedOpens DEF SealedUnder
-----------------------------------------------------------------------------
(* Each layer holds at first and is kept by every step.                    *)
LEMMA InitInv == Init => DeviceInv
BY StoredIsSome DEF Init, DeviceInv, Typed, Enrolment, NotRecorded, Screens, Lockstep, LockFollowed, InClear

(* What is stored and typed in is of its kind.                             *)
LEMMA TypedKept == DeviceInv /\ [Next]_vars => Typed'
<1> SUFFICES ASSUME DeviceInv, [Next]_vars PROVE Typed'
  OBVIOUS
<1> USE StoredIsSome DEF DeviceInv, Typed, Enrolment, NotRecorded, Recorded, storage
<1>1. CASE Start
  BY <1>1 DEF Start, Established, Home
<1>2. ASSUME NEW seed \in Seeds, NEW confirmed \in BOOLEAN, CreateNew(seed, confirmed) PROVE Typed'
  BY <1>2 DEF CreateNew, Home
<1>3. ASSUME NEW phrase \in Phrases, Restore(phrase) PROVE Typed'
  BY <1>3, PhraseGivesSeed DEF Restore, Home
<1>4. ASSUME NEW key \in Keys, CreateDbKey(key) PROVE Typed'
  BY <1>4 DEF CreateDbKey
<1>5. CASE OpenDeviceOnly
  BY <1>5, LogKeyOpens DEF OpenDeviceOnly, LogOpens, Certified
<1>6. ASSUME NEW seed \in Seeds, OpenFull(seed) PROVE Typed'
  BY <1>6, LogKeyOpens DEF OpenFull, LogOpens
<1>7. CASE RecordIdentity
  BY <1>7 DEF RecordIdentity
<1>8. ASSUME NEW pin \in Pins, SetUpPin(pin) PROVE Typed'
  BY <1>8 DEF SetUpPin, Begin
<1>9. ASSUME NEW pin \in Pins, RemovePin(pin) PROVE Typed'
  BY <1>9 DEF RemovePin, Begin
<1>10. ASSUME NEW pin \in Pins, UnlockWithPin(pin) PROVE Typed'
  BY <1>10, PinsTold, HashIsSome DEF UnlockWithPin, Begin
<1>11. ASSUME NEW from \in Pins, NEW to \in Pins, ChangePin(from, to) PROVE Typed'
  BY <1>11 DEF ChangePin, Begin
<1>12. CASE UnlockWithBiometrics
  BY <1>12 DEF UnlockWithBiometrics
<1>13. CASE Lock
  BY <1>13 DEF Lock
<1>14. ASSUME NEW s \in Salts, WriteSalt(s) PROVE Typed'
  BY <1>14 DEF WriteSalt, Goto
<1>15. ASSUME NEW s \in Salts, SealRoot(s) PROVE Typed'
  BY <1>15 DEF SealRoot, Goto, Mended
<1>16. ASSUME NEW s \in Salts, Reseal(s) PROVE Typed'
  BY <1>16, OpenedIsOurs DEF Reseal, Goto
<1>17. CASE WriteHash
  BY <1>17, HashIsSome DEF WriteHash, Goto, Mended
<1>18. CASE DropPlain
  BY <1>18 DEF DropPlain, Goto, Mended
<1>19. CASE Unseal
  BY <1>19, OpenedIsOurs DEF Unseal, Goto
<1>20. CASE Discard
  BY <1>20 DEF Discard, Goto
<1>21. CASE ClearHash
  BY <1>21 DEF ClearHash, Goto
<1>22. CASE ClearSalt
  BY <1>22 DEF ClearSalt, Goto, Mended
<1>23. CASE Crash
  BY <1>23 DEF Crash, Goto, Procedure
<1>24. CASE UNCHANGED vars
  BY <1>24 DEF vars
<1> QED
  BY <1>1, <1>2, <1>3, <1>4, <1>5, <1>6, <1>7, <1>8, <1>9, <1>10, <1>11,
     <1>12, <1>13, <1>14, <1>15, <1>16, <1>17, <1>18, <1>19, <1>20,
     <1>21, <1>22, <1>23, <1>24 DEF Next, Step

(* The keys that are stored belong to one identity.                        *)
LEMMA EnrolmentKept == DeviceInv /\ [Next]_vars => Enrolment'
<1> SUFFICES ASSUME DeviceInv, [Next]_vars PROVE Enrolment'
  OBVIOUS
<1> USE StoredIsSome DEF DeviceInv, Typed, Enrolment, NotRecorded, Recorded, Screens, SealedUnder, storage
<1>1. CASE Start
  BY <1>1 DEF Start, Established, Home
<1>2. ASSUME NEW seed \in Seeds, NEW confirmed \in BOOLEAN, CreateNew(seed, confirmed) PROVE Enrolment'
  BY <1>2 DEF CreateNew, Home
<1>3. ASSUME NEW phrase \in Phrases, Restore(phrase) PROVE Enrolment'
  BY <1>3, PhraseGivesSeed DEF Restore, Home
<1>4. ASSUME NEW key \in Keys, CreateDbKey(key) PROVE Enrolment'
  BY <1>4 DEF CreateDbKey
<1>5. CASE OpenDeviceOnly
  BY <1>5, LogKeyOpens DEF OpenDeviceOnly, LogOpens, Certified
<1>6. ASSUME NEW seed \in Seeds, OpenFull(seed) PROVE Enrolment'
  BY <1>6, LogKeyOpens DEF OpenFull, LogOpens
<1>7. CASE RecordIdentity
  BY <1>7 DEF RecordIdentity
<1>8. ASSUME NEW pin \in Pins, SetUpPin(pin) PROVE Enrolment'
  BY <1>8 DEF SetUpPin, Begin
<1>9. ASSUME NEW pin \in Pins, RemovePin(pin) PROVE Enrolment'
  BY <1>9 DEF RemovePin, Begin
<1>10. ASSUME NEW pin \in Pins, UnlockWithPin(pin) PROVE Enrolment'
  BY <1>10, PinsTold, HashIsSome DEF UnlockWithPin, Begin
<1>11. ASSUME NEW from \in Pins, NEW to \in Pins, ChangePin(from, to) PROVE Enrolment'
  BY <1>11 DEF ChangePin, Begin
<1>12. CASE UnlockWithBiometrics
  BY <1>12 DEF UnlockWithBiometrics
<1>13. CASE Lock
  BY <1>13 DEF Lock
<1>14. ASSUME NEW s \in Salts, WriteSalt(s) PROVE Enrolment'
  BY <1>14 DEF WriteSalt, Goto
<1>15. ASSUME NEW s \in Salts, SealRoot(s) PROVE Enrolment'
  BY <1>15 DEF SealRoot, Goto, Mended
<1>16. ASSUME NEW s \in Salts, Reseal(s) PROVE Enrolment'
  BY <1>16, OpenedIsOurs DEF Reseal, Goto
<1>17. CASE WriteHash
  BY <1>17, HashIsSome DEF WriteHash, Goto, Mended
<1>18. CASE DropPlain
  BY <1>18 DEF DropPlain, Goto, Mended
<1>19. CASE Unseal
  BY <1>19, OpenedIsOurs DEF Unseal, Goto
<1>20. CASE Discard
  BY <1>20 DEF Discard, Goto
<1>21. CASE ClearHash
  BY <1>21 DEF ClearHash, Goto
<1>22. CASE ClearSalt
  BY <1>22 DEF ClearSalt, Goto, Mended
<1>23. CASE Crash
  BY <1>23 DEF Crash, Goto, Procedure
<1>24. CASE UNCHANGED vars
  BY <1>24 DEF vars
<1> QED
  BY <1>1, <1>2, <1>3, <1>4, <1>5, <1>6, <1>7, <1>8, <1>9, <1>10, <1>11,
     <1>12, <1>13, <1>14, <1>15, <1>16, <1>17, <1>18, <1>19, <1>20,
     <1>21, <1>22, <1>23, <1>24 DEF Next, Step

(* The vault follows the lock.                                             *)
LEMMA LockstepKept == DeviceInv /\ [Next]_vars => Lockstep'
<1> SUFFICES ASSUME DeviceInv, [Next]_vars PROVE Lockstep'
  OBVIOUS
<1> USE StoredIsSome DEF DeviceInv, Typed, Enrolment, NotRecorded, Recorded, Screens, SealedUnder, Lockstep, LockFollowed, storage
<1>1. CASE Start
  BY <1>1 DEF Start, Established, Home
<1>2. ASSUME NEW seed \in Seeds, NEW confirmed \in BOOLEAN, CreateNew(seed, confirmed) PROVE Lockstep'
  BY <1>2 DEF CreateNew, Home
<1>3. ASSUME NEW phrase \in Phrases, Restore(phrase) PROVE Lockstep'
  BY <1>3, PhraseGivesSeed DEF Restore, Home
<1>4. ASSUME NEW key \in Keys, CreateDbKey(key) PROVE Lockstep'
  BY <1>4 DEF CreateDbKey
<1>5. CASE OpenDeviceOnly
  BY <1>5, LogKeyOpens DEF OpenDeviceOnly, LogOpens, Certified
<1>6. ASSUME NEW seed \in Seeds, OpenFull(seed) PROVE Lockstep'
  BY <1>6, LogKeyOpens DEF OpenFull, LogOpens
<1>7. CASE RecordIdentity
  BY <1>7 DEF RecordIdentity
<1>8. ASSUME NEW pin \in Pins, SetUpPin(pin) PROVE Lockstep'
  BY <1>8 DEF SetUpPin, Begin
<1>9. ASSUME NEW pin \in Pins, RemovePin(pin) PROVE Lockstep'
  BY <1>9 DEF RemovePin, Begin
<1>10. ASSUME NEW pin \in Pins, UnlockWithPin(pin) PROVE Lockstep'
  BY <1>10, PinsTold, HashIsSome DEF UnlockWithPin, Begin
<1>11. ASSUME NEW from \in Pins, NEW to \in Pins, ChangePin(from, to) PROVE Lockstep'
  BY <1>11 DEF ChangePin, Begin
<1>12. CASE UnlockWithBiometrics
  BY <1>12 DEF UnlockWithBiometrics
<1>13. CASE Lock
  BY <1>13 DEF Lock
<1>14. ASSUME NEW s \in Salts, WriteSalt(s) PROVE Lockstep'
  BY <1>14 DEF WriteSalt, Goto
<1>15. ASSUME NEW s \in Salts, SealRoot(s) PROVE Lockstep'
  <2>1. CASE plain = None
    BY <1>15, <2>1 DEF SealRoot, Goto, Mended
  <2>2. CASE plain # None
    <3>1. idpub # None /\ KeyPair(plain) = idpub /\ plain \in Seeds
      BY <1>15, <2>2 DEF SealRoot
    <3>2. vault' = SealSeed(new, s, plain) /\ new' = new /\ idpub' = idpub
      BY <1>15, <2>2 DEF SealRoot, Goto
    <3>3. SealedUnder(new)'
      BY <3>1, <3>2
    <3> QED
      BY <1>15, <2>2, <3>2, <3>3, HashIsSome DEF SealRoot, Goto
  <2> QED
    BY <2>1, <2>2
<1>16. ASSUME NEW s \in Salts, Reseal(s) PROVE Lockstep'
  BY <1>16, OpenedIsOurs DEF Reseal, Goto
<1>17. CASE WriteHash
  BY <1>17, HashIsSome DEF WriteHash, Goto, Mended
<1>18. CASE DropPlain
  BY <1>18 DEF DropPlain, Goto, Mended
<1>19. CASE Unseal
  BY <1>19, OpenedIsOurs DEF Unseal, Goto
<1>20. CASE Discard
  BY <1>20 DEF Discard, Goto
<1>21. CASE ClearHash
  BY <1>21 DEF ClearHash, Goto
<1>22. CASE ClearSalt
  BY <1>22 DEF ClearSalt, Goto, Mended
<1>23. CASE Crash
  <2>1. pc \in {"change_salt", "change_hash"} => "change" \in broken'
    BY <1>23 DEF Crash, Procedure
  <2>2. "change" \in broken => "change" \in broken'
    BY <1>23 DEF Crash
  <2> QED
    BY <1>23, <2>1, <2>2 DEF Crash, Goto
<1>24. CASE UNCHANGED vars
  BY <1>24 DEF vars
<1> QED
  BY <1>1, <1>2, <1>3, <1>4, <1>5, <1>6, <1>7, <1>8, <1>9, <1>10, <1>11,
     <1>12, <1>13, <1>14, <1>15, <1>16, <1>17, <1>18, <1>19, <1>20,
     <1>21, <1>22, <1>23, <1>24 DEF Next, Step

(* The seed is not in clear under a lock.                                  *)
LEMMA InClearKept == DeviceInv /\ [Next]_vars => InClear'
<1> SUFFICES ASSUME DeviceInv, [Next]_vars PROVE InClear'
  OBVIOUS
<1> USE StoredIsSome DEF DeviceInv, Typed, Enrolment, NotRecorded, Recorded, Screens, Lockstep, InClear, storage
<1>1. CASE Start
  BY <1>1 DEF Start, Established, Home
<1>2. ASSUME NEW seed \in Seeds, NEW confirmed \in BOOLEAN, CreateNew(seed, confirmed) PROVE InClear'
  BY <1>2 DEF CreateNew, Home
<1>3. ASSUME NEW phrase \in Phrases, Restore(phrase) PROVE InClear'
  BY <1>3, PhraseGivesSeed DEF Restore, Home
<1>4. ASSUME NEW key \in Keys, CreateDbKey(key) PROVE InClear'
  BY <1>4 DEF CreateDbKey
<1>5. CASE OpenDeviceOnly
  BY <1>5, LogKeyOpens DEF OpenDeviceOnly, LogOpens, Certified
<1>6. ASSUME NEW seed \in Seeds, OpenFull(seed) PROVE InClear'
  BY <1>6, LogKeyOpens DEF OpenFull, LogOpens
<1>7. CASE RecordIdentity
  BY <1>7 DEF RecordIdentity
<1>8. ASSUME NEW pin \in Pins, SetUpPin(pin) PROVE InClear'
  BY <1>8 DEF SetUpPin, Begin
<1>9. ASSUME NEW pin \in Pins, RemovePin(pin) PROVE InClear'
  BY <1>9 DEF RemovePin, Begin
<1>10. ASSUME NEW pin \in Pins, UnlockWithPin(pin) PROVE InClear'
  BY <1>10, PinsTold, HashIsSome DEF UnlockWithPin, Begin
<1>11. ASSUME NEW from \in Pins, NEW to \in Pins, ChangePin(from, to) PROVE InClear'
  BY <1>11 DEF ChangePin, Begin
<1>12. CASE UnlockWithBiometrics
  BY <1>12 DEF UnlockWithBiometrics
<1>13. CASE Lock
  BY <1>13 DEF Lock
<1>14. ASSUME NEW s \in Salts, WriteSalt(s) PROVE InClear'
  BY <1>14 DEF WriteSalt, Goto
<1>15. ASSUME NEW s \in Salts, SealRoot(s) PROVE InClear'
  BY <1>15 DEF SealRoot, Goto, Mended
<1>16. ASSUME NEW s \in Salts, Reseal(s) PROVE InClear'
  BY <1>16, OpenedIsOurs DEF Reseal, Goto
<1>17. CASE WriteHash
  BY <1>17, HashIsSome DEF WriteHash, Goto, Mended
<1>18. CASE DropPlain
  BY <1>18 DEF DropPlain, Goto, Mended
<1>19. CASE Unseal
  BY <1>19, OpenedIsOurs DEF Unseal, Goto
<1>20. CASE Discard
  BY <1>20 DEF Discard, Goto
<1>21. CASE ClearHash
  BY <1>21 DEF ClearHash, Goto
<1>22. CASE ClearSalt
  BY <1>22 DEF ClearSalt, Goto, Mended
<1>23. CASE Crash
  <2>1. pc \in {"set_salt", "set_hash", "set_seal", "set_drop", "unseal", "discard",
                 "clear_hash", "clear_salt", "migrate", "migrate_drop"}
            => broken' \cap {"set", "remove", "unlock"} # {}
    BY <1>23 DEF Crash, Procedure
  <2>2. broken \subseteq broken'
    BY <1>23 DEF Crash
  <2>3. broken' \cap {"set", "remove", "unlock"} = {} => broken \cap {"set", "remove", "unlock"} = {}
    BY <2>2
  <2> QED
    BY <1>23, <2>1, <2>3 DEF Crash, Goto
<1>24. CASE UNCHANGED vars
  BY <1>24 DEF vars
<1> QED
  BY <1>1, <1>2, <1>3, <1>4, <1>5, <1>6, <1>7, <1>8, <1>9, <1>10, <1>11,
     <1>12, <1>13, <1>14, <1>15, <1>16, <1>17, <1>18, <1>19, <1>20,
     <1>21, <1>22, <1>23, <1>24 DEF Next, Step

LEMMA StepInv == DeviceInv /\ [Next]_vars => DeviceInv'
BY TypedKept, EnrolmentKept, LockstepKept, InClearKept DEF DeviceInv

(* The inductive invariant holds in every behaviour of every device.       *)
THEOREM DeviceIsSound == Spec => []DeviceInv
BY InitInv, StepInv, PTL DEF Spec

-----------------------------------------------------------------------------
(* What follows from it.                                                   *)
LEMMA LogOpensAlways == DeviceInv => LogOpens
<1> SUFFICES ASSUME DeviceInv, log # None PROVE Open(dbkey, log) # None
  BY DEF LogOpens
<1>1. PICK pair : pair # None /\ log = Seal(dbkey, pair)
  BY StoredIsSome DEF DeviceInv, Typed, Enrolment, NotRecorded, Recorded
<1> QED
  BY <1>1, LogKeyOpens

LEMMA KeptByInv == DeviceInv => KeysKept
<1> SUFFICES ASSUME DeviceInv, idpub # None
             PROVE  /\ plain # None \/ vault # None
                    /\ plain # None => IsOfIdentity(plain)
                    /\ vault # None => \E pin \in Pins : IsOfIdentity(OpenSeed(pin, vault))
  BY LogOpensAlways DEF KeysKept
<1>1. Recorded
  BY DEF DeviceInv, Enrolment
<1>2. ASSUME vault # None
      PROVE  \E pin \in Pins : IsOfIdentity(OpenSeed(pin, vault))
  <2>1. PICK pin \in Pins, s \in Salts, seed \in Seeds :
            KeyPair(seed) = idpub /\ vault = SealSeed(pin, s, seed)
    BY <1>1, <1>2 DEF Recorded, SealedUnder
  <2>2. OpenSeed(pin, vault) = seed
    BY <2>1, SealedOpens
  <2> QED
    BY <2>1, <2>2, StoredIsSome DEF IsOfIdentity
<1> QED
  BY <1>1, <1>2 DEF Recorded, IsOfIdentity

LEMMA OpensByInv == DeviceInv => AlwaysOpens
BY LogKeyOpens DEF DeviceInv, Enrolment, NotRecorded, Recorded, AlwaysOpens

LEMMA SyncByInv == DeviceInv => InSync
<1> SUFFICES ASSUME DeviceInv, pc = "idle", "change" \notin broken, hash # None
             PROVE  \E pin \in Pins : hash = HashPin(pin, salt) /\ IsOfIdentity(LoadSeed(pin))
  BY DEF InSync, DeviceInv, Lockstep, LockFollowed
<1>1. PICK pin \in Pins : hash = HashPin(pin, salt) /\ SealedUnder(pin)
  BY DEF DeviceInv, Lockstep, LockFollowed
<1>2. Recorded
  BY DEF DeviceInv, Enrolment, NotRecorded
<1>3. CASE vault = None
  BY <1>1, <1>2, <1>3 DEF LoadSeed, IsOfIdentity, Recorded
<1>4. CASE vault # None
  <2>1. PICK s \in Salts, seed \in Seeds : KeyPair(seed) = idpub /\ vault = SealSeed(pin, s, seed)
    BY <1>1, <1>4 DEF SealedUnder
  <2>2. LoadSeed(pin) = seed
    BY <1>4, <2>1, SealedOpens DEF LoadSeed
  <2> QED
    BY <1>1, <2>1, <2>2, StoredIsSome DEF IsOfIdentity
<1> QED
  BY <1>3, <1>4

(* No key of the device is ever lost, wherever the process ends.           *)
THEOREM NoKeyIsLost == Spec => []KeysKept
BY DeviceIsSound, KeptByInv, PTL

(* The engine never fails to open and never runs as a second identity.     *)
THEOREM EngineAlwaysOpens == Spec => []AlwaysOpens
BY DeviceIsSound, OpensByInv, PTL

(* A PIN that opens the lock opens the root, unless a change of it was cut *)
(* short.                                                                  *)
THEOREM LockAndRootInSync == Spec => []InSync
BY DeviceIsSound, SyncByInv, PTL

(* Under a lock the seed is sealed, unless sealing it was cut short.       *)
THEOREM SeedSealedAtRest == Spec => []SealedAtRest
<1>1. DeviceInv => SealedAtRest
  BY DEF DeviceInv, InClear, SealedAtRest
<1> QED
  BY <1>1, DeviceIsSound, PTL
=============================================================================
