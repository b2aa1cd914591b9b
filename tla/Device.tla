------------------------------- MODULE Device -------------------------------
(***************************************************************************)
(* The keys of one device and the app lock that seals its root key (the    *)
(* Flutter shell: lib/state and the screens that use it; splittr-crypto's  *)
(* vault and recovery phrase): what is in its secret storage, step by step *)
(* as each write is awaited, and the launch of the engine.  The process    *)
(* may end between any two steps.                                          *)
(*                                                                         *)
(* The device has a keystore.  Without one no PIN can be set, and with one *)
(* the db key is never sealed (PinSealedKey.skipWhenKeystore).             *)
(***************************************************************************)

EXTENDS Signatures, Secrets

CONSTANTS Seeds, Keys, Pins, Salts

ASSUME DeviceAssumption ==
    None \notin Seeds \cup Keys \cup Salts \cup {KeyPair(seed) : seed \in Seeds}
              \cup (Pins \X (Salts \cup {None}))
              \cup {SealSeed(pin, s, seed) : pin \in Pins, s \in Salts, seed \in Seeds}
              \cup {Seal(key, KeyPair(seed)) : key \in Keys, seed \in Seeds}

VARIABLES
    plain,          \* the identity seed in clear
    vault,          \* the identity seed sealed under a PIN
    idpub,          \* the identity public key
    dbkey,          \* the key of the op-log
    salt, hash,     \* of the app lock's PIN
    log,            \* the op-log on disk, sealed: the identity that
                    \* certifies this device, or None when it has no ops
    screen,         \* "off", "onboarding", "locked" or "shell"
    engine,         \* "closed", "enrolled", "open" or "failed"
    me,             \* the identity the engine runs with
    pc,             \* the next step of the procedure on the app lock
    old, new,       \* the PINs it was given
    broken          \* history: procedures cut short by the end of a process

storage == <<plain, vault, idpub, dbkey, salt, hash, log>>
vars == <<storage, screen, engine, me, pc, old, new, broken>>

Init ==
    /\ plain = None /\ vault = None /\ idpub = None /\ dbkey = None
    /\ salt = None /\ hash = None /\ log = None
    /\ screen = "off" /\ engine = "closed" /\ me = None
    /\ pc = "idle" /\ old \in Pins /\ new = old
    /\ broken = {}

HashPin(pin, s) == <<pin, s>>

Established == idpub # None \/ plain # None \/ vault # None

-----------------------------------------------------------------------------
(* The process starts: the identity gate, then the lock gate.              *)
Home == IF hash = None THEN "shell" ELSE "locked"

Start ==
    /\ screen = "off"
    /\ screen' = IF Established THEN Home ELSE "onboarding"
    /\ UNCHANGED <<storage, engine, me, pc, old, new, broken>>

(* A new identity is written before the user confirms that its phrase is   *)
(* written down, which he may leave.                                       *)
CreateNew(seed, confirmed) ==
    /\ screen = "onboarding"
    /\ plain' = seed
    /\ screen' = IF confirmed THEN Home ELSE screen
    /\ UNCHANGED <<vault, idpub, dbkey, salt, hash, log, engine, me, pc, old, new, broken>>

(* A phrase that is not one is refused.                                    *)
Restore(phrase) ==
    /\ screen = "onboarding"
    /\ SeedFromPhrase(phrase) # None
    /\ plain' = SeedFromPhrase(phrase)
    /\ screen' = Home
    /\ UNCHANGED <<vault, idpub, dbkey, salt, hash, log, engine, me, pc, old, new, broken>>

-----------------------------------------------------------------------------
(* The launch of the engine, once the shell shows.                         *)
CreateDbKey(key) ==
    /\ screen = "shell" /\ engine = "closed" /\ dbkey = None
    /\ dbkey' = key
    /\ UNCHANGED <<plain, vault, idpub, salt, hash, log,
                   screen, engine, me, pc, old, new, broken>>

(* Every op there is must open under the key.                              *)
LogOpens == log = None \/ Open(dbkey, log) # None

Certified == log # None /\ LogOpens

(* Every day: the root key stays locked, the device must be enrolled.      *)
OpenDeviceOnly ==
    /\ screen = "shell" /\ engine = "closed" /\ dbkey # None /\ idpub # None
    /\ engine' = IF Certified THEN "open" ELSE "failed"
    /\ me' = idpub
    /\ UNCHANGED <<storage, screen, pc, old, new, broken>>

\* (mutated form: the public key is recorded before the full open)
RecordFirst(seed) ==
    /\ screen = "shell" /\ engine = "closed" /\ dbkey # None /\ idpub = None
    /\ plain # None => seed = plain
    /\ plain' = seed
    /\ idpub' = KeyPair(seed)
    /\ UNCHANGED <<vault, dbkey, salt, hash, log, screen, engine, me, pc, old, new, broken>>

(* First run: a full open enrols this device.                              *)
OpenFull(seed) ==
    /\ screen = "shell" /\ engine = "closed" /\ dbkey # None /\ idpub = None
    /\ plain # None => seed = plain
    /\ plain' = seed
    /\ log' = IF log = None THEN Seal(dbkey, KeyPair(seed)) ELSE log
    /\ engine' = IF LogOpens THEN "enrolled" ELSE "failed"
    /\ me' = KeyPair(seed)
    /\ UNCHANGED <<vault, idpub, dbkey, salt, hash, screen, pc, old, new, broken>>

(* The public key is recorded for later launches.                          *)
RecordIdentity ==
    /\ engine = "enrolled"
    /\ idpub' = me
    /\ engine' = "open"
    /\ UNCHANGED <<plain, vault, dbkey, salt, hash, log,
                   screen, me, pc, old, new, broken>>

-----------------------------------------------------------------------------
(* The procedures of the account screen, which needs an open engine, and   *)
(* of the lock screen.  The writes that follow an answered dialog take a   *)
(* moment: they are done, or the process has ended, before the user gets   *)
(* to the next one.                                                        *)
Begin(step, from, to) ==
    /\ pc = "idle"
    /\ pc' = step /\ old' = from /\ new' = to
    /\ UNCHANGED <<storage, engine, me, broken>>

SetUpPin(to) ==
    /\ screen = "shell" /\ engine = "open" /\ hash = None
    /\ Begin("set_salt", to, to)
    /\ UNCHANGED screen

ChangePin(from, to) ==
    /\ screen = "shell" /\ engine = "open" /\ hash # None
    /\ Begin("reseal", from, to)
    /\ UNCHANGED screen

RemovePin(pin) ==
    /\ screen = "shell" /\ engine = "open" /\ hash # None
    /\ Begin("unseal", pin, pin)
    /\ UNCHANGED screen

(* The right PIN shows the shell, and then seals a root still in clear.    *)
UnlockWithPin(pin) ==
    /\ screen = "locked"
    /\ hash = HashPin(pin, salt)
    /\ Begin("migrate", pin, pin)
    /\ screen' = "shell"

UnlockWithBiometrics ==
    /\ screen = "locked"
    /\ screen' = "shell"
    /\ UNCHANGED <<storage, engine, me, pc, old, new, broken>>

(* The app goes to the background.                                         *)
Lock ==
    /\ screen = "shell" /\ hash # None
    /\ screen' = "locked"
    /\ UNCHANGED <<storage, engine, me, pc, old, new, broken>>

-----------------------------------------------------------------------------
(* Their steps, each up to a write to storage.                             *)
Goto(next) == pc' = next /\ UNCHANGED <<old, new>>

(* A completed procedure mends what it would have done.                    *)
Mended(what) == broken' = broken \ what

(* setPin: the salt, then the hash.                                        *)
WriteSalt(s) ==
    /\ pc \in {"set_salt", "change_salt"}
    /\ s # salt
    /\ salt' = s
    /\ Goto(IF pc = "set_salt" THEN "set_hash" ELSE "change_hash")
    /\ UNCHANGED <<plain, vault, idpub, dbkey, hash, log,
                   screen, engine, me, broken>>

WriteHash ==
    /\ pc \in {"set_hash", "change_hash"}
    /\ hash' = HashPin(new, salt)
    /\ screen' = "shell"
    /\ IF pc = "set_hash" THEN Goto("set_seal") /\ UNCHANGED broken
       ELSE Goto("idle") /\ Mended({"change"})
    /\ UNCHANGED <<plain, vault, idpub, dbkey, salt, log, engine, me>>

(* PinSealedKey.seal: the blob is written, then the seed in clear deleted. *)
SealRoot(s) ==
    /\ pc \in {"set_seal", "migrate"}
    /\ IF plain = None
       THEN /\ Goto("idle") /\ UNCHANGED vault
            /\ Mended({"set", "remove", "unlock"})
       ELSE /\ vault' = SealSeed(new, s, plain)
            /\ Goto(IF pc = "set_seal" THEN "set_drop" ELSE "migrate_drop")
            /\ UNCHANGED broken
    /\ UNCHANGED <<plain, idpub, dbkey, salt, hash, log, screen, engine, me>>

\* (mutated form: the seed in clear is kept)
KeepPlain ==
    /\ pc \in {"set_drop", "migrate_drop"}
    /\ Goto("idle") /\ Mended({"set", "remove", "unlock"})
    /\ UNCHANGED <<storage, screen, engine, me>>

DropPlain ==
    /\ pc \in {"set_drop", "migrate_drop"}
    /\ plain' = None
    /\ Goto("idle") /\ Mended({"set", "remove", "unlock"})
    /\ UNCHANGED <<vault, idpub, dbkey, salt, hash, log, screen, engine, me>>

\* (mutated form: the current PIN is not verified)
ResealUnchecked(s) ==
    /\ pc = "reseal"
    /\ UNCHANGED vault /\ Goto("change_salt")
    /\ UNCHANGED <<plain, idpub, dbkey, salt, hash, log,
                   screen, engine, me, broken>>

(* PinSealedKey.reseal; a wrong current PIN ends the change.               *)
Reseal(s) ==
    /\ pc = "reseal"
    /\ \/ vault = None /\ Goto("change_salt") /\ UNCHANGED vault
       \/ vault # None /\ OpenSeed(old, vault) = None /\ Goto("idle") /\ UNCHANGED vault
       \/ /\ vault # None /\ OpenSeed(old, vault) # None
          /\ vault' = SealSeed(new, s, OpenSeed(old, vault))
          /\ Goto("change_salt")
    /\ UNCHANGED <<plain, idpub, dbkey, salt, hash, log,
                   screen, engine, me, broken>>

\* (mutated form: the vault is deleted before the seed is back in clear)
UnsealLate ==
    /\ pc = "unseal"
    /\ vault' = None /\ Goto("discard")
    /\ UNCHANGED <<plain, idpub, dbkey, salt, hash, log,
                   screen, engine, me, broken>>

(* PinSealedKey.unseal: the seed in clear first, then the blob is deleted. *)
Unseal ==
    /\ pc = "unseal"
    /\ \/ vault = None /\ Goto("clear_hash") /\ UNCHANGED plain
       \/ vault # None /\ OpenSeed(old, vault) = None /\ Goto("idle") /\ UNCHANGED plain
       \/ /\ vault # None /\ OpenSeed(old, vault) # None
          /\ plain' = OpenSeed(old, vault)
          /\ Goto("discard")
    /\ UNCHANGED <<vault, idpub, dbkey, salt, hash, log,
                   screen, engine, me, broken>>

Discard ==
    /\ pc = "discard"
    /\ vault' = None
    /\ Goto("clear_hash")
    /\ UNCHANGED <<plain, idpub, dbkey, salt, hash, log,
                   screen, engine, me, broken>>

(* clearPin: the hash, then the salt.                                      *)
ClearHash ==
    /\ pc = "clear_hash"
    /\ hash' = None
    /\ Goto("clear_salt")
    /\ UNCHANGED <<plain, vault, idpub, dbkey, salt, log,
                   screen, engine, me, broken>>

ClearSalt ==
    /\ pc = "clear_salt"
    /\ salt' = None
    /\ screen' = "shell"
    /\ Goto("idle") /\ Mended({"change", "set", "remove", "unlock"})
    /\ UNCHANGED <<plain, vault, idpub, dbkey, hash, log, engine, me>>

-----------------------------------------------------------------------------
(* The process ends, at any step.                                          *)
Procedure ==
    CASE pc \in {"set_salt", "set_hash", "set_seal", "set_drop"} -> {"set"}
      [] pc \in {"reseal", "change_salt", "change_hash"} -> {"change"}
      [] pc \in {"unseal", "discard", "clear_hash", "clear_salt"} -> {"remove"}
      [] pc \in {"migrate", "migrate_drop"} -> {"unlock"}
      [] OTHER -> {}

Crash ==
    /\ screen # "off"
    /\ screen' = "off" /\ engine' = "closed" /\ me' = None
    /\ Goto("idle")
    /\ broken' = broken \cup Procedure
    /\ UNCHANGED storage

Step ==
    \/ \E s \in Salts : WriteSalt(s) \/ SealRoot(s) \/ Reseal(s)
    \/ WriteHash \/ DropPlain
    \/ Unseal \/ Discard \/ ClearHash \/ ClearSalt

(* What may be typed for a phrase: also a mistyped one, or one of 12 words.*)
Phrases == [entropy : Seeds, length : {16, 32}, checksum : {Checksum(seed) : seed \in Seeds}]

Next ==
    \/ Start
    \/ \E seed \in Seeds, confirmed \in BOOLEAN : CreateNew(seed, confirmed)
    \/ \E phrase \in Phrases : Restore(phrase)
    \/ \E key \in Keys : CreateDbKey(key)
    \/ OpenDeviceOnly
    \/ \E seed \in Seeds : OpenFull(seed)
    \/ RecordIdentity
    \/ \E pin \in Pins : SetUpPin(pin) \/ RemovePin(pin) \/ UnlockWithPin(pin)
    \/ \E from, to \in Pins : ChangePin(from, to)
    \/ UnlockWithBiometrics
    \/ Lock
    \/ Step
    \/ Crash

Spec == Init /\ [][Next]_vars

-----------------------------------------------------------------------------
(* Whatever is cut short, the keys stay: from the day it is recorded, the  *)
(* identity's own seed is on the device, in clear or sealed or both, and   *)
(* the log opens under the key that is kept.                               *)
IsOfIdentity(seed) == seed # None /\ KeyPair(seed) = idpub

KeysKept ==
    /\ idpub # None =>
          /\ plain # None \/ vault # None
          /\ plain # None => IsOfIdentity(plain)
          /\ vault # None => \E pin \in Pins : IsOfIdentity(OpenSeed(pin, vault))
    /\ LogOpens

(* The engine opens, with the identity this device is enrolled under: it   *)
(* never finds a log of another key, itself not enrolled, or makes a       *)
(* second identity.                                                        *)
AlwaysOpens ==
    /\ engine # "failed"
    /\ engine = "open" => me = idpub /\ me = Open(dbkey, log)

(* PinSealedKey.load, what a privileged action of the user finds.          *)
LoadSeed(pin) == IF vault # None THEN OpenSeed(pin, vault) ELSE plain

(* The lock and the root stay in sync: unless a change of the PIN was cut  *)
(* short, the lock can be opened, a PIN that opens it unlocks the root,    *)
(* and with no lock nothing is sealed.                                     *)
InSync ==
    pc = "idle" /\ "change" \notin broken =>
        /\ hash # None => \E pin \in Pins : hash = HashPin(pin, salt) /\ IsOfIdentity(LoadSeed(pin))
        /\ hash = None => vault = None

(* With the lock on the seed is not in clear, unless a procedure was cut   *)
(* short and the lock has not been opened with the PIN since.              *)
SealedAtRest ==
    pc = "idle" /\ hash # None /\ broken \cap {"set", "remove", "unlock"} = {} =>
        plain = None
=============================================================================
