------------------------------ MODULE Secrets -------------------------------
(***************************************************************************)
(* Secrets at rest (splittr-crypto: aead.rs, vault.rs, recovery.rs): blobs *)
(* sealed under a key, seeds sealed under a PIN, and recovery phrases.     *)
(* The cryptography is perfect: only the key a blob was sealed with opens  *)
(* it, no two pairs of a PIN and a salt give one key, and no two seeds     *)
(* have one checksum.  (All blobs are of the one version there is.)        *)
(***************************************************************************)

CONSTANT None              \* the None of an Option

Seal(key, plaintext) == [key |-> key, plaintext |-> plaintext]

Open(key, blob) == IF blob.key = key THEN blob.plaintext ELSE None

(* The vault keeps the salt its key was derived with.                      *)
DeriveKey(pin, salt) == <<"argon2id", pin, salt>>

SealSeed(pin, salt, seed) == [salt |-> salt, sealed |-> Seal(DeriveKey(pin, salt), seed)]

OpenSeed(pin, blob) == Open(DeriveKey(pin, blob.salt), blob.sealed)

(* The words of a phrase hold some bytes and the checksum of the phrase    *)
(* they were taken from.                                                   *)
Checksum(entropy) == <<"checksum", entropy>>

RecoveryPhrase(seed) == [entropy |-> seed, length |-> 32, checksum |-> Checksum(seed)]

SeedFromPhrase(phrase) ==
    IF phrase.checksum = Checksum(phrase.entropy) /\ phrase.length = 32
    THEN phrase.entropy ELSE None
=============================================================================
