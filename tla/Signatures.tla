----------------------------- MODULE Signatures -----------------------------
(***************************************************************************)
(* Key pairs, signatures, and what the program signs: ops and invites      *)
(* (splittr-crypto: keys.rs, signature.rs, invite.rs; splittr-crdt: op.rs).*)
(* The cryptography is perfect: hashes do not collide, and a signature is  *)
(* known by who made it and over what.  A key pair is named by one value,  *)
(* which stands for its public half; only its holder signs with it.        *)
(***************************************************************************)

EXTENDS Naturals

(* SigningKey::from_seed: a seed has one key pair.                         *)
KeyPair(seed) == <<"key", seed>>

Sign(pair, msg) == [by |-> pair, msg |-> msg]

Verified(pair, msg, sig) == sig = Sign(pair, msg)

-----------------------------------------------------------------------------
(* Ops.  Their id is the hash of what is signed.                           *)
Hash(content) == [hash |-> content]

OpContent(hlc, author, kind) == <<hlc, author, kind>>

SignedOp(hlc, pair, kind) ==
    LET content == OpContent(hlc, pair, kind)
    IN  [id |-> Hash(content), hlc |-> hlc, author |-> pair,
         sig |-> Sign(pair, content), kind |-> kind]

(* Op::verify: corruption is told from forgery.                            *)
VerifyOp(op) ==
    LET content == OpContent(op.hlc, op.author, op.kind)
    IN  IF op.id # Hash(content) THEN "HashMismatch"
        ELSE IF ~Verified(op.author, content, op.sig) THEN "BadSignature"
        ELSE "Ok"

-----------------------------------------------------------------------------
(* Invites.  The tag keeps their signatures apart from those of ops.       *)
InviteContent(inviter, context, nonce, expiry_ms) ==
    <<"splittr-invite-v1", inviter, context, nonce, expiry_ms>>

CreateInvite(pair, context, nonce, expiry_ms) ==
    [inviter |-> pair, context |-> context, nonce |-> nonce, expiry_ms |-> expiry_ms,
     sig |-> Sign(pair, InviteContent(pair, context, nonce, expiry_ms))]

InviteVerified(invite) ==
    Verified(invite.inviter,
             InviteContent(invite.inviter, invite.context, invite.nonce, invite.expiry_ms),
             invite.sig)

IsExpired(invite, now_ms) == now_ms >= invite.expiry_ms

(* verify_invite, what the preview of an invite shows.                     *)
InviteValid(invite, now_ms) == InviteVerified(invite) /\ ~IsExpired(invite, now_ms)
=============================================================================
