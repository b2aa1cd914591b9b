---------------------------- MODULE MCRepository ----------------------------
(***************************************************************************)
(* Op pools for model-checking Repository.                                 *)
(***************************************************************************)
EXTENDS Repository, MCWorld, Signatures

(* A group, its renamings and members.                                     *)
Log == {
    At(1, Alice, "CreateGroup") @@ [group |-> "g", name |-> "trip"],
    At(2, Alice, "SetGroupName") @@ [group |-> "g", name |-> "ski"],
    Member(3, Alice, B, TRUE),
    Member(4, Carol, C, TRUE),
    Member(5, Alice, C, FALSE),
    Member(6, Bob, A, TRUE)}

(* The ops as they arrive: of the last three the first was altered, the    *)
(* second was altered and given its new id, and the third was signed by    *)
(* someone else than its author.                                           *)
Received(op) ==
    LET genuine == SignedOp(op.hlc, op.author, op)
        altered == [genuine EXCEPT !.kind.member = ~@]
    IN  CASE op.hlc = 4 -> altered
          [] op.hlc = 5 -> [altered EXCEPT !.id =
                              Hash(OpContent(altered.hlc, altered.author, altered.kind))]
          [] op.hlc = 6 -> [genuine EXCEPT !.sig =
                              Sign(Carol, OpContent(genuine.hlc, genuine.author, genuine.kind))]
          [] OTHER -> genuine

Tampered == {op \in Log : VerifyOp(Received(op)) # "Ok"}

ASSUME VerifiedAssumption ==
    \A op \in Log : VerifyOp(Received(op)) =
        IF op.hlc < 4 THEN "Ok" ELSE IF op.hlc = 4 THEN "HashMismatch" ELSE "BadSignature"
=============================================================================
