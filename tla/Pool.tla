-------------------------------- MODULE Pool --------------------------------
(***************************************************************************)
(* A history: all the ops that are ever issued, given in advance, for the  *)
(* modules in which they only arrive.                                      *)
(***************************************************************************)
EXTENDS Ops

CONSTANT OpPool            \* every op that is ever issued

ASSUME OpPoolAssumption == \A op \in OpPool : op.hlc \in Nat /\ op.id \in Nat

(* The clock's promise: a reading names the issuing site and a counter, so *)
(* no two ops share one.                                                   *)
DistinctHlcs == \A o, p \in OpPool : o.hlc = p.hlc => o = p
=============================================================================
