------------------------------ MODULE MCClock ------------------------------
(***************************************************************************)
(* Two devices for model-checking Clock.                                   *)
(***************************************************************************)
EXTENDS Clock

CONSTANTS phone, tablet

Two == {phone, tablet}
=============================================================================
