------------------------------ MODULE MCDevice ------------------------------
(***************************************************************************)
(* Device for model-checking: two identities, log keys, PINs and salts are *)
(* enough for a value to be taken for another one of its kind.             *)
(***************************************************************************)
EXTENDS Device
=============================================================================
