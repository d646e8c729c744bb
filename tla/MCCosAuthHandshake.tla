-------------------------- MODULE MCCosAuthHandshake --------------------------
(* Model-checking instance of CosAuthHandshake: MaxAttempts from the cfg. *)
EXTENDS CosAuthHandshake
=============================================================================
