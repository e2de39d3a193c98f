---------------------------- MODULE MCValidation ----------------------------
(* Validation of a store on the chain of MCChain.                          *)
EXTENDS Validation, MCChain
=============================================================================
