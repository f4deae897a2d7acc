---------------------------- MODULE MCVerifyPages ----------------------------
(* TLC's instance of VerifyPages.tla. *)
EXTENDS VerifyPages
=============================================================================
