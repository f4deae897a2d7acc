---------------------------- MODULE MCWebSession ----------------------------
(* TLC's instances of WebSession.tla. *)
EXTENDS WebSession

=============================================================================
