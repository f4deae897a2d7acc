--------------------------- MODULE MCEventReplay ---------------------------
(* A short chain with windows of two blocks for TLC. *)
EXTENDS EventReplay
=============================================================================
