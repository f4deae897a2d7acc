--------------------------- MODULE MCChainWriter ---------------------------
(* A few writes of two processes for TLC. *)
EXTENDS ChainWriter, TLC

=============================================================================
