-------------------------- MODULE MCBatchIssuance --------------------------
(* Small batches for TLC. *)
EXTENDS BatchClaims, TLC

Distinct == [r \in Rows |-> r]
Same     == [r \in Rows |-> 1]

=============================================================================
