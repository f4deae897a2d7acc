--------------------------- MODULE MCVerification ---------------------------
(* Two verifications of one certificate for TLC. *)
EXTENDS Verification, TLC

=============================================================================
