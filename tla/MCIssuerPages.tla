--------------------------- MODULE MCIssuerPages ---------------------------
(* An instance of IssuerPages: the certificate of one submission, and batches. *)
EXTENDS IssuerPages
=============================================================================
