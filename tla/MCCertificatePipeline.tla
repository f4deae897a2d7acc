----------------------- MODULE MCCertificatePipeline -----------------------
(* Instances of CertificatePipeline for TLC. *)
EXTENDS PipelineClaims, PipelineInvariant, TLC

(* The requests and the handlers are interchangeable. *)
Symmetry == Permutations(Revoker) \union Permutations(Sweeper)
=============================================================================
