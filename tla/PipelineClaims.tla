--------------------------- MODULE PipelineClaims ---------------------------
(***************************************************************************)
(* What the README, the comments and the tests say of the pipeline and the *)
(* code does not do.  Each is refuted by a run of its own.                 *)
(***************************************************************************)
EXTENDS CertificatePipeline

(* "what is actually a success, not a failure" must not burn a reconcile
   attempt (reconciler.js:51-57): a handler that found a PENDING_ANCHOR
   certificate on the chain activates it. *)
RecoveryBurnsNoAttempt ==
  [][\A s \in Sweeper :
       sweeper[s].pc = "recover" => sweeper'[s].pc # "bump"]_vars

(* "left at PENDING_STORAGE -- NOT failed -- so the worker's reconciler keeps
   it queued rather than losing it outright" (issuanceService.js:209-212). *)
StorageIsKeptQueued ==
  [][\A c \in Cert :
       status[c] = "PENDING_STORAGE" => status'[c] # "FAILED"]_vars

(* "on-chain revoke + DB transition, all atomically"
   (revocationService.js:34-36): once no request is at work on it, a
   certificate revoked on the chain is REVOKING or REVOKED. *)
RevocationIsAtomic ==
  \A c \in Cert :
    (IsRevoked(c) /\ \A r \in Revoker : revoker[r].cert # c)
      => status[c] \in {"REVOKING", "REVOKED"}

(* A rejected transition "also writes an audit entry first"
   (lifecycleService.js:43), also when the issuance request makes it. *)
RejectionIsAudited ==
  \A c \in Cert : issuer[c].pc = "rejected"
                    => <<c, "PENDING_ANCHOR", "ACTIVE">> \in audit

(* A transaction is CONFIRMED once it "has reached the required confirmation
   depth" (eventListener.js:111-113). *)
ConfirmedIsDeep ==
  \A t \in Tx : rowStatus[t] = "CONFIRMED" => phase[t] = "deep"

(* "the chain ... wins on any conflict" (README.md:33): the database does not
   keep a certificate FAILED for ever that the chain has anchored. *)
ChainWins ==
  \A c \in Cert : IsIssued(c) ~> status[c] \in {"ACTIVE", "REVOKING", "REVOKED"}

(* REVOKING goes back to "ACTIVE (tx dropped/reverted)" (README.md:38-41). *)
DroppedRevocationReturns ==
  \A c \in Cert :
    (status[c] = "REVOKING" /\ phase[revocation[c]] = "void")
      ~> status[c] \in {"ACTIVE", "REVOKED"}
=============================================================================
