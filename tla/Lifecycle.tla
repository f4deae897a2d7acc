----------------------------- MODULE Lifecycle -----------------------------
(***************************************************************************)
(* The certificate life cycle shared by every part of SecureCred: the      *)
(* states, the table of legal edges and the sets derived from them         *)
(* (packages/shared/src/constants.js).  No state of its own; the modules   *)
(* that change a status EXTEND it.                                         *)
(***************************************************************************)

CertState == {"PENDING_STORAGE", "PENDING_ANCHOR", "ANCHORING",
              "ACTIVE", "REVOKING", "REVOKED", "FAILED"}

(* The edges of CERT_STATE_TRANSITIONS, one pair per legal step. *)
LegalEdge ==
  { <<"PENDING_STORAGE", "PENDING_ANCHOR">>, <<"PENDING_STORAGE", "FAILED">>,
    <<"PENDING_ANCHOR",  "ANCHORING">>,      <<"PENDING_ANCHOR",  "FAILED">>,
    <<"ANCHORING",       "ACTIVE">>,         <<"ANCHORING",       "FAILED">>,
    <<"ACTIVE",          "REVOKING">>,
    <<"REVOKING",        "REVOKED">>,        <<"REVOKING",        "ACTIVE">> }

(* What a public verifier must not be told about (CERT_STATE_NOT_PUBLIC). *)
NotPublic == {"PENDING_STORAGE", "PENDING_ANCHOR", "ANCHORING", "FAILED"}

Transient_NoRevoking == {"PENDING_STORAGE", "PENDING_ANCHOR", "ANCHORING"}

(* What the reconciler's sweep selects (TRANSIENT_STATUSES). *)
Transient == {"PENDING_STORAGE", "PENDING_ANCHOR", "ANCHORING", "REVOKING"}
=============================================================================
