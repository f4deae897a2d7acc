-------------------------- MODULE CertificateTrust --------------------------
(***************************************************************************)
(* What SecureCred promises about a certificate, without saying how: the   *)
(* database moves its status along legal edges only, and two facts on the  *)
(* chain, which are never taken back, bound what it may say.  The          *)
(* README's "the chain is the trust anchor" as a specification.            *)
(***************************************************************************)
EXTENDS Lifecycle

CONSTANT Cert

VARIABLES
  status,   \* certificate.status, or ABSENT
  issued,   \* certificates the registry contract has anchored
  revoked   \* certificates the registry contract has revoked

vars == <<status, issued, revoked>>

Public == {"ACTIVE", "REVOKING", "REVOKED"}

TypeOK ==
  /\ status \in [Cert -> CertState \union {"ABSENT"}]
  /\ issued \subseteq Cert
  /\ revoked \subseteq Cert

Init ==
  /\ status = [c \in Cert |-> "ABSENT"]
  /\ issued = {}
  /\ revoked = {}

Create(c) ==
  /\ status[c] = "ABSENT"
  /\ status' = [status EXCEPT ![c] = "PENDING_STORAGE"]
  /\ UNCHANGED <<issued, revoked>>

(* A public status needs its fact on the chain. *)
Advance(c, to) ==
  /\ <<status[c], to>> \in LegalEdge
  /\ to = "ACTIVE" => c \in issued
  /\ to = "REVOKED" => c \in revoked
  /\ status' = [status EXCEPT ![c] = to]
  /\ UNCHANGED <<issued, revoked>>

(* Only a stored document is anchored, even if the row has FAILED since. *)
Anchor(c) ==
  /\ status[c] \notin {"ABSENT", "PENDING_STORAGE"}
  /\ c \notin issued
  /\ issued' = issued \union {c}
  /\ UNCHANGED <<status, revoked>>

Revoke(c) ==
  /\ status[c] \in Public
  /\ c \in issued \ revoked
  /\ revoked' = revoked \union {c}
  /\ UNCHANGED <<status, issued>>

Next ==
  \E c \in Cert :
    \/ Create(c)
    \/ \E to \in CertState : Advance(c, to)
    \/ Anchor(c)
    \/ Revoke(c)

Spec == Init /\ [][Next]_vars
=============================================================================
