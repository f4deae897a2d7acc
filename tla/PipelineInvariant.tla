------------------------- MODULE PipelineInvariant -------------------------
(***************************************************************************)
(* What every handler of CertificatePipeline may rely on at each of its    *)
(* awaits although others have run meanwhile: the facts it read are of the *)
(* kind that is never taken back.  Together with the safety properties     *)
(* these facts form an inductive invariant, proved in PipelineProofs.      *)
(***************************************************************************)
EXTENDS CertificatePipeline

Public == {"ACTIVE", "REVOKING", "REVOKED"}

Sent(t) == phase[t] # "unsent"

Of(t, c, ty) == t \in Tx /\ t.cert = c /\ t.type = ty

(* The stages of the row: created by its request, stored with its file. *)
Stages ==
  \A c \in Cert :
    /\ issuer[c].pc = "none" => status[c] = "ABSENT"
    /\ file[c] => status[c] \notin {"ABSENT", "PENDING_STORAGE"}

(* An issuance request anchors a stored document and settles its own
   transaction, after it was sent. *)
IssuerFacts ==
  \A c \in Cert :
    /\ issuer[c].pc \in {"anchor", "check", "recover", "settle"} => file[c]
    /\ issuer[c].pc \in {"none", "pin", "store"} => issuer[c].tries = 0
    /\ issuer[c].pc = "anchor" => issuer[c].tries < AnchorTries
    /\ issuer[c].pc = "settle" => Of(issuer[c].tx, c, "ISSUE") /\ Sent(issuer[c].tx)

(* A revocation request works on a public certificate, and commits its own
   transaction after it was sent. *)
RevokerFacts ==
  \A r \in Revoker :
    /\ revoker[r].pc # "idle" =>
         revoker[r].cert \in Cert /\ status[revoker[r].cert] \in Public
    /\ revoker[r].pc = "commit" =>
         Of(revoker[r].tx, revoker[r].cert, "REVOKE") /\ Sent(revoker[r].tx)

(* An event handler was started by a mined transaction. *)
ListenerFacts == \A t \in Tx : listener[t] # "idle" => Mined(t)

(* A reconciler handler has a certificate; it resubmits only a stored
   document, records what it sent, moves on only with a row behind it, and
   settles only what it found on the chain, through a row of that certificate
   and type. *)
HandlerFacts(w) ==
  /\ w.pc \notin {"idle", "dead"} => w.cert \in Cert
  /\ w.pc = "anchor" => file[w.cert]
  /\ w.pc = "record" => Of(w.tx, w.cert, "ISSUE") /\ Sent(w.tx)
  /\ w.pc = "advance" => latest[w.cert]["ISSUE"] # NoTx
  /\ w.pc \in {"findSettled", "confirm", "settle"} =>
       w.job \in {"ANCHORING", "REVOKING"} /\ OnChain(w.cert, Awaited(w.job))
  /\ w.pc = "confirm" => w.tx = NoTx \/ Of(w.tx, w.cert, Awaited(w.job))

SweeperFacts == \A s \in Sweeper : HandlerFacts(sweeper[s])

(* The latest row of a certificate and type is one, of a transaction that was
   sent for it. *)
LatestFacts ==
  \A c \in Cert : \A ty \in TxType :
    \/ latest[c][ty] = NoTx
    \/ /\ Of(latest[c][ty], c, ty)
       /\ Sent(latest[c][ty]) /\ rowStatus[latest[c][ty]] # "none"

Facts ==
  /\ Stages
  /\ IssuerFacts
  /\ RevokerFacts
  /\ ListenerFacts
  /\ SweeperFacts
  /\ LatestFacts

Safety ==
  /\ PublicIsAnchored
  /\ RevokedIsRevoked
  /\ OnlyPublicIsRevoked
  /\ PinnedBeforeAnchored
  /\ RevocationRecorded
  /\ ConfirmedIsOnChain
  /\ AnchorRecorded

IInv == TypeOK /\ Facts /\ Safety
=============================================================================
