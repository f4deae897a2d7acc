------------------------ MODULE CertificatePipeline ------------------------
(***************************************************************************)
(* One certificate row, the transactions sent for it, and everything that  *)
(* moves them: the issuance request, revocation requests, the worker's     *)
(* event listener and its reconciler, all interleaved at their awaits.     *)
(* Each action is one await of the source: one database statement or       *)
(* transaction, one chain read or one broadcast.  The chain is external:   *)
(* it may mine, revert, drop or bury a transaction at any time.            *)
(*                                                                         *)
(* A name with a suffix, such as StoreFile_IgnoresLostRace, is a plausible *)
(* mistake in the code of StoreFile.  It is no part of the specification;  *)
(* it is there to show that a property would notice it.                    *)
(***************************************************************************)
EXTENDS Lifecycle, Naturals

CONSTANTS
  Cert,         \* certificates; certificate_hash is UNIQUE, so also the hashes
  Revoker,      \* revocation requests in progress at the same time
  Sweeper,      \* reconciler handlers in progress at the same time
  MaxIssueTx,   \* anchor transactions that can be sent for a certificate
  MaxRevokeTx,  \* revoke transactions that can be sent for a certificate
  AnchorTries,  \* attempts withRetry makes at the anchor call
  MaxAttempts,  \* MAX_RECONCILE_ATTEMPTS
  NoCert, NoTx

TxType == {"ISSUE", "REVOKE"}

(* A transaction hash stands for its content: whose it is and what it does. *)
Tx == [cert : Cert, type : {"ISSUE"}, n : 1..MaxIssueTx]
        \union [cert : Cert, type : {"REVOKE"}, n : 1..MaxRevokeTx]

ASSUME ConstantsAssumption ==
  /\ MaxIssueTx \in Nat /\ MaxRevokeTx \in Nat
  /\ AnchorTries \in Nat \ {0}
  /\ MaxAttempts \in Nat \ {0}
  /\ NoCert \notin Cert
  /\ NoTx \notin Tx

VARIABLES
  status,      \* certificate.status, or ABSENT before the row is inserted
  attempts,    \* certificate.reconcile_attempts, counted up to MaxAttempts
  file,        \* a certificate_file row exists: the document is pinned
  revocation,  \* the transaction of the certificate's revocation row
  rowStatus,   \* blockchain_transaction.transaction_status of each hash
  latest,      \* what findLatestForCertificate returns
  audit,       \* committed CERTIFICATE_ILLEGAL_TRANSITION entries
  phase,       \* the chain: what became of each transaction
  issuer,      \* the issuance request that created each certificate
  revoker,     \* revocation requests
  sweeper,     \* reconciler handlers
  listener     \* the event handler of each transaction

db   == <<status, attempts, file, revocation, rowStatus, latest, audit>>
vars == <<status, attempts, file, revocation, rowStatus, latest, audit,
          phase, issuer, revoker, sweeper, listener>>

IssuerPC  == {"none", "pin", "store", "anchor", "check", "recover", "settle",
              "ended", "rejected"}
RevokerPC == {"idle", "send", "commit"}
SweeperPC == {"idle", "start", "recover", "anchor", "record", "advance",
              "findSettled", "confirm", "settle", "bump", "findStuck", "mark",
              "giveup", "dead"}
Phase     == {"unsent", "mempool", "mined", "deep", "void"}

Issuance   == [pc : IssuerPC, tx : Tx \union {NoTx}, tries : 0..AnchorTries]
Revocation == [pc : RevokerPC, cert : Cert \union {NoCert},
               tx : Tx \union {NoTx}]
Handler    == [pc : SweeperPC, job : Transient, cert : Cert \union {NoCert},
               tx : Tx \union {NoTx}]

TypeOK ==
  /\ status \in [Cert -> CertState \union {"ABSENT"}]
  /\ attempts \in [Cert -> 0..MaxAttempts]
  /\ file \in [Cert -> BOOLEAN]
  /\ revocation \in [Cert -> Tx \union {NoTx}]
  /\ rowStatus \in [Tx -> {"none", "PENDING", "CONFIRMED", "FAILED"}]
  /\ latest \in [Cert -> [TxType -> Tx \union {NoTx}]]
  /\ audit \subseteq Cert \X CertState \X CertState
  /\ phase \in [Tx -> Phase]
  /\ issuer \in [Cert -> Issuance]
  /\ revoker \in [Revoker -> Revocation]
  /\ sweeper \in [Sweeper -> Handler]
  /\ listener \in [Tx -> {"idle", "receipt", "advance"}]

NoSweep  == [pc |-> "idle", job |-> "PENDING_STORAGE", cert |-> NoCert,
             tx |-> NoTx]
NoRevoke == [pc |-> "idle", cert |-> NoCert, tx |-> NoTx]

Init ==
  /\ status = [c \in Cert |-> "ABSENT"]
  /\ attempts = [c \in Cert |-> 0]
  /\ file = [c \in Cert |-> FALSE]
  /\ revocation = [c \in Cert |-> NoTx]
  /\ rowStatus = [t \in Tx |-> "none"]
  /\ latest = [c \in Cert |-> [ty \in TxType |-> NoTx]]
  /\ audit = {}
  /\ phase = [t \in Tx |-> "unsent"]
  /\ issuer = [c \in Cert |-> [pc |-> "none", tx |-> NoTx, tries |-> 0]]
  /\ revoker = [r \in Revoker |-> NoRevoke]
  /\ sweeper = [s \in Sweeper |-> NoSweep]
  /\ listener = [t \in Tx |-> "idle"]

-----------------------------------------------------------------------------
(* The chain.                                                              *)

Mined(t) == phase[t] \in {"mined", "deep"}

(* checkCertificate's isIssued and isRevoked, at the latest block. *)
OnChain(c, ty) == \E t \in Tx : t.cert = c /\ t.type = ty /\ Mined(t)
IsIssued(c)  == OnChain(c, "ISSUE")
IsRevoked(c) == OnChain(c, "REVOKE")

(* The contract accepts the call: anchorCertificate reverts on a hash that
   exists, revokeCertificate on one that does not or is already revoked. *)
Accepts(c, ty) ==
  IF ty = "ISSUE" THEN ~IsIssued(c) ELSE IsIssued(c) /\ ~IsRevoked(c)

Mine(t) ==
  /\ phase[t] = "mempool"
  /\ Accepts(t.cert, t.type)
  /\ phase' = [phase EXCEPT ![t] = "mined"]
  /\ UNCHANGED <<db, issuer, revoker, sweeper, listener>>

(* The transaction reaches CONFIRMATION_DEPTH, after those it depends on. *)
Deepen(t) ==
  /\ phase[t] = "mined"
  /\ t.type = "REVOKE" =>
       \E u \in Tx : u.cert = t.cert /\ u.type = "ISSUE" /\ phase[u] = "deep"
  /\ phase' = [phase EXCEPT ![t] = "deep"]
  /\ UNCHANGED <<db, issuer, revoker, sweeper, listener>>

(* Reverted, evicted, replaced, or stuck behind a nonce gap: it will have no
   effect.  Nothing in the code tells these apart. *)
Void(t) ==
  /\ phase[t] = "mempool"
  /\ phase' = [phase EXCEPT ![t] = "void"]
  /\ UNCHANGED <<db, issuer, revoker, sweeper, listener>>

(* chainAdapter.anchor / revoke.  The provider estimates gas first, which
   fails if the contract would revert; then the transaction is broadcast. *)
Broadcast(t) ==
  /\ phase[t] = "unsent"
  /\ \A u \in Tx : (u.cert = t.cert /\ u.type = t.type /\ u.n < t.n)
                     => phase[u] # "unsent"
  /\ Accepts(t.cert, t.type)
  /\ phase' = [phase EXCEPT ![t] = "mempool"]

-----------------------------------------------------------------------------
(* Database statements.                                                    *)

Moves_AnyEdge(c, from, to) == status[c] = from

(* lifecycleService.transition succeeds: a legal edge, and the row is still
   in `from' (the compare-and-set of certificateRepo.updateStatus). *)
Moves(c, from, to) == <<from, to>> \in LegalEdge /\ status[c] = from

SetStatus(c, to) == status' = [status EXCEPT ![c] = to]

(* transition throws.  An illegal edge is audited first; outside a
   transaction that entry is committed. *)
AuditRejected(c, from, to) ==
  audit' = IF <<from, to>> \in LegalEdge THEN audit
                                         ELSE audit \union {<<c, from, to>>}

InsertRow_AnyType(t) ==
  /\ rowStatus' = [rowStatus EXCEPT ![t] = "PENDING"]
  /\ latest' = [latest EXCEPT ![t.cert] = [ty \in TxType |-> t]]

InsertRow(t) ==
  /\ rowStatus' = [rowStatus EXCEPT ![t] = "PENDING"]
  /\ latest' = [latest EXCEPT ![t.cert][t.type] = t]

(* markConfirmed / markFailed: an UPDATE by transaction_hash, whatever the
   row's status; it touches nothing when the hash has no row. *)
MarkRow(t, st) ==
  rowStatus' = IF t = NoTx \/ rowStatus[t] = "none"
                 THEN rowStatus ELSE [rowStatus EXCEPT ![t] = st]

-----------------------------------------------------------------------------
(* issuanceService.issue, one request per certificate.  Once it has ended,
   well or badly, nothing ever resumes it. *)

IssuerAt(c, pc)   == issuer' = [issuer EXCEPT ![c].pc = pc]
IssuerEnds(c, pc) ==
  issuer' = [issuer EXCEPT ![c] = [pc |-> pc, tx |-> NoTx, tries |-> 0]]

(* The row is inserted before any external call. *)
InsertPending(c) ==
  /\ issuer[c].pc = "none"
  /\ SetStatus(c, "PENDING_STORAGE")
  /\ IssuerAt(c, "pin")
  /\ UNCHANGED <<attempts, file, revocation, rowStatus, latest, audit,
                 phase, revoker, sweeper, listener>>

(* pinataAdapter.pin with its retries: the same bytes, the same CID. *)
Pin(c) ==
  /\ issuer[c].pc = "pin"
  /\ IssuerAt(c, "store") \/ IssuerEnds(c, "ended")
  /\ UNCHANGED <<db, phase, revoker, sweeper, listener>>

StoreFile_IgnoresLostRace(c) ==
  /\ issuer[c].pc = "store"
  /\ IF Moves(c, "PENDING_STORAGE", "PENDING_ANCHOR")
       THEN file' = [file EXCEPT ![c] = TRUE] /\ SetStatus(c, "PENDING_ANCHOR")
       ELSE UNCHANGED <<file, status>>
  /\ IssuerAt(c, "anchor")
  /\ UNCHANGED <<attempts, revocation, rowStatus, latest, audit,
                 phase, revoker, sweeper, listener>>

(* One transaction: the file row and PENDING_STORAGE -> PENDING_ANCHOR. *)
StoreFile(c) ==
  /\ issuer[c].pc = "store"
  /\ IF Moves(c, "PENDING_STORAGE", "PENDING_ANCHOR")
       THEN /\ file' = [file EXCEPT ![c] = TRUE]
            /\ SetStatus(c, "PENDING_ANCHOR")
            /\ IssuerAt(c, "anchor")
       ELSE IssuerEnds(c, "ended") /\ UNCHANGED <<file, status>>
  /\ UNCHANGED <<attempts, revocation, rowStatus, latest, audit,
                 phase, revoker, sweeper, listener>>

(* The hash of a broadcast anchor reaches the request. *)
AnchorSent(c) ==
  /\ issuer[c].pc = "anchor"
  /\ \E t \in Tx :
       /\ t.cert = c /\ t.type = "ISSUE"
       /\ Broadcast(t)
       /\ issuer' = [issuer EXCEPT ![c].pc = "settle", ![c].tx = t]
  /\ UNCHANGED <<db, revoker, sweeper, listener>>

AfterFailure_OneTooMany(n) == IF n <= AnchorTries THEN "anchor" ELSE "check"

(* withRetry: after n failed attempts, once more or no more. *)
AfterFailure(n) == IF n < AnchorTries THEN "anchor" ELSE "check"

(* The call fails, before the broadcast or after it with its answer lost. *)
AnchorFails(c) ==
  /\ issuer[c].pc = "anchor"
  /\ \/ UNCHANGED phase
     \/ \E t \in Tx : t.cert = c /\ t.type = "ISSUE" /\ Broadcast(t)
  /\ issuer' = [issuer EXCEPT
       ![c].tries = @ + 1,
       ![c].pc = AfterFailure(issuer[c].tries + 1)]
  /\ UNCHANGED <<db, revoker, sweeper, listener>>

(* Before giving up, ask the chain; the question may fail too. *)
CheckAnchor(c) ==
  /\ issuer[c].pc = "check"
  /\ \/ IsIssued(c) /\ IssuerAt(c, "recover")
     \/ IssuerEnds(c, "ended")
  /\ UNCHANGED <<db, phase, revoker, sweeper, listener>>

(* alreadyAnchored: the last transaction only moves the status, to ACTIVE.
   transition audits a rejection on the transaction's own client, so the
   rollback takes the audit entry with it. *)
RecoverAnchored(c) ==
  /\ issuer[c].pc = "recover"
  /\ IF Moves(c, "PENDING_ANCHOR", "ACTIVE")
       THEN SetStatus(c, "ACTIVE") /\ IssuerEnds(c, "ended")
       ELSE IssuerEnds(c, "rejected") /\ UNCHANGED status
  /\ UNCHANGED <<attempts, file, revocation, rowStatus, latest, audit,
                 phase, revoker, sweeper, listener>>

(* One transaction: the ISSUE row and PENDING_ANCHOR -> ANCHORING. *)
SettleAnchor(c) ==
  /\ issuer[c].pc = "settle"
  /\ IF Moves(c, "PENDING_ANCHOR", "ANCHORING")
       THEN /\ InsertRow(issuer[c].tx)
            /\ SetStatus(c, "ANCHORING")
            /\ IssuerEnds(c, "ended")
       ELSE IssuerEnds(c, "ended") /\ UNCHANGED <<rowStatus, latest, status>>
  /\ UNCHANGED <<attempts, file, revocation, audit,
                 phase, revoker, sweeper, listener>>

(* A crash of the process, or a database error at any await. *)
IssuerDies(c) ==
  /\ issuer[c].pc \notin {"none", "ended", "rejected"}
  /\ IssuerEnds(c, "ended")
  /\ UNCHANGED <<db, phase, revoker, sweeper, listener>>

-----------------------------------------------------------------------------
(* revocationService.revoke.  Requests it turns down change nothing.       *)

RevokerIs(r, rec) == revoker' = [revoker EXCEPT ![r] = rec]

RevokeRequest_AnyStatus(r, c) ==
  /\ revoker[r].pc = "idle"
  /\ status[c] # "ABSENT"
  /\ RevokerIs(r, [pc |-> "send", cert |-> c, tx |-> NoTx])
  /\ UNCHANGED <<db, phase, issuer, sweeper, listener>>

(* The request's reason and ownership are in order and the row is ACTIVE. *)
RevokeRequest(r, c) ==
  /\ revoker[r].pc = "idle"
  /\ status[c] = "ACTIVE"
  /\ RevokerIs(r, [pc |-> "send", cert |-> c, tx |-> NoTx])
  /\ UNCHANGED <<db, phase, issuer, sweeper, listener>>

(* The transaction is broadcast before anything is written down. *)
RevokeSent(r) ==
  /\ revoker[r].pc = "send"
  /\ \E t \in Tx :
       /\ t.cert = revoker[r].cert /\ t.type = "REVOKE"
       /\ Broadcast(t)
       /\ RevokerIs(r, [revoker[r] EXCEPT !.pc = "commit", !.tx = t])
  /\ UNCHANGED <<db, issuer, sweeper, listener>>

(* The call fails, possibly after the broadcast; it is not retried. *)
RevokeFails(r) ==
  /\ revoker[r].pc = "send"
  /\ \/ UNCHANGED phase
     \/ \E t \in Tx :
          t.cert = revoker[r].cert /\ t.type = "REVOKE" /\ Broadcast(t)
  /\ RevokerIs(r, NoRevoke)
  /\ UNCHANGED <<db, issuer, sweeper, listener>>

RevokeCommit_NoTransaction(r) ==
  LET c == revoker[r].cert  t == revoker[r].tx IN
  /\ revoker[r].pc = "commit"
  /\ InsertRow(t)
  /\ IF revocation[c] = NoTx /\ Moves(c, "ACTIVE", "REVOKING")
       THEN revocation' = [revocation EXCEPT ![c] = t] /\ SetStatus(c, "REVOKING")
       ELSE UNCHANGED <<revocation, status>>
  /\ RevokerIs(r, NoRevoke)
  /\ UNCHANGED <<attempts, file, audit, phase, issuer, sweeper, listener>>

(* One transaction: the revocation row (certificate_id is UNIQUE), the
   REVOKE row attached to it, and ACTIVE -> REVOKING. *)
RevokeCommit(r) ==
  LET c == revoker[r].cert  t == revoker[r].tx IN
  /\ revoker[r].pc = "commit"
  /\ IF revocation[c] = NoTx /\ Moves(c, "ACTIVE", "REVOKING")
       THEN /\ revocation' = [revocation EXCEPT ![c] = t]
            /\ InsertRow(t)
            /\ SetStatus(c, "REVOKING")
       ELSE UNCHANGED <<revocation, rowStatus, latest, status>>
  /\ RevokerIs(r, NoRevoke)
  /\ UNCHANGED <<attempts, file, audit, phase, issuer, sweeper, listener>>

RevokerDies(r) ==
  /\ revoker[r].pc # "idle"
  /\ RevokerIs(r, NoRevoke)
  /\ UNCHANGED <<db, phase, issuer, sweeper, listener>>

-----------------------------------------------------------------------------
(* The event listener.  The event of a mined transaction may reach it any
   number of times, live or in a replay, or never; handlers of different
   events interleave. *)

(* The state an event of this type is awaited in, and where it leads. *)
Pending(ty) == IF ty = "ISSUE" THEN "ANCHORING" ELSE "REVOKING"
Target(st)  == IF st = "ANCHORING" THEN "ACTIVE" ELSE "REVOKED"

ListenerAt(t, pc) == listener' = [listener EXCEPT ![t] = pc]

(* handleAnchored / handleRevoked read the row; in any other state the event
   is ignored. *)
EventArrives(t) ==
  /\ listener[t] = "idle"
  /\ Mined(t)
  /\ status[t.cert] = Pending(t.type)
  /\ ListenerAt(t, "receipt")
  /\ UNCHANGED <<db, phase, issuer, revoker, sweeper>>

EventTooShallow(t) ==
  /\ listener[t] = "receipt"
  /\ phase[t] # "deep"
  /\ ListenerAt(t, "idle")
  /\ UNCHANGED <<db, phase, issuer, revoker, sweeper>>

EventConfirms(t) ==
  /\ listener[t] = "receipt"
  /\ phase[t] = "deep"
  /\ MarkRow(t, "CONFIRMED")
  /\ ListenerAt(t, "advance")
  /\ UNCHANGED <<status, attempts, file, revocation, latest, audit,
                 phase, issuer, revoker, sweeper>>

(* A lost compare-and-set is logged and dropped. *)
EventAdvances(t) ==
  LET c == t.cert  from == Pending(t.type) IN
  /\ listener[t] = "advance"
  /\ IF Moves(c, from, Target(from)) THEN SetStatus(c, Target(from))
                                     ELSE UNCHANGED status
  /\ ListenerAt(t, "idle")
  /\ UNCHANGED <<attempts, file, revocation, rowStatus, latest, audit,
                 phase, issuer, revoker, sweeper>>

ListenerDies(t) ==
  /\ listener[t] # "idle"
  /\ ListenerAt(t, "idle")
  /\ UNCHANGED <<db, phase, issuer, revoker, sweeper>>

-----------------------------------------------------------------------------
(* The reconciler.  A handler works on the row as findStalled returned it:
   its job is the status read then.  Sweeps may overlap.                   *)

SweeperAt(s, pc) == sweeper' = [sweeper EXCEPT ![s].pc = pc]
SweepEnds(s)     == sweeper' = [sweeper EXCEPT ![s] = NoSweep]

(* findStalled.  How long a request may take is not bounded, so a row can
   be stalled while its request is still running. *)
SweepPick(s, c) ==
  /\ sweeper[s].pc = "idle"
  /\ status[c] \in Transient
  /\ sweeper' = [sweeper EXCEPT ![s] =
       [pc |-> IF status[c] = "PENDING_STORAGE" THEN "giveup" ELSE "start",
        job |-> status[c], cert |-> c, tx |-> NoTx]]
  /\ UNCHANGED <<db, phase, issuer, revoker, listener>>

(* PENDING_ANCHOR: chainAdapter.check, then the file row.  Any exception of
   this job is caught and costs an attempt. *)
SweepCheckAnchor(s) ==
  LET c == sweeper[s].cert IN
  /\ sweeper[s].pc = "start" /\ sweeper[s].job = "PENDING_ANCHOR"
  /\ \/ IsIssued(c) /\ SweeperAt(s, "recover")
     \/ ~IsIssued(c) /\ file[c] /\ SweeperAt(s, "anchor")
     \/ SweeperAt(s, "bump")
  /\ UNCHANGED <<db, phase, issuer, revoker, listener>>

(* The anchor is there already: PENDING_ANCHOR -> ACTIVE. *)
SweepRecover(s) ==
  LET c == sweeper[s].cert IN
  /\ sweeper[s].pc = "recover"
  /\ IF Moves(c, "PENDING_ANCHOR", "ACTIVE")
       THEN SetStatus(c, "ACTIVE") /\ SweepEnds(s) /\ UNCHANGED audit
       ELSE /\ AuditRejected(c, "PENDING_ANCHOR", "ACTIVE")
            /\ SweeperAt(s, "bump")
            /\ UNCHANGED status
  /\ UNCHANGED <<attempts, file, revocation, rowStatus, latest,
                 phase, issuer, revoker, listener>>

SweepAnchorSent(s) ==
  /\ sweeper[s].pc = "anchor"
  /\ \E t \in Tx :
       /\ t.cert = sweeper[s].cert /\ t.type = "ISSUE"
       /\ Broadcast(t)
       /\ sweeper' = [sweeper EXCEPT ![s].pc = "record", ![s].tx = t]
  /\ UNCHANGED <<db, issuer, revoker, listener>>

SweepAnchorFails(s) ==
  /\ sweeper[s].pc = "anchor"
  /\ \/ UNCHANGED phase
     \/ \E t \in Tx :
          t.cert = sweeper[s].cert /\ t.type = "ISSUE" /\ Broadcast(t)
  /\ SweeperAt(s, "bump")
  /\ UNCHANGED <<db, issuer, revoker, listener>>

(* The row and the status are two statements here, not one transaction. *)
SweepRecord(s) ==
  /\ sweeper[s].pc = "record"
  /\ InsertRow(sweeper[s].tx)
  /\ SweeperAt(s, "advance")
  /\ UNCHANGED <<status, attempts, file, revocation, audit,
                 phase, issuer, revoker, listener>>

SweepAdvance(s) ==
  LET c == sweeper[s].cert IN
  /\ sweeper[s].pc = "advance"
  /\ IF Moves(c, "PENDING_ANCHOR", "ANCHORING")
       THEN SetStatus(c, "ANCHORING") /\ SweepEnds(s)
       ELSE SweeperAt(s, "bump") /\ UNCHANGED status
  /\ UNCHANGED <<attempts, file, revocation, rowStatus, latest, audit,
                 phase, issuer, revoker, listener>>

SweepStatementFails_GoesOn(s) ==
  /\ sweeper[s].pc \in {"recover", "record", "advance"}
  /\ SweeperAt(s, IF sweeper[s].pc = "record" THEN "advance" ELSE "bump")
  /\ UNCHANGED <<db, phase, issuer, revoker, listener>>

(* A statement of the PENDING_ANCHOR job fails, the row's INSERT included. *)
SweepStatementFails(s) ==
  /\ sweeper[s].pc \in {"recover", "record", "advance"}
  /\ SweeperAt(s, "bump")
  /\ UNCHANGED <<db, phase, issuer, revoker, listener>>

Awaited_IssuedIsEnough(job) == "ISSUE"

(* handleStalledInFlight: the transaction type the job waits for. *)
Awaited(job) == IF job = "ANCHORING" THEN "ISSUE" ELSE "REVOKE"

SweepCheckInFlight_TrustsRow(s) ==
  LET w == sweeper[s] IN
  /\ w.pc = "start" /\ w.job \in {"ANCHORING", "REVOKING"}
  /\ SweeperAt(s, IF latest[w.cert][Awaited(w.job)] # NoTx
                     THEN "findSettled" ELSE "bump")
  /\ UNCHANGED <<db, phase, issuer, revoker, listener>>

SweepCheckInFlight(s) ==
  LET w == sweeper[s] IN
  /\ w.pc = "start" /\ w.job \in {"ANCHORING", "REVOKING"}
  /\ SweeperAt(s, IF OnChain(w.cert, Awaited(w.job))
                     THEN "findSettled" ELSE "bump")
  /\ UNCHANGED <<db, phase, issuer, revoker, listener>>

(* findLatestForCertificate: the row that is confirmed or failed next. *)
SweepFindLatest(s) ==
  LET w == sweeper[s] IN
  /\ w.pc \in {"findSettled", "findStuck"}
  /\ sweeper' = [sweeper EXCEPT
       ![s].pc = IF w.pc = "findSettled" THEN "confirm" ELSE "mark",
       ![s].tx = latest[w.cert][Awaited(w.job)]]
  /\ UNCHANGED <<db, phase, issuer, revoker, listener>>

(* Settled: confirm that row, then move the certificate. *)
SweepConfirm(s) ==
  LET w == sweeper[s] IN
  /\ w.pc = "confirm"
  /\ MarkRow(w.tx, "CONFIRMED")
  /\ SweeperAt(s, "settle")
  /\ UNCHANGED <<status, attempts, file, revocation, latest, audit,
                 phase, issuer, revoker, listener>>

SweepSettle(s) ==
  LET w == sweeper[s] IN
  /\ w.pc = "settle"
  /\ IF Moves(w.cert, w.job, Target(w.job)) THEN SetStatus(w.cert, Target(w.job))
                                            ELSE UNCHANGED status
  /\ SweepEnds(s)
  /\ UNCHANGED <<attempts, file, revocation, rowStatus, latest, audit,
                 phase, issuer, revoker, listener>>

NextAttempt_Reset(n) == 1

(* reconcile_attempts + 1.  The code only asks whether the count has reached
   MaxAttempts, so it stops there. *)
NextAttempt(n) == IF n < MaxAttempts THEN n + 1 ELSE MaxAttempts

(* bumpReconcileAttempts, whatever the status is by now. *)
SweepBump(s) ==
  LET w == sweeper[s]  n == NextAttempt(attempts[w.cert]) IN
  /\ w.pc = "bump"
  /\ attempts' = [attempts EXCEPT ![w.cert] = n]
  /\ IF n < MaxAttempts
       THEN SweepEnds(s)
       ELSE SweeperAt(s, IF w.job = "PENDING_ANCHOR" THEN "giveup"
                                                     ELSE "findStuck")
  /\ UNCHANGED <<status, file, revocation, rowStatus, latest, audit,
                 phase, issuer, revoker, listener>>

SweepMarkFailed_Confirms(s) ==
  LET w == sweeper[s] IN
  /\ w.pc = "mark"
  /\ MarkRow(w.tx, "CONFIRMED")
  /\ SweeperAt(s, "giveup")
  /\ UNCHANGED <<status, attempts, file, revocation, latest, audit,
                 phase, issuer, revoker, listener>>

SweepMarkFailed(s) ==
  LET w == sweeper[s] IN
  /\ w.pc = "mark"
  /\ MarkRow(w.tx, "FAILED")
  /\ SweeperAt(s, "giveup")
  /\ UNCHANGED <<status, attempts, file, revocation, latest, audit,
                 phase, issuer, revoker, listener>>

(* The job's status -> FAILED: at once for PENDING_STORAGE, and after the
   attempts are used up for the others. *)
SweepGiveUp(s) ==
  LET w == sweeper[s] IN
  /\ w.pc = "giveup"
  /\ IF Moves(w.cert, w.job, "FAILED")
       THEN SetStatus(w.cert, "FAILED") /\ UNCHANGED audit
       ELSE AuditRejected(w.cert, w.job, "FAILED") /\ UNCHANGED status
  /\ SweepEnds(s)
  /\ UNCHANGED <<attempts, file, revocation, rowStatus, latest,
                 phase, issuer, revoker, listener>>

(* The worker stops, another statement fails, or the chain does not answer the
   check of an in-flight job: the handler is lost, and its slot is free
   again with the next sweep or the next start. *)
SweeperDies(s) ==
  /\ sweeper[s].pc \notin {"idle", "dead"}
  /\ sweeper' = [sweeper EXCEPT ![s] = [NoSweep EXCEPT !.pc = "dead"]]
  /\ UNCHANGED <<db, phase, issuer, revoker, listener>>

SweeperRestarts(s) ==
  /\ sweeper[s].pc = "dead"
  /\ SweepEnds(s)
  /\ UNCHANGED <<db, phase, issuer, revoker, listener>>

-----------------------------------------------------------------------------
Chain == \E t \in Tx : Mine(t) \/ Deepen(t) \/ Void(t)

Issue(c) ==
  \/ InsertPending(c) \/ Pin(c) \/ StoreFile(c) \/ AnchorSent(c)
  \/ AnchorFails(c) \/ CheckAnchor(c) \/ RecoverAnchored(c)
  \/ SettleAnchor(c) \/ IssuerDies(c)

Revoke(r) ==
  \/ \E c \in Cert : RevokeRequest(r, c)
  \/ RevokeSent(r) \/ RevokeFails(r) \/ RevokeCommit(r) \/ RevokerDies(r)

Listen(t) ==
  \/ EventArrives(t) \/ EventTooShallow(t) \/ EventConfirms(t)
  \/ EventAdvances(t) \/ ListenerDies(t)

Sweep(s) ==
  \/ \E c \in Cert : SweepPick(s, c)
  \/ SweepCheckAnchor(s) \/ SweepRecover(s) \/ SweepAnchorSent(s)
  \/ SweepAnchorFails(s) \/ SweepRecord(s) \/ SweepAdvance(s)
  \/ SweepStatementFails(s)
  \/ SweepCheckInFlight(s) \/ SweepFindLatest(s) \/ SweepConfirm(s)
  \/ SweepSettle(s)
  \/ SweepBump(s) \/ SweepMarkFailed(s) \/ SweepGiveUp(s) \/ SweeperDies(s)
  \/ SweeperRestarts(s)

Next ==
  \/ Chain
  \/ \E c \in Cert : Issue(c)
  \/ \E r \in Revoker : Revoke(r)
  \/ \E t \in Tx : Listen(t)
  \/ \E s \in Sweeper : Sweep(s)

Spec == Init /\ [][Next]_vars

(* The next step of a handler that is not lost. *)
SweepStep(s) ==
  \/ SweepCheckAnchor(s) \/ SweepRecover(s) \/ SweepAnchorSent(s)
  \/ SweepAnchorFails(s) \/ SweepRecord(s) \/ SweepAdvance(s)
  \/ SweepStatementFails(s)
  \/ SweepCheckInFlight(s) \/ SweepFindLatest(s) \/ SweepConfirm(s)
  \/ SweepSettle(s) \/ SweepBump(s) \/ SweepMarkFailed(s) \/ SweepGiveUp(s)
  \/ SweeperRestarts(s)

(* The interval timer sweeps for ever and each sweep picks every stalled row
   (reconciler.js:161-182); a handler goes on unless it is lost; and handlers
   are not lost for ever: the worker may crash and the chain may leave checks
   unanswered, but both end some day.  The requests, the listener and the
   miners owe nothing. *)
Fairness ==
  /\ \A c \in Cert : SF_vars(\E s \in Sweeper : SweepPick(s, c))
  /\ \A s \in Sweeper : WF_vars(SweepStep(s)) /\ <>[][~SweeperDies(s)]_vars

FairSpec == Spec /\ Fairness

-----------------------------------------------------------------------------
(* Safety.                                                                 *)

(* Whatever the database tells the public about a certificate, the chain
   says too: it is anchored before it is ACTIVE, revoked before it is
   REVOKED, although status and chain are only compared in separate steps
   of handlers that may be overtaken (eventListener.js, reconciler.js). *)
PublicIsAnchored ==
  \A c \in Cert : status[c] \in {"ACTIVE", "REVOKING", "REVOKED"} => IsIssued(c)
RevokedIsRevoked ==
  \A c \in Cert : status[c] = "REVOKED" => IsRevoked(c)

(* A revocation is sent to the chain only for a certificate that is public:
   the ACTIVE read by revocationService.js:66 may be old when the
   transaction goes out, yet never so old that the row left the public
   states. *)
OnlyPublicIsRevoked ==
  \A t \in Tx : (t.type = "REVOKE" /\ phase[t] # "unsent")
                  => status[t.cert] \in {"ACTIVE", "REVOKING", "REVOKED"}

(* The document is pinned and recorded before any anchor leaves the process,
   so the reconciler never meets a PENDING_ANCHOR row without a file
   (reconciler.js:66). *)
PinnedBeforeAnchored ==
  /\ \A t \in Tx : (t.type = "ISSUE" /\ phase[t] # "unsent") => file[t.cert]
  /\ \A c \in Cert : status[c] = "PENDING_ANCHOR" => file[c]

(* The revocation row, its transaction row and REVOKING stand or fall
   together: one revocation per certificate, attached to a transaction that
   was sent for it, however many requests raced. *)
RevocationRecorded ==
  \A c \in Cert :
    /\ revocation[c] # NoTx <=> status[c] \in {"REVOKING", "REVOKED"}
    /\ revocation[c] # NoTx =>
         /\ revocation[c].cert = c /\ revocation[c].type = "REVOKE"
         /\ phase[revocation[c]] # "unsent"
         /\ rowStatus[revocation[c]] # "none"
         /\ latest[c]["REVOKE"] = revocation[c]

(* A CONFIRMED row means the chain has that outcome for the certificate,
   though perhaps through another transaction than the row's (the resubmission
   of reconciler.js:90-95). *)
ConfirmedIsOnChain ==
  \A t \in Tx : rowStatus[t] = "CONFIRMED" => OnChain(t.cert, t.type)

(* A certificate that waits for its anchor, or is public, has an ISSUE row,
   and the latest one, whose hash verify shows as proof, names a transaction
   that was broadcast for it: however often the anchor was sent by its request
   and by handlers of stalled rows, whichever of them was told its hash, and
   whichever statement failed between the broadcast, the row and the status
   (issuanceService.js, reconciler.js:81-91). *)
AnchorRecorded ==
  \A c \in Cert :
    status[c] \in {"ANCHORING", "ACTIVE", "REVOKING", "REVOKED"} =>
      LET t == latest[c]["ISSUE"] IN
      /\ t \in Tx /\ t.cert = c /\ t.type = "ISSUE"
      /\ phase[t] # "unsent" /\ rowStatus[t] # "none"

-----------------------------------------------------------------------------
(* Refinement and liveness.                                                *)

(* The pipeline keeps the promise: each of its steps is a step of
   CertificateTrust, or changes neither a status nor a fact on the chain. *)
Trust == INSTANCE CertificateTrust WITH
           issued <- {c \in Cert : IsIssued(c)},
           revoked <- {c \in Cert : IsRevoked(c)}
KeepsTrust == Trust!Spec

(* No certificate stays in the issuing states for ever, whatever died on the
   way: the reconciler (reconciler.js:1-5) brings it to ACTIVE or FAILED. *)
Issuing(c) == status[c] \in {"PENDING_STORAGE", "PENDING_ANCHOR", "ANCHORING"}
IssuanceEnds == \A c \in Cert : Issuing(c) ~> ~Issuing(c)

(* A revocation the chain has accepted and the database knows of becomes
   REVOKED, even if its event is never seen and its row was marked FAILED. *)
RevocationArrives ==
  \A c \in Cert : (status[c] = "REVOKING" /\ IsRevoked(c)) ~> status[c] = "REVOKED"
=============================================================================
