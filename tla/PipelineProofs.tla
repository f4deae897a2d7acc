--------------------------- MODULE PipelineProofs ---------------------------
EXTENDS PipelineInvariant, TLAPS

LEMMA TxFields ==
  ASSUME NEW t \in Tx
  PROVE  t.cert \in Cert /\ t.type \in TxType
BY DEF Tx, TxType

(* What each group of actions leaves alone. *)
LEMMA Frame ==
  /\ Chain => UNCHANGED <<status, attempts, file, revocation, rowStatus, latest,
                          audit, issuer, revoker, sweeper, listener>>
  /\ \A c \in Cert : Issue(c) =>
       UNCHANGED <<attempts, revocation, audit, revoker, sweeper, listener>>
  /\ \A r \in Revoker : Revoke(r) =>
       UNCHANGED <<attempts, file, audit, issuer, sweeper, listener>>
  /\ \A t \in Tx : Listen(t) =>
       UNCHANGED <<attempts, file, revocation, latest, audit, phase,
                   issuer, revoker, sweeper>>
  /\ \A s \in Sweeper : Sweep(s) =>
       UNCHANGED <<file, revocation, issuer, revoker, listener>>
<1>1. Chain => UNCHANGED <<status, attempts, file, revocation, rowStatus, latest,
                           audit, issuer, revoker, sweeper, listener>>
  BY DEF Chain, Mine, Deepen, Void, db
<1>2. ASSUME NEW c \in Cert, Issue(c)
      PROVE  UNCHANGED <<attempts, revocation, audit, revoker, sweeper, listener>>
  BY <1>2 DEF Issue, InsertPending, Pin, StoreFile, AnchorSent, AnchorFails,
              CheckAnchor, RecoverAnchored, SettleAnchor, IssuerDies, db
<1>3. ASSUME NEW r \in Revoker, Revoke(r)
      PROVE  UNCHANGED <<attempts, file, audit, issuer, sweeper, listener>>
  BY <1>3 DEF Revoke, RevokeRequest, RevokeSent, RevokeFails, RevokeCommit,
              RevokerDies, db
<1>4. ASSUME NEW t \in Tx, Listen(t)
      PROVE  UNCHANGED <<attempts, file, revocation, latest, audit, phase,
                         issuer, revoker, sweeper>>
  BY <1>4 DEF Listen, EventArrives, EventTooShallow, EventConfirms,
              EventAdvances, ListenerDies, db
<1>5. ASSUME NEW s \in Sweeper, Sweep(s)
      PROVE  UNCHANGED <<file, revocation, issuer, revoker, listener>>
  BY <1>5 DEF Sweep, SweepPick, SweepCheckAnchor, SweepRecover,
              SweepAnchorSent, SweepAnchorFails, SweepRecord, SweepAdvance, SweepStatementFails,
              SweepCheckInFlight, SweepFindLatest, SweepConfirm, SweepSettle,
              SweepBump, SweepMarkFailed, SweepGiveUp, SweeperDies,
              SweeperRestarts, db
<1> QED BY <1>1, <1>2, <1>3, <1>4, <1>5

-----------------------------------------------------------------------------
(* The processes' own records keep their types. *)

LEMMA IssuerType ==
  ASSUME ConstantsAssumption, TypeOK, IssuerFacts, NEW c \in Cert, Issue(c)
  PROVE  issuer' \in [Cert -> Issuance]
<1>1. issuer \in [Cert -> Issuance]
  BY DEF TypeOK
<1>2. ASSUME NEW pc \in IssuerPC, IssuerAt(c, pc) \/ IssuerEnds(c, pc)
      PROVE  issuer' \in [Cert -> Issuance]
  <2>1. [pc |-> pc, tx |-> NoTx, tries |-> 0] \in Issuance
    BY DEF Issuance, ConstantsAssumption
  <2>2. [issuer[c] EXCEPT !.pc = pc] \in Issuance
    BY <1>1 DEF Issuance
  <2>3. CASE IssuerAt(c, pc)
    <3>1. issuer' = [issuer EXCEPT ![c] = [issuer[c] EXCEPT !.pc = pc]]
      BY <2>3 DEF IssuerAt
    <3> QED BY <1>1, <2>2, <3>1
  <2>4. CASE IssuerEnds(c, pc)
    BY <1>1, <2>1, <2>4 DEF IssuerEnds
  <2> QED BY <1>2, <2>3, <2>4
<1>3. CASE AnchorSent(c)
  <2>1. PICK t \in Tx :
          issuer' = [issuer EXCEPT ![c].pc = "settle", ![c].tx = t]
    BY <1>3 DEF AnchorSent
  <2>2. [issuer[c] EXCEPT !.pc = "settle", !.tx = t] \in Issuance
    BY <1>1 DEF Issuance, IssuerPC
  <2> QED BY <1>1, <2>1, <2>2
<1>4. CASE AnchorFails(c)
  <2>1. issuer[c].tries + 1 \in 0..AnchorTries
    BY <1>1, <1>4 DEF AnchorFails, Issuance, IssuerFacts, ConstantsAssumption
  <2>2. AfterFailure(issuer[c].tries + 1) \in IssuerPC
    BY DEF AfterFailure, IssuerPC
  <2> QED BY <1>1, <1>4, <2>1, <2>2 DEF AnchorFails, Issuance
<1> QED
  BY <1>2, <1>3, <1>4
  DEF Issue, InsertPending, Pin, StoreFile, CheckAnchor, RecoverAnchored,
      SettleAnchor, IssuerDies, IssuerPC

LEMMA RevokerType ==
  ASSUME TypeOK, NEW r \in Revoker, Revoke(r)
  PROVE  revoker' \in [Revoker -> Revocation]
<1>1. revoker \in [Revoker -> Revocation]
  BY DEF TypeOK
<1>2. NoRevoke \in Revocation
  BY DEF NoRevoke, Revocation, RevokerPC
<1>3. CASE \E c \in Cert : RevokeRequest(r, c)
  BY <1>1, <1>3 DEF RevokeRequest, RevokerIs, Revocation, RevokerPC
<1>4. CASE RevokeSent(r)
  BY <1>1, <1>4 DEF RevokeSent, RevokerIs, Revocation, RevokerPC
<1>5. CASE RevokerIs(r, NoRevoke)
  BY <1>1, <1>2, <1>5 DEF RevokerIs
<1> QED
  BY <1>3, <1>4, <1>5 DEF Revoke, RevokeFails, RevokeCommit, RevokerDies

LEMMA SweeperType ==
  ASSUME TypeOK, SweeperFacts, NEW s \in Sweeper, Sweep(s)
  PROVE  sweeper' \in [Sweeper -> Handler]
<1>1. sweeper \in [Sweeper -> Handler]
  BY DEF TypeOK
<1>2. NoSweep \in Handler
  BY DEF NoSweep, Handler, SweeperPC, Transient
<1>3. CASE SweepEnds(s) \/ \E pc \in SweeperPC : SweeperAt(s, pc)
  BY <1>1, <1>2, <1>3 DEF SweepEnds, SweeperAt, Handler
<1>4. CASE \E c \in Cert : SweepPick(s, c)
  <2>1. PICK c \in Cert : SweepPick(s, c)
    BY <1>4
  <2>2. [pc |-> IF status[c] = "PENDING_STORAGE" THEN "giveup" ELSE "start",
         job |-> status[c], cert |-> c, tx |-> NoTx] \in Handler
    BY <2>1 DEF SweepPick, Handler, SweeperPC
  <2> QED BY <1>1, <2>1, <2>2 DEF SweepPick
<1>5. CASE SweepAnchorSent(s)
  <2>1. PICK t \in Tx :
          sweeper' = [sweeper EXCEPT ![s].pc = "record", ![s].tx = t]
    BY <1>5 DEF SweepAnchorSent
  <2>2. [sweeper[s] EXCEPT !.pc = "record", !.tx = t] \in Handler
    BY <1>1 DEF Handler, SweeperPC
  <2> QED BY <1>1, <2>1, <2>2
<1>6. CASE SweepFindLatest(s)
  <2> DEFINE w == sweeper[s]
             t == latest[w.cert][Awaited(w.job)]
             pc == IF w.pc = "findSettled" THEN "confirm" ELSE "mark"
  <2>1. w.cert \in Cert
    BY <1>6 DEF SweepFindLatest, SweeperFacts, HandlerFacts
  <2>2. Awaited(w.job) \in TxType
    BY DEF Awaited, TxType
  <2>3. t \in Tx \union {NoTx}
    BY <2>1, <2>2 DEF TypeOK
  <2>4. pc \in SweeperPC
    BY DEF SweeperPC
  <2>5. sweeper' = [sweeper EXCEPT ![s] = [w EXCEPT !.pc = pc, !.tx = t]]
    BY <1>6 DEF SweepFindLatest
  <2>6. [w EXCEPT !.pc = pc, !.tx = t] \in Handler
    <3> HIDE DEF t, pc
    <3> QED BY <1>1, <2>3, <2>4 DEF Handler
  <2> QED BY <1>1, <2>5, <2>6
<1>7. CASE SweeperDies(s)
  BY <1>1, <1>2, <1>7 DEF SweeperDies, Handler, SweeperPC
<1> QED
  BY <1>3, <1>4, <1>5, <1>6, <1>7
  DEF Sweep, SweepCheckAnchor, SweepRecover, SweepAnchorFails, SweepRecord,
      SweepAdvance, SweepStatementFails, SweepCheckInFlight, SweepConfirm, SweepSettle, SweepBump,
      SweepMarkFailed, SweepGiveUp, SweeperRestarts, SweeperPC
-----------------------------------------------------------------------------
(* How the status moves: a row is created by its request, and follows a    *)
(* legal edge otherwise; it becomes ACTIVE and REVOKED only with the fact  *)
(* on the chain, and nothing takes REVOKING back to ACTIVE.                *)

StatusStep(c, to) ==
  /\ status' = [status EXCEPT ![c] = to]
  /\ \/ /\ issuer[c].pc = "none" /\ issuer'[c].pc = "pin"
        /\ to = "PENDING_STORAGE"
     \/ /\ <<status[c], to>> \in LegalEdge
        /\ to = "ACTIVE" => status[c] = "ANCHORING" /\ IsIssued(c)
        /\ to = "REVOKED" => IsRevoked(c)
        /\ to = "ANCHORING" => latest'[c]["ISSUE"] # NoTx

LEMMA EdgeStates ==
  ASSUME NEW a, NEW b, <<a, b>> \in LegalEdge
  PROVE  a \in CertState /\ b \in CertState
BY DEF LegalEdge, CertState

LEMMA StatusMoves ==
  ASSUME TypeOK, Facts, Next
  PROVE  UNCHANGED status \/ \E c \in Cert, to \in CertState : StatusStep(c, to)
<1> DEFINE Goal == UNCHANGED status
                     \/ \E c \in Cert, to \in CertState : StatusStep(c, to)
<1>1. ASSUME NEW c \in Cert, NEW from, NEW to,
             Moves(c, from, to), SetStatus(c, to),
             to = "ACTIVE" => from = "ANCHORING" /\ IsIssued(c),
             to = "REVOKED" => IsRevoked(c),
             to = "ANCHORING" => latest'[c]["ISSUE"] # NoTx
      PROVE  Goal
  BY <1>1, EdgeStates DEF Moves, SetStatus, StatusStep
<1>2. ASSUME NEW c \in Cert, Issue(c) PROVE Goal
  <2>1. CASE InsertPending(c)
    <3>1. issuer'[c].pc = "pin"
      BY <2>1 DEF InsertPending, IssuerAt, TypeOK, Issuance
    <3> QED BY <2>1, <3>1 DEF InsertPending, SetStatus, StatusStep, CertState
  <2>2. CASE StoreFile(c)
    BY <2>2, <1>1 DEF StoreFile
  <2>3. CASE RecoverAnchored(c)
    BY <2>3 DEF RecoverAnchored, Moves, LegalEdge
  <2>4. CASE SettleAnchor(c)
    <3>1. Of(issuer[c].tx, c, "ISSUE") /\ issuer[c].tx # NoTx
      BY <2>4, ConstantsAssumption DEF SettleAnchor, Facts, IssuerFacts, Of
    <3>2. CASE InsertRow(issuer[c].tx)
      <4>1. latest'[c] = [latest[c] EXCEPT !["ISSUE"] = issuer[c].tx]
        BY <3>1, <3>2 DEF InsertRow, Of, TypeOK
      <4>2. latest'[c]["ISSUE"] # NoTx
        BY <3>1, <4>1 DEF TypeOK, TxType
      <4> QED BY <2>4, <4>2, <1>1 DEF SettleAnchor
    <3> QED BY <2>4, <3>2 DEF SettleAnchor
  <2> QED
    BY <1>2, <2>1, <2>2, <2>3, <2>4
    DEF Issue, Pin, AnchorSent, AnchorFails, CheckAnchor, IssuerDies, db
<1>3. ASSUME NEW r \in Revoker, Revoke(r) PROVE Goal
  <2>1. CASE RevokeCommit(r)
    <3>1. revoker[r].cert \in Cert
      BY <2>1 DEF RevokeCommit, Facts, RevokerFacts
    <3> QED BY <2>1, <3>1, <1>1 DEF RevokeCommit
  <2> QED
    BY <1>3, <2>1 DEF Revoke, RevokeRequest, RevokeSent, RevokeFails,
                      RevokerDies, db
<1>4. ASSUME NEW t \in Tx, Listen(t) PROVE Goal
  <2>1. CASE EventAdvances(t)
    <3>1. t.cert \in Cert /\ t.type \in TxType
      BY TxFields
    <3>2. OnChain(t.cert, t.type)
      BY <2>1 DEF EventAdvances, Facts, ListenerFacts, OnChain
    <3> QED
      BY <2>1, <3>1, <3>2, <1>1
      DEF EventAdvances, Pending, Target, TxType, IsIssued, IsRevoked
  <2> QED
    BY <1>4, <2>1 DEF Listen, EventArrives, EventTooShallow, EventConfirms,
                      ListenerDies, db
<1>5. ASSUME NEW s \in Sweeper, Sweep(s) PROVE Goal
  <2> DEFINE w == sweeper[s]
  <2>1. ASSUME w.pc \notin {"idle", "dead"}
        PROVE  w.cert \in Cert
    BY <2>1 DEF Facts, SweeperFacts, HandlerFacts
  <2>2. w.job \in Transient
    BY DEF TypeOK, Handler
  <2>3. CASE SweepRecover(s)
    BY <2>3 DEF SweepRecover, Moves, LegalEdge
  <2>4. CASE SweepAdvance(s)
    <3>1. latest'[w.cert]["ISSUE"] # NoTx
      BY <2>4 DEF SweepAdvance, Facts, SweeperFacts, HandlerFacts
    <3> QED BY <2>1, <2>4, <3>1, <1>1 DEF SweepAdvance
  <2>5. CASE SweepSettle(s)
    <3>1. w.job \in {"ANCHORING", "REVOKING"} /\ OnChain(w.cert, Awaited(w.job))
      BY <2>5 DEF SweepSettle, Facts, SweeperFacts, HandlerFacts
    <3> QED
      BY <2>1, <2>5, <3>1, <1>1
      DEF SweepSettle, Target, Awaited, IsIssued, IsRevoked
  <2>6. CASE SweepGiveUp(s)
    BY <2>1, <2>6, <1>1 DEF SweepGiveUp
  <2> QED
    BY <1>5, <2>3, <2>4, <2>5, <2>6
    DEF Sweep, SweepPick, SweepCheckAnchor, SweepAnchorSent, SweepAnchorFails,
        SweepRecord, SweepStatementFails, SweepCheckInFlight, SweepFindLatest, SweepConfirm,
        SweepBump, SweepMarkFailed, SweeperDies, SweeperRestarts, db
<1>6. CASE Chain
  BY <1>6, Frame
<1> QED
  BY <1>2, <1>3, <1>4, <1>5, <1>6 DEF Next
(* Public states are never left for the others; a stored row never goes
   back to be stored. *)
LEMMA StatusGrows ==
  ASSUME TypeOK, Facts, Next, NEW c \in Cert
  PROVE  /\ status[c] \in Public => status'[c] \in Public
         /\ (status[c] \notin {"ABSENT", "PENDING_STORAGE"})
              => status'[c] \notin {"ABSENT", "PENDING_STORAGE"}
<1>1. CASE UNCHANGED status
  BY <1>1
<1>2. ASSUME NEW d \in Cert, NEW to \in CertState, StatusStep(d, to)
      PROVE  /\ status[c] \in Public => status'[c] \in Public
             /\ (status[c] \notin {"ABSENT", "PENDING_STORAGE"})
                  => status'[c] \notin {"ABSENT", "PENDING_STORAGE"}
  <2>1. CASE c # d
    BY <1>2, <2>1 DEF StatusStep, TypeOK
  <2>2. CASE c = d /\ issuer[d].pc = "none" /\ to = "PENDING_STORAGE"
    <3>1. status[c] = "ABSENT"
      BY <2>2 DEF Facts, Stages
    <3> QED BY <3>1 DEF Public
  <2>3. CASE c = d /\ <<status[d], to>> \in LegalEdge
    <3>1. status'[c] = to
      BY <1>2, <2>3 DEF StatusStep, TypeOK
    <3> QED BY <2>3, <3>1 DEF LegalEdge, Public
  <2> QED BY <1>2, <2>1, <2>2, <2>3 DEF StatusStep
<1> QED BY <1>1, <1>2, StatusMoves

-----------------------------------------------------------------------------
(* How the chain moves: what was sent or mined stays so; who sends, and    *)
(* what the contract lets through.                                         *)

PhaseStep(t, p) ==
  /\ phase' = [phase EXCEPT ![t] = p]
  /\ p \in Phase \ {"unsent"}
  /\ Mined(t) => p = "deep"
  /\ ~Sent(t) => p = "mempool" /\ Accepts(t.cert, t.type)
  /\ (~Mined(t) /\ p \in {"mined", "deep"}) => Sent(t) /\ Accepts(t.cert, t.type)
  /\ (~Sent(t) /\ t.type = "ISSUE") =>
       file[t.cert]
  /\ (~Sent(t) /\ t.type = "REVOKE") =>
       status[t.cert] \in Public

LEMMA PhaseMoves ==
  ASSUME TypeOK, Facts, Next
  PROVE  UNCHANGED phase \/ \E t \in Tx, p \in Phase : PhaseStep(t, p)
<1> DEFINE Goal == UNCHANGED phase \/ \E t \in Tx, p \in Phase : PhaseStep(t, p)
<1>1. ASSUME NEW t \in Tx, Broadcast(t),
             t.type = "ISSUE" => file[t.cert],
             t.type = "REVOKE" => status[t.cert] \in Public
      PROVE  Goal
  BY <1>1 DEF Broadcast, PhaseStep, Mined, Sent, Phase
<1>2. CASE Chain
  <2>1. PICK t \in Tx : Mine(t) \/ Deepen(t) \/ Void(t)
    BY <1>2 DEF Chain
  <2> QED
    BY <2>1 DEF Mine, Deepen, Void, PhaseStep, Mined, Sent, Phase
<1>3. ASSUME NEW c \in Cert, Issue(c) PROVE Goal
  <2>1. CASE AnchorSent(c)
    BY <2>1, <1>1 DEF AnchorSent, Facts, IssuerFacts
  <2>2. CASE AnchorFails(c)
    BY <2>2, <1>1 DEF AnchorFails, Facts, IssuerFacts
  <2> QED
    BY <1>3, <2>1, <2>2
    DEF Issue, InsertPending, Pin, StoreFile, CheckAnchor, RecoverAnchored,
        SettleAnchor, IssuerDies
<1>4. ASSUME NEW r \in Revoker, Revoke(r) PROVE Goal
  <2>1. CASE RevokeSent(r)
    BY <2>1, <1>1 DEF RevokeSent, Facts, RevokerFacts
  <2>2. CASE RevokeFails(r)
    BY <2>2, <1>1 DEF RevokeFails, Facts, RevokerFacts
  <2> QED
    BY <1>4, <2>1, <2>2 DEF Revoke, RevokeRequest, RevokeCommit, RevokerDies
<1>5. ASSUME NEW t \in Tx, Listen(t) PROVE Goal
  BY <1>5, Frame
<1>6. ASSUME NEW s \in Sweeper, Sweep(s) PROVE Goal
  <2>1. CASE SweepAnchorSent(s)
    BY <2>1, <1>1 DEF SweepAnchorSent, Facts, SweeperFacts, HandlerFacts
  <2>2. CASE SweepAnchorFails(s)
    BY <2>2, <1>1 DEF SweepAnchorFails, Facts, SweeperFacts, HandlerFacts
  <2> QED
    BY <1>6, <2>1, <2>2
    DEF Sweep, SweepPick, SweepCheckAnchor, SweepRecover, SweepRecord,
        SweepAdvance, SweepStatementFails, SweepCheckInFlight, SweepFindLatest, SweepConfirm,
        SweepSettle, SweepBump, SweepMarkFailed, SweepGiveUp, SweeperDies,
        SweeperRestarts
<1> QED
  BY <1>2, <1>3, <1>4, <1>5, <1>6 DEF Next

LEMMA ChainGrows ==
  ASSUME TypeOK, Facts, Next
  PROVE  /\ \A t \in Tx : (Sent(t) => Sent(t)') /\ (Mined(t) => Mined(t)')
         /\ \A c \in Cert, ty \in TxType : OnChain(c, ty) => OnChain(c, ty)'
<1>1. ASSUME NEW t \in Tx
      PROVE  (Sent(t) => Sent(t)') /\ (Mined(t) => Mined(t)')
  BY PhaseMoves DEF PhaseStep, Sent, Mined, TypeOK
<1> QED BY <1>1 DEF OnChain
-----------------------------------------------------------------------------
(* The transaction rows: rows are only inserted for a transaction of the   *)
(* certificate and type they are filed under, and CONFIRMED only with that *)
(* outcome on the chain.                                                   *)

RowStep(t, st) ==
  /\ rowStatus' = [rowStatus EXCEPT ![t] = st]
  /\ st \in {"PENDING", "CONFIRMED", "FAILED"}
  /\ st = "CONFIRMED" => OnChain(t.cert, t.type)

LEMMA RowMoves ==
  ASSUME TypeOK, Facts, Next
  PROVE  UNCHANGED rowStatus
           \/ \E t \in Tx, st \in {"PENDING", "CONFIRMED", "FAILED"} : RowStep(t, st)
<1> DEFINE Row == {"PENDING", "CONFIRMED", "FAILED"}
           Goal == UNCHANGED rowStatus \/ \E t \in Tx, st \in Row : RowStep(t, st)
<1>1. ASSUME NEW c \in Cert, Issue(c) PROVE Goal
  <2>1. CASE SettleAnchor(c)
    <3>1. issuer[c].tx \in Tx
      BY <2>1 DEF SettleAnchor, Facts, IssuerFacts, Of
    <3> QED BY <2>1, <3>1 DEF SettleAnchor, InsertRow, RowStep
  <2> QED
    BY <1>1, <2>1
    DEF Issue, InsertPending, Pin, StoreFile, AnchorSent, AnchorFails,
        CheckAnchor, RecoverAnchored, IssuerDies, db
<1>2. ASSUME NEW r \in Revoker, Revoke(r) PROVE Goal
  <2>1. CASE RevokeCommit(r)
    <3>1. revoker[r].tx \in Tx
      BY <2>1 DEF RevokeCommit, Facts, RevokerFacts, Of
    <3> QED BY <2>1, <3>1 DEF RevokeCommit, InsertRow, RowStep
  <2> QED
    BY <1>2, <2>1 DEF Revoke, RevokeRequest, RevokeSent, RevokeFails,
                      RevokerDies, db
<1>3. ASSUME NEW t \in Tx, Listen(t) PROVE Goal
  <2>1. CASE EventConfirms(t)
    <3>1. OnChain(t.cert, t.type)
      BY <2>1 DEF EventConfirms, OnChain, Mined
    <3> QED BY <2>1, <3>1 DEF EventConfirms, MarkRow, RowStep
  <2> QED
    BY <1>3, <2>1 DEF Listen, EventArrives, EventTooShallow, EventAdvances,
                      ListenerDies, db
<1>4. ASSUME NEW s \in Sweeper, Sweep(s) PROVE Goal
  <2> DEFINE w == sweeper[s]
  <2>1. w.tx \in Tx \union {NoTx}
    BY DEF TypeOK, Handler
  <2>2. CASE SweepRecord(s)
    <3>1. w.tx \in Tx
      BY <2>2 DEF SweepRecord, Facts, SweeperFacts, HandlerFacts, Of
    <3> QED BY <2>2, <3>1 DEF SweepRecord, InsertRow, RowStep
  <2>3. CASE SweepConfirm(s)
    <3>1. w.tx # NoTx => OnChain(w.tx.cert, w.tx.type)
      BY <2>3 DEF SweepConfirm, Facts, SweeperFacts, HandlerFacts, Of
    <3> QED BY <2>1, <2>3, <3>1 DEF SweepConfirm, MarkRow, RowStep
  <2>4. CASE SweepMarkFailed(s)
    BY <2>1, <2>4 DEF SweepMarkFailed, MarkRow, RowStep
  <2> QED
    BY <1>4, <2>2, <2>3, <2>4
    DEF Sweep, SweepPick, SweepCheckAnchor, SweepRecover, SweepAnchorSent,
        SweepAnchorFails, SweepAdvance,
        SweepStatementFails, SweepCheckInFlight, SweepFindLatest,
        SweepSettle, SweepBump, SweepGiveUp, SweeperDies, SweeperRestarts, db
<1>5. CASE Chain
  BY <1>5, Frame
<1> QED
  BY <1>1, <1>2, <1>3, <1>4, <1>5 DEF Next

LatestStep(t) ==
  /\ Sent(t)
  /\ rowStatus' = [rowStatus EXCEPT ![t] = "PENDING"]
  /\ latest' = [latest EXCEPT ![t.cert][t.type] = t]
  /\ t.type = "REVOKE" => status'[t.cert] = "REVOKING" /\ revocation'[t.cert] = t

LEMMA LatestMoves ==
  ASSUME TypeOK, Facts, Next
  PROVE  UNCHANGED latest \/ \E t \in Tx : LatestStep(t)
<1>1. ASSUME NEW c \in Cert, Issue(c)
      PROVE  UNCHANGED latest \/ \E t \in Tx : LatestStep(t)
  <2>1. CASE SettleAnchor(c)
    <3>1. Of(issuer[c].tx, c, "ISSUE") /\ Sent(issuer[c].tx)
      BY <2>1 DEF SettleAnchor, Facts, IssuerFacts
    <3> QED BY <2>1, <3>1 DEF SettleAnchor, InsertRow, LatestStep, Of
  <2> QED
    BY <1>1, <2>1
    DEF Issue, InsertPending, Pin, StoreFile, AnchorSent, AnchorFails,
        CheckAnchor, RecoverAnchored, IssuerDies, db
<1>2. ASSUME NEW r \in Revoker, Revoke(r)
      PROVE  UNCHANGED latest \/ \E t \in Tx : LatestStep(t)
  <2>1. CASE RevokeCommit(r)
    <3>1. /\ Of(revoker[r].tx, revoker[r].cert, "REVOKE") /\ revoker[r].cert \in Cert
          /\ Sent(revoker[r].tx)
      BY <2>1 DEF RevokeCommit, Facts, RevokerFacts
    <3> DEFINE c == revoker[r].cert
               t == revoker[r].tx
    <3>2. CASE /\ revocation' = [revocation EXCEPT ![c] = t]
               /\ InsertRow(t)
               /\ SetStatus(c, "REVOKING")
      <4>1. status'[c] = "REVOKING" /\ revocation'[c] = t
        BY <3>1, <3>2 DEF SetStatus, TypeOK
      <4> QED BY <3>1, <3>2, <4>1 DEF InsertRow, LatestStep, Of
    <3> QED BY <2>1, <3>2 DEF RevokeCommit
  <2> QED
    BY <1>2, <2>1 DEF Revoke, RevokeRequest, RevokeSent, RevokeFails,
                      RevokerDies, db
<1>3. ASSUME NEW s \in Sweeper, Sweep(s)
      PROVE  UNCHANGED latest \/ \E t \in Tx : LatestStep(t)
  <2>1. CASE SweepRecord(s)
    <3>1. Of(sweeper[s].tx, sweeper[s].cert, "ISSUE") /\ Sent(sweeper[s].tx)
      BY <2>1 DEF SweepRecord, Facts, SweeperFacts, HandlerFacts
    <3> QED BY <2>1, <3>1 DEF SweepRecord, InsertRow, LatestStep, Of
  <2> QED
    BY <1>3, <2>1
    DEF Sweep, SweepPick, SweepCheckAnchor, SweepRecover, SweepAnchorSent,
        SweepAnchorFails, SweepAdvance,
        SweepStatementFails, SweepCheckInFlight, SweepFindLatest,
        SweepConfirm, SweepSettle, SweepBump, SweepMarkFailed, SweepGiveUp,
        SweeperDies, SweeperRestarts, db
<1> QED
  BY <1>1, <1>2, <1>3, Frame DEF Next
-----------------------------------------------------------------------------
LEMMA TypeStep ==
  ASSUME ConstantsAssumption, TypeOK, Facts, Next
  PROVE  TypeOK'
<1>1. status' \in [Cert -> CertState \union {"ABSENT"}]
  BY StatusMoves DEF StatusStep, TypeOK
<1>2. attempts' \in [Cert -> 0..MaxAttempts]
  <2>1. ASSUME NEW s \in Sweeper, SweepBump(s)
        PROVE  attempts' \in [Cert -> 0..MaxAttempts]
    <3>1. sweeper[s].cert \in Cert
      BY <2>1 DEF SweepBump, Facts, SweeperFacts, HandlerFacts
    <3>2. NextAttempt(attempts[sweeper[s].cert]) \in 0..MaxAttempts
      BY <3>1 DEF NextAttempt, TypeOK, ConstantsAssumption
    <3> QED BY <2>1, <3>2 DEF SweepBump, TypeOK
  <2>2. ASSUME NEW s \in Sweeper, Sweep(s), ~SweepBump(s)
        PROVE  UNCHANGED attempts
    BY <2>2
    DEF Sweep, SweepPick, SweepCheckAnchor, SweepRecover, SweepAnchorSent,
        SweepAnchorFails, SweepRecord, SweepAdvance,
        SweepStatementFails, SweepCheckInFlight,
        SweepFindLatest, SweepConfirm, SweepSettle, SweepMarkFailed,
        SweepGiveUp, SweeperDies, SweeperRestarts, db
  <2> QED BY <2>1, <2>2, Frame DEF Next, TypeOK
<1>3. file' \in [Cert -> BOOLEAN]
  <2>1. ASSUME NEW c \in Cert, Issue(c)
        PROVE  UNCHANGED file \/ file' = [file EXCEPT ![c] = TRUE]
    BY <2>1
    DEF Issue, InsertPending, Pin, StoreFile, AnchorSent, AnchorFails,
        CheckAnchor, RecoverAnchored, SettleAnchor, IssuerDies, db
  <2> QED BY <2>1, Frame DEF Next, TypeOK
<1>4. revocation' \in [Cert -> Tx \union {NoTx}]
  <2>1. ASSUME NEW r \in Revoker, Revoke(r)
        PROVE  revocation' \in [Cert -> Tx \union {NoTx}]
    <3> DEFINE c == revoker[r].cert
               t == revoker[r].tx
    <3>1. t \in Tx \union {NoTx}
      BY DEF TypeOK, Revocation
    <3>2. UNCHANGED revocation \/ revocation' = [revocation EXCEPT ![c] = t]
      BY <2>1 DEF Revoke, RevokeRequest, RevokeSent, RevokeFails,
                  RevokeCommit, RevokerDies, db
    <3> QED BY <3>1, <3>2 DEF TypeOK
  <2> QED BY <2>1, Frame DEF Next, TypeOK
<1>5. rowStatus' \in [Tx -> {"none", "PENDING", "CONFIRMED", "FAILED"}]
  BY RowMoves DEF RowStep, TypeOK
<1>6. latest' \in [Cert -> [TxType -> Tx \union {NoTx}]]
  <2>1. ASSUME NEW t \in Tx, LatestStep(t)
        PROVE  latest' \in [Cert -> [TxType -> Tx \union {NoTx}]]
    <3>1. [latest[t.cert] EXCEPT ![t.type] = t] \in [TxType -> Tx \union {NoTx}]
      BY TxFields DEF TypeOK
    <3> QED BY <2>1, <3>1 DEF LatestStep, TypeOK
  <2> QED BY <2>1, LatestMoves DEF TypeOK
<1>7. audit' \subseteq Cert \X CertState \X CertState
  <2>1. ASSUME NEW s \in Sweeper, Sweep(s)
        PROVE  audit' \subseteq Cert \X CertState \X CertState
    <3> DEFINE w == sweeper[s]
    <3>1. ASSUME w.pc \notin {"idle", "dead"}, NEW from \in Transient,
                 NEW to \in CertState, AuditRejected(w.cert, from, to)
          PROVE  audit' \subseteq Cert \X CertState \X CertState
      <4>1. <<w.cert, from, to>> \in Cert \X CertState \X CertState
        BY <3>1 DEF Facts, SweeperFacts, HandlerFacts, Transient, CertState
      <4> QED BY <3>1, <4>1 DEF AuditRejected, TypeOK
    <3>2. CASE SweepRecover(s)
      BY <3>1, <3>2 DEF SweepRecover, Transient, CertState, TypeOK
    <3>3. CASE SweepGiveUp(s)
      <4>1. w.job \in Transient /\ "FAILED" \in CertState
        BY DEF TypeOK, Handler, CertState
      <4> QED BY <3>1, <3>3, <4>1 DEF SweepGiveUp, TypeOK
    <3> QED
      BY <2>1, <3>2, <3>3
      DEF Sweep, SweepPick, SweepCheckAnchor, SweepAnchorSent,
          SweepAnchorFails, SweepRecord, SweepAdvance,
          SweepStatementFails, SweepCheckInFlight,
          SweepFindLatest, SweepConfirm, SweepSettle, SweepBump,
          SweepMarkFailed, SweeperDies, SweeperRestarts, db, TypeOK
  <2> QED BY <2>1, Frame DEF Next, TypeOK
<1>8. phase' \in [Tx -> Phase]
  BY PhaseMoves DEF PhaseStep, TypeOK
<1>9. issuer' \in [Cert -> Issuance]
  BY IssuerType, Frame DEF Next, TypeOK, Facts
<1>10. revoker' \in [Revoker -> Revocation]
  BY RevokerType, Frame DEF Next, TypeOK
<1>11. sweeper' \in [Sweeper -> Handler]
  BY SweeperType, Frame DEF Next, TypeOK, Facts
<1>12. listener' \in [Tx -> {"idle", "receipt", "advance"}]
  <2>1. ASSUME NEW t \in Tx, Listen(t)
        PROVE  \E pc \in {"idle", "receipt", "advance"} : ListenerAt(t, pc)
    BY <2>1 DEF Listen, EventArrives, EventTooShallow, EventConfirms,
                EventAdvances, ListenerDies
  <2> QED BY <2>1, Frame DEF Next, TypeOK, ListenerAt
<1> QED
  BY <1>1, <1>2, <1>3, <1>4, <1>5, <1>6, <1>7, <1>8, <1>9, <1>10, <1>11, <1>12
  DEF TypeOK
-----------------------------------------------------------------------------
(* Each handler's facts survive its own steps and everybody else's.        *)

LEMMA FileGrows ==
  ASSUME TypeOK, Next, NEW c \in Cert, file[c]
  PROVE  file'[c]
<1>1. ASSUME NEW d \in Cert, Issue(d)
      PROVE  UNCHANGED file \/ file' = [file EXCEPT ![d] = TRUE]
  BY <1>1
  DEF Issue, InsertPending, Pin, StoreFile, AnchorSent, AnchorFails,
      CheckAnchor, RecoverAnchored, SettleAnchor, IssuerDies, db
<1> QED BY <1>1, Frame DEF Next, TypeOK

LEMMA StagesStep ==
  ASSUME TypeOK, Facts, Next
  PROVE  Stages'
<1> SUFFICES ASSUME NEW c \in Cert
             PROVE  /\ issuer'[c].pc = "none" => status'[c] = "ABSENT"
                    /\ file'[c] => status'[c] \notin {"ABSENT", "PENDING_STORAGE"}
  BY DEF Stages
<1>1. issuer'[c].pc = "none" => status'[c] = "ABSENT"
  <2> SUFFICES ASSUME issuer'[c].pc = "none"
               PROVE  status'[c] = "ABSENT"
    OBVIOUS
  <2>1. ASSUME NEW d \in Cert, Issue(d)
        PROVE  c # d /\ issuer'[c] = issuer[c]
    <3>1. issuer'[d].pc # "none"
      BY <2>1
      DEF Issue, InsertPending, Pin, StoreFile, AnchorSent, AnchorFails,
          AfterFailure, CheckAnchor, RecoverAnchored, SettleAnchor, IssuerDies,
          IssuerAt, IssuerEnds, TypeOK, Issuance
    <3>2. c # d => issuer'[c] = issuer[c]
      BY <2>1
      DEF Issue, InsertPending, Pin, StoreFile, AnchorSent, AnchorFails,
          CheckAnchor, RecoverAnchored, SettleAnchor, IssuerDies,
          IssuerAt, IssuerEnds, TypeOK
    <3> QED BY <3>1, <3>2
  <2>2. issuer[c].pc = "none"
    BY <2>1, Frame DEF Next
  <2>3. status[c] = "ABSENT"
    BY <2>2 DEF Facts, Stages
  <2>4. ASSUME NEW d \in Cert, NEW to \in CertState, StatusStep(d, to)
        PROVE  status'[c] = status[c]
    <3>1. c # d
      BY <2>3, <2>4 DEF StatusStep, LegalEdge
    <3> QED BY <2>4, <3>1 DEF StatusStep, TypeOK
  <2> QED BY <2>3, <2>4, StatusMoves
<1>2. file'[c] => status'[c] \notin {"ABSENT", "PENDING_STORAGE"}
  <2>1. CASE file[c]
    BY <2>1, StatusGrows DEF Facts, Stages
  <2>2. CASE ~file[c] /\ file'[c]
    <3>1. ASSUME NEW d \in Cert, Issue(d)
          PROVE  StoreFile(d) /\ c = d /\ SetStatus(d, "PENDING_ANCHOR")
      BY <2>2, <3>1
      DEF Issue, InsertPending, Pin, StoreFile, AnchorSent, AnchorFails,
          CheckAnchor, RecoverAnchored, SettleAnchor, IssuerDies, db, TypeOK
    <3>2. SetStatus(c, "PENDING_ANCHOR")
      BY <2>2, <3>1, Frame DEF Next
    <3> QED BY <3>2 DEF SetStatus, TypeOK
  <2> QED BY <2>1, <2>2
<1> QED BY <1>1, <1>2

LEMMA IssuerStep ==
  ASSUME ConstantsAssumption, TypeOK, Facts, Next
  PROVE  IssuerFacts'
<1> DEFINE Good(c) ==
      /\ issuer[c].pc \in {"anchor", "check", "recover", "settle"} => file[c]
      /\ issuer[c].pc \in {"none", "pin", "store"} => issuer[c].tries = 0
      /\ issuer[c].pc = "anchor" => issuer[c].tries < AnchorTries
      /\ issuer[c].pc = "settle" => Of(issuer[c].tx, c, "ISSUE") /\ Sent(issuer[c].tx)
<1>1. ASSUME NEW c \in Cert, issuer'[c] = issuer[c]
      PROVE  Good(c)'
  <2>1. Of(issuer[c].tx, c, "ISSUE") /\ Sent(issuer[c].tx) => phase'[issuer[c].tx] # "unsent"
    BY ChainGrows DEF Of, Sent
  <2> QED
    BY <1>1, <2>1, FileGrows DEF Facts, IssuerFacts, Of, Sent
<1>2. ASSUME NEW c \in Cert, Issue(c)
      PROVE  Good(c)'
  <2>1. Good(c)
    BY DEF Facts, IssuerFacts
  <2>2. CASE InsertPending(c)
    BY <2>1, <2>2 DEF InsertPending, IssuerAt, TypeOK, Issuance
  <2>3. CASE Pin(c)
    BY <2>1, <2>3 DEF Pin, IssuerAt, IssuerEnds, TypeOK, Issuance
  <2>4. CASE StoreFile(c)
    <3>1. issuer[c].tries = 0 /\ 0 < AnchorTries
      BY <2>1, <2>4 DEF StoreFile, ConstantsAssumption
    <3>2. CASE IssuerAt(c, "anchor") /\ file' = [file EXCEPT ![c] = TRUE]
      <4>1. issuer'[c].pc = "anchor" /\ issuer'[c].tries = 0 /\ file'[c]
        BY <3>1, <3>2 DEF IssuerAt, TypeOK, Issuance
      <4> QED BY <3>1, <4>1
    <3>3. CASE IssuerEnds(c, "ended")
      BY <3>3 DEF IssuerEnds, TypeOK
    <3> QED BY <2>4, <3>2, <3>3 DEF StoreFile
  <2>5. CASE AnchorSent(c)
    <3>1. PICK t \in Tx : /\ t.cert = c /\ t.type = "ISSUE" /\ Broadcast(t)
                          /\ issuer' = [issuer EXCEPT ![c].pc = "settle", ![c].tx = t]
      BY <2>5 DEF AnchorSent
    <3>2. issuer'[c].pc = "settle" /\ issuer'[c].tx = t
      BY <3>1 DEF TypeOK, Issuance
    <3>3. phase'[t] # "unsent"
      BY <3>1 DEF Broadcast, TypeOK
    <3>4. file'[c]
      BY <2>1, <2>5 DEF AnchorSent, db
    <3> QED BY <3>1, <3>2, <3>3, <3>4 DEF Of, Sent
  <2>6. CASE AnchorFails(c)
    <3>1. issuer[c].tries + 1 < AnchorTries \/ AfterFailure(issuer[c].tries + 1) = "check"
      BY DEF AfterFailure
    <3> QED BY <2>1, <2>6, <3>1 DEF AnchorFails, AfterFailure, TypeOK, Issuance, db
  <2>7. CASE CheckAnchor(c)
    BY <2>1, <2>7 DEF CheckAnchor, IssuerAt, IssuerEnds, TypeOK, Issuance, db
  <2>8. CASE \E pc \in {"ended", "rejected"} : IssuerEnds(c, pc)
    BY <2>8 DEF IssuerEnds, TypeOK, Issuance
  <2> QED
    BY <1>2, <2>2, <2>3, <2>4, <2>5, <2>6, <2>7, <2>8
    DEF Issue, RecoverAnchored, SettleAnchor, IssuerDies
<1>3. ASSUME NEW c \in Cert, NEW d \in Cert, c # d, Issue(d)
      PROVE  issuer'[c] = issuer[c]
  BY <1>3
  DEF Issue, InsertPending, Pin, StoreFile, AnchorSent, AnchorFails,
      CheckAnchor, RecoverAnchored, SettleAnchor, IssuerDies,
      IssuerAt, IssuerEnds, TypeOK
<1>4. ASSUME NEW c \in Cert PROVE Good(c)'
  BY <1>1, <1>2, <1>3, Frame DEF Next
<1> QED
  BY <1>4 DEF IssuerFacts

LEMMA RevokerStep ==
  ASSUME TypeOK, Facts, Next
  PROVE  RevokerFacts'
<1> DEFINE Good(r) ==
      /\ revoker[r].pc # "idle" =>
           revoker[r].cert \in Cert /\ status[revoker[r].cert] \in Public
      /\ revoker[r].pc = "commit" =>
           Of(revoker[r].tx, revoker[r].cert, "REVOKE") /\ Sent(revoker[r].tx)
<1>1. ASSUME NEW r \in Revoker, revoker'[r] = revoker[r]
      PROVE  Good(r)'
  <2>1. Good(r)
    BY DEF Facts, RevokerFacts
  <2>2. revoker[r].cert \in Cert /\ status[revoker[r].cert] \in Public
          => status'[revoker[r].cert] \in Public
    BY StatusGrows
  <2>3. revoker[r].tx \in Tx /\ Sent(revoker[r].tx)
          => phase'[revoker[r].tx] # "unsent"
    BY ChainGrows DEF Sent
  <2> QED BY <1>1, <2>1, <2>2, <2>3 DEF Of, Sent
<1>2. ASSUME NEW r \in Revoker, Revoke(r)
      PROVE  Good(r)'
  <2>1. CASE \E c \in Cert : RevokeRequest(r, c)
    BY <2>1 DEF RevokeRequest, RevokerIs, TypeOK, Revocation, Public, db
  <2>2. CASE RevokeSent(r)
    <3>1. PICK t \in Tx :
            /\ t.cert = revoker[r].cert /\ t.type = "REVOKE"
            /\ Broadcast(t)
            /\ RevokerIs(r, [revoker[r] EXCEPT !.pc = "commit", !.tx = t])
      BY <2>2 DEF RevokeSent
    <3>2. revoker'[r] = [revoker[r] EXCEPT !.pc = "commit", !.tx = t]
      BY <3>1 DEF RevokerIs, TypeOK
    <3>3. revoker'[r].cert = revoker[r].cert /\ revoker'[r].tx = t
      BY <3>2 DEF TypeOK, Revocation
    <3>4. Sent(t)'
      BY <3>1 DEF Broadcast, Sent, TypeOK
    <3>5. revoker[r].cert \in Cert /\ status'[revoker[r].cert] \in Public
      BY <2>2, StatusGrows DEF RevokeSent, Facts, RevokerFacts
    <3> QED BY <3>1, <3>3, <3>4, <3>5 DEF Of, Sent
  <2>3. CASE RevokerIs(r, NoRevoke)
    BY <2>3 DEF RevokerIs, NoRevoke, TypeOK
  <2> QED
    BY <1>2, <2>1, <2>2, <2>3 DEF Revoke, RevokeFails, RevokeCommit, RevokerDies
<1>3. ASSUME NEW r \in Revoker, NEW q \in Revoker, r # q, Revoke(q)
      PROVE  revoker'[r] = revoker[r]
  BY <1>3 DEF Revoke, RevokeRequest, RevokeSent, RevokeFails, RevokeCommit,
              RevokerDies, RevokerIs, TypeOK
<1>4. ASSUME NEW r \in Revoker PROVE Good(r)'
  BY <1>1, <1>2, <1>3, Frame DEF Next
<1> QED
  BY <1>4 DEF RevokerFacts

LEMMA ListenerStep ==
  ASSUME TypeOK, Facts, Next
  PROVE  ListenerFacts'
<1> SUFFICES ASSUME NEW t \in Tx, listener'[t] # "idle"
             PROVE  Mined(t)'
  BY DEF ListenerFacts
<1>1. ASSUME NEW u \in Tx, Listen(u)
      PROVE  listener[t] # "idle" \/ Mined(t)
  BY <1>1 DEF Listen, EventArrives, EventTooShallow, EventConfirms,
              EventAdvances, ListenerDies, ListenerAt, TypeOK
<1>2. listener[t] # "idle" \/ Mined(t)
  BY <1>1, Frame DEF Next
<1> QED BY <1>2, ChainGrows DEF Facts, ListenerFacts

LEMMA LatestFactsStep ==
  ASSUME TypeOK, Facts, Next
  PROVE  LatestFacts'
<1> DEFINE Fine(t, c, ty) == Of(t, c, ty) /\ Sent(t) /\ rowStatus[t] # "none"
<1> SUFFICES ASSUME NEW c \in Cert, NEW ty \in TxType
             PROVE  latest'[c][ty] = NoTx \/ Fine(latest[c][ty], c, ty)'
  BY DEF LatestFacts
<1>1. latest[c][ty] = NoTx \/ Fine(latest[c][ty], c, ty)
  BY DEF Facts, LatestFacts
<1>2. ASSUME NEW t \in Tx, LatestStep(t)
      PROVE  latest'[c][ty] = latest[c][ty] \/ (latest'[c][ty] = t /\ Of(t, c, ty))
  <2>1. CASE t.cert # c
    BY <1>2, <2>1 DEF LatestStep, TypeOK
  <2>2. CASE t.cert = c
    <3>1. latest'[c] = [latest[c] EXCEPT ![t.type] = t]
      BY <1>2, <2>2 DEF LatestStep, TypeOK
    <3> QED BY <2>2, <3>1 DEF TypeOK, Of
  <2> QED BY <2>1, <2>2
<1>3. ASSUME NEW t \in Tx, LatestStep(t) PROVE phase'[t] # "unsent" /\ rowStatus'[t] # "none"
  BY <1>3, ChainGrows DEF LatestStep, Sent, TypeOK
<1>4. ASSUME NEW t \in Tx, Sent(t), rowStatus[t] # "none"
      PROVE  phase'[t] # "unsent" /\ rowStatus'[t] # "none"
  BY <1>4, ChainGrows, RowMoves DEF RowStep, Sent, TypeOK
<1> QED BY <1>1, <1>2, <1>3, <1>4, LatestMoves DEF Of, Sent

(* A row, once there, stays or gives way to a later one. *)
LEMMA LatestGrows ==
  ASSUME ConstantsAssumption, TypeOK, Facts, Next,
         NEW c \in Cert, NEW ty \in TxType, latest[c][ty] # NoTx
  PROVE  latest'[c][ty] # NoTx
<1>1. ASSUME NEW t \in Tx, LatestStep(t) PROVE latest'[c][ty] # NoTx
  <2>1. CASE t.cert # c
    BY <1>1, <2>1 DEF LatestStep, TypeOK
  <2>2. CASE t.cert = c
    <3>1. latest'[c] = [latest[c] EXCEPT ![t.type] = t]
      BY <1>1, <2>2 DEF LatestStep, TypeOK
    <3> QED BY <3>1 DEF TypeOK, ConstantsAssumption
  <2> QED BY <2>1, <2>2
<1> QED BY <1>1, LatestMoves

(* A handler's facts concern its record, the files, the rows and the chain
   only, and these only grow. *)
LEMMA HandlerGrows ==
  ASSUME ConstantsAssumption, TypeOK, Facts, Next
  PROVE  \A w \in Handler : HandlerFacts(w) => HandlerFacts(w)'
<1> SUFFICES ASSUME NEW w \in Handler, HandlerFacts(w)
             PROVE  HandlerFacts(w)'
  OBVIOUS
<1>1. w.cert \in Cert /\ file[w.cert] => file'[w.cert]
  BY FileGrows
<1>2. Awaited(w.job) \in TxType
  BY DEF Awaited, TxType
<1>3. w.cert \in Cert /\ OnChain(w.cert, Awaited(w.job))
        => OnChain(w.cert, Awaited(w.job))'
  BY <1>2, ChainGrows
<1>4. w.cert \in Cert /\ latest[w.cert]["ISSUE"] # NoTx => latest'[w.cert]["ISSUE"] # NoTx
  BY LatestGrows DEF TxType
<1>5. Of(w.tx, w.cert, "ISSUE") /\ Sent(w.tx) => phase'[w.tx] # "unsent"
  BY ChainGrows DEF Of, Sent
<1> QED BY <1>1, <1>3, <1>4, <1>5 DEF HandlerFacts, Of, Awaited, Sent

LEMMA SweeperStep ==
  ASSUME ConstantsAssumption, TypeOK, Facts, Next, SweeperFacts, TypeOK'
  PROVE  SweeperFacts'
<1>1. ASSUME NEW s \in Sweeper, NEW w \in Handler, sweeper'[s] = w, HandlerFacts(w)
      PROVE  HandlerFacts(sweeper[s])'
  BY <1>1, HandlerGrows
<1>2. ASSUME NEW s \in Sweeper, Sweep(s)
      PROVE  HandlerFacts(sweeper[s])'
  <2> DEFINE w == sweeper[s]
  <2>1. HandlerFacts(w) /\ w \in Handler
    BY DEF SweeperFacts, TypeOK
  <2>2. ASSUME SweepEnds(s) PROVE HandlerFacts(sweeper'[s])
    <3>1. sweeper'[s] = NoSweep
      BY <2>2 DEF SweepEnds, TypeOK
    <3> QED BY <3>1 DEF NoSweep, HandlerFacts
  <2>3. ASSUME NEW pc, SweeperAt(s, pc)
        PROVE  /\ sweeper'[s].pc = pc /\ sweeper'[s].job = w.job
               /\ sweeper'[s].cert = w.cert /\ sweeper'[s].tx = w.tx
    BY <2>1, <2>3 DEF SweeperAt, TypeOK, Handler
  <2>4. ASSUME NEW pc \in {"recover", "bump", "findStuck", "giveup"},
               SweeperAt(s, pc), w.pc \notin {"idle", "dead"}
        PROVE  HandlerFacts(sweeper'[s])
    BY <2>1, <2>3, <2>4 DEF HandlerFacts
  <2>5. ASSUME \E c \in Cert : SweepPick(s, c) PROVE HandlerFacts(sweeper'[s])
    <3>1. PICK c \in Cert : sweeper'[s] =
            [pc |-> IF status[c] = "PENDING_STORAGE" THEN "giveup" ELSE "start",
             job |-> status[c], cert |-> c, tx |-> NoTx]
      BY <2>5 DEF SweepPick, TypeOK
    <3> QED BY <3>1 DEF HandlerFacts
  <2>6. ASSUME SweepCheckAnchor(s) PROVE HandlerFacts(sweeper'[s])
    <3>1. CASE file[w.cert] /\ SweeperAt(s, "anchor")
      BY <2>1, <2>3, <2>6, <3>1 DEF SweepCheckAnchor, HandlerFacts
    <3> QED BY <2>4, <2>6, <3>1 DEF SweepCheckAnchor
  <2>7. CASE SweepAnchorSent(s)
    <3>1. PICK t \in Tx :
            /\ t.cert = w.cert /\ t.type = "ISSUE" /\ Broadcast(t)
            /\ sweeper' = [sweeper EXCEPT ![s].pc = "record", ![s].tx = t]
      BY <2>7 DEF SweepAnchorSent
    <3>2. sweeper'[s] = [w EXCEPT !.pc = "record", !.tx = t]
      BY <3>1 DEF TypeOK
    <3>3. sweeper'[s].pc = "record" /\ sweeper'[s].tx = t
            /\ sweeper'[s].cert = w.cert
      BY <2>1, <3>2 DEF Handler
    <3>4. w.cert \in Cert
      BY <2>1, <2>7 DEF SweepAnchorSent, HandlerFacts
    <3>5. phase'[t] # "unsent"
      BY <3>1 DEF Broadcast, TypeOK
    <3> QED BY <3>1, <3>3, <3>4, <3>5 DEF HandlerFacts, Of, Sent
  <2>13. CASE SweepRecord(s)
    <3>1. /\ Of(w.tx, w.cert, "ISSUE") /\ w.cert \in Cert
      BY <2>1, <2>13 DEF SweepRecord, HandlerFacts
    <3>2. /\ latest' = [latest EXCEPT ![w.tx.cert][w.tx.type] = w.tx]
          /\ SweeperAt(s, "advance")
      BY <2>13 DEF SweepRecord, InsertRow
    <3>3. latest'[w.cert] = [latest[w.cert] EXCEPT !["ISSUE"] = w.tx]
      BY <3>1, <3>2 DEF Of, TypeOK
    <3>4. latest'[w.cert]["ISSUE"] = w.tx
      BY <3>1, <3>3 DEF TypeOK, TxType
    <3>5. w.tx # NoTx
      BY <3>1 DEF Of, ConstantsAssumption
    <3>6. sweeper'[s].pc = "advance" /\ sweeper'[s].cert = w.cert
      BY <2>3, <3>2
    <3> QED BY <3>1, <3>4, <3>5, <3>6 DEF HandlerFacts
  <2>14. HandlerFacts(sweeper'[s]) => HandlerFacts(sweeper[s])'
    BY HandlerGrows DEF TypeOK
  <2>8. ASSUME SweepCheckInFlight(s) PROVE HandlerFacts(sweeper'[s])
    <3>1. CASE OnChain(w.cert, Awaited(w.job)) /\ SweeperAt(s, "findSettled")
      BY <2>1, <2>3, <2>8, <3>1 DEF SweepCheckInFlight, HandlerFacts
    <3> QED BY <2>4, <2>8, <3>1 DEF SweepCheckInFlight
  <2>9. ASSUME SweepFindLatest(s) PROVE HandlerFacts(sweeper'[s])
    <3> DEFINE t == latest[w.cert][Awaited(w.job)]
    <3>1. t = NoTx \/ Of(t, w.cert, Awaited(w.job))
      BY <2>1, <2>9
      DEF SweepFindLatest, HandlerFacts, Facts, LatestFacts, Awaited, TxType
    <3>2. sweeper'[s] =
            [w EXCEPT !.pc = IF w.pc = "findSettled" THEN "confirm" ELSE "mark",
                      !.tx = t]
      BY <2>9 DEF SweepFindLatest, TypeOK
    <3>3. /\ sweeper'[s].pc = IF w.pc = "findSettled" THEN "confirm" ELSE "mark"
          /\ sweeper'[s].tx = t
          /\ sweeper'[s].job = w.job /\ sweeper'[s].cert = w.cert
      BY <2>1, <3>2 DEF Handler
    <3> HIDE DEF t
    <3> QED BY <2>1, <2>9, <3>1, <3>3 DEF SweepFindLatest, HandlerFacts
  <2>10. ASSUME SweepConfirm(s) PROVE HandlerFacts(sweeper'[s])
    BY <2>1, <2>3, <2>10 DEF SweepConfirm, HandlerFacts
  <2>11. ASSUME SweepMarkFailed(s) PROVE HandlerFacts(sweeper'[s])
    BY <2>4, <2>11 DEF SweepMarkFailed
  <2>12. ASSUME SweeperDies(s) PROVE HandlerFacts(sweeper'[s])
    <3>1. sweeper'[s].pc = "dead"
      BY <2>12 DEF SweeperDies, NoSweep, TypeOK
    <3> QED BY <3>1 DEF HandlerFacts
  <2> QED
    BY <1>2, <2>2, <2>4, <2>5, <2>6, <2>7, <2>8, <2>9, <2>10, <2>11, <2>12, <2>13, <2>14
    DEF Sweep, SweepRecover, SweepAnchorFails, SweepAdvance, SweepStatementFails,
        SweepSettle, SweepBump, SweepGiveUp, SweeperRestarts
<1>3. ASSUME NEW s \in Sweeper, NEW q \in Sweeper, s # q, Sweep(q)
      PROVE  sweeper'[s] = sweeper[s]
  BY <1>3
  DEF Sweep, SweepPick, SweepCheckAnchor, SweepRecover, SweepAnchorSent,
      SweepAnchorFails, SweepRecord, SweepAdvance,
      SweepStatementFails, SweepCheckInFlight,
      SweepFindLatest, SweepConfirm, SweepSettle, SweepBump, SweepMarkFailed,
      SweepGiveUp, SweeperDies, SweeperRestarts, SweeperAt, SweepEnds, TypeOK
<1>4. ASSUME NEW s \in Sweeper, sweeper'[s] = sweeper[s]
      PROVE  HandlerFacts(sweeper[s])'
  BY <1>1, <1>4 DEF TypeOK, SweeperFacts
<1>5. ASSUME NEW s \in Sweeper
      PROVE  HandlerFacts(sweeper[s])'
  BY <1>2, <1>3, <1>4, Frame DEF Next
<1> QED BY <1>5 DEF SweeperFacts

LEMMA FactsStep ==
  ASSUME ConstantsAssumption, TypeOK, Facts, Next
  PROVE  TypeOK' /\ Facts'
<1>1. TypeOK'
  BY TypeStep
<1>2. SweeperFacts'
  BY <1>1, SweeperStep DEF Facts
<1> QED
  BY <1>1, <1>2, StagesStep, IssuerStep, RevokerStep, ListenerStep,
     LatestFactsStep DEF Facts

-----------------------------------------------------------------------------
(* The safety properties, from the facts.                                  *)

LEMMA PublicStep ==
  ASSUME TypeOK, Facts, Next, PublicIsAnchored, RevokedIsRevoked
  PROVE  PublicIsAnchored' /\ RevokedIsRevoked'
<1>1. ASSUME NEW c \in Cert
      PROVE  (IsIssued(c) => IsIssued(c)') /\ (IsRevoked(c) => IsRevoked(c)')
  BY ChainGrows DEF IsIssued, IsRevoked, TxType
<1>2. ASSUME NEW c \in Cert
      PROVE  /\ status'[c] \in {"ACTIVE", "REVOKING", "REVOKED"} => IsIssued(c)
             /\ status'[c] = "REVOKED" => IsRevoked(c)
  <2>1. ASSUME NEW d \in Cert, NEW to \in CertState, StatusStep(d, to)
        PROVE  status'[c] = status[c] \/ (c = d /\ status'[c] = to)
    BY <2>1 DEF StatusStep, TypeOK
  <2>2. ASSUME NEW to \in CertState, StatusStep(c, to)
        PROVE  /\ to \in {"ACTIVE", "REVOKING", "REVOKED"} => IsIssued(c)
               /\ to = "REVOKED" => IsRevoked(c)
    BY <2>2 DEF StatusStep, LegalEdge, PublicIsAnchored
  <2> QED
    BY <2>1, <2>2, StatusMoves DEF PublicIsAnchored, RevokedIsRevoked
<1> QED BY <1>1, <1>2 DEF PublicIsAnchored, RevokedIsRevoked

LEMMA SentStep ==
  ASSUME TypeOK, Facts, Next, OnlyPublicIsRevoked, PinnedBeforeAnchored
  PROVE  OnlyPublicIsRevoked' /\ PinnedBeforeAnchored'
<1>1. ASSUME NEW t \in Tx, Sent(t)'
      PROVE  /\ t.type = "REVOKE" => status'[t.cert] \in Public
             /\ t.type = "ISSUE" => file'[t.cert]
  <2>1. \/ Sent(t)
        \/ /\ t.type = "ISSUE" => file[t.cert]
           /\ t.type = "REVOKE" => status[t.cert] \in Public
    BY <1>1, PhaseMoves DEF PhaseStep, Sent, TypeOK
  <2>2. /\ t.type = "REVOKE" => status[t.cert] \in Public
        /\ t.type = "ISSUE" => file[t.cert]
    BY <2>1 DEF Sent, OnlyPublicIsRevoked, PinnedBeforeAnchored, Public
  <2> QED BY <2>2, TxFields, StatusGrows, FileGrows
<1>2. ASSUME NEW c \in Cert, status'[c] = "PENDING_ANCHOR"
      PROVE  file'[c]
  <2>1. CASE status[c] = "PENDING_ANCHOR"
    BY <2>1, FileGrows DEF PinnedBeforeAnchored
  <2>2. CASE status[c] # "PENDING_ANCHOR"
    <3>1. ASSUME NEW d \in Cert, Issue(d)
          PROVE  file'[c]
      BY <1>2, <2>2, <3>1
      DEF Issue, InsertPending, Pin, StoreFile, AnchorSent, AnchorFails,
          CheckAnchor, RecoverAnchored, SettleAnchor, IssuerDies, SetStatus,
          db, TypeOK
    <3>2. ASSUME NEW r \in Revoker, Revoke(r)
          PROVE  FALSE
      BY <1>2, <2>2, <3>2
      DEF Revoke, RevokeRequest, RevokeSent, RevokeFails, RevokeCommit,
          RevokerDies, SetStatus, db, TypeOK
    <3>3. ASSUME NEW t \in Tx, Listen(t)
          PROVE  FALSE
      BY <1>2, <2>2, <3>3
      DEF Listen, EventArrives, EventTooShallow, EventConfirms, EventAdvances,
          ListenerDies, SetStatus, Target, db, TypeOK
    <3>4. ASSUME NEW s \in Sweeper, Sweep(s)
          PROVE  FALSE
      BY <1>2, <2>2, <3>4
      DEF Sweep, SweepPick, SweepCheckAnchor, SweepRecover, SweepAnchorSent,
          SweepAnchorFails, SweepRecord, SweepAdvance,
          SweepStatementFails, SweepCheckInFlight,
          SweepFindLatest, SweepConfirm, SweepSettle, SweepBump,
          SweepMarkFailed, SweepGiveUp, SweeperDies, SweeperRestarts,
          SetStatus, Target, db, TypeOK
    <3> QED BY <1>2, <2>2, <3>1, <3>2, <3>3, <3>4, Frame DEF Next
  <2> QED BY <2>1, <2>2
<1> QED BY <1>1, <1>2 DEF Sent, OnlyPublicIsRevoked, PinnedBeforeAnchored, Public

LEMMA ConfirmedStep ==
  ASSUME TypeOK, Facts, Next, ConfirmedIsOnChain
  PROVE  ConfirmedIsOnChain'
<1> SUFFICES ASSUME NEW t \in Tx, rowStatus'[t] = "CONFIRMED"
             PROVE  OnChain(t.cert, t.type)'
  BY DEF ConfirmedIsOnChain
<1>1. OnChain(t.cert, t.type)
  BY RowMoves DEF RowStep, ConfirmedIsOnChain, TypeOK
<1> QED BY <1>1, TxFields, ChainGrows

(* A certificate enters ANCHORING with a row behind it, and the public states
   from there. *)
LEMMA EntersAnchoring ==
  ASSUME TypeOK, Facts, Next, NEW c \in Cert,
         status[c] \notin {"ANCHORING"} \cup Public,
         status'[c] \in {"ANCHORING"} \cup Public
  PROVE  latest'[c]["ISSUE"] # NoTx
<1>1. PICK d \in Cert, to \in CertState : StatusStep(d, to)
  BY StatusMoves
<1>2. d = c /\ status'[c] = to
  BY <1>1 DEF StatusStep, TypeOK
<1>3. <<status[c], to>> \in LegalEdge
  BY <1>1, <1>2 DEF StatusStep, Public
<1>4. to = "ANCHORING"
  BY <1>1, <1>2, <1>3 DEF StatusStep, LegalEdge, Public
<1> QED BY <1>1, <1>2, <1>4 DEF StatusStep

LEMMA AnchorStep ==
  ASSUME ConstantsAssumption, TypeOK, Facts, Next, AnchorRecorded
  PROVE  AnchorRecorded'
<1> SUFFICES ASSUME NEW c \in Cert, status'[c] \in {"ANCHORING"} \cup Public
             PROVE  latest'[c]["ISSUE"] # NoTx
  <2>1. LatestFacts' /\ "ISSUE" \in TxType
    BY LatestFactsStep DEF TxType
  <2> QED
    BY <2>1 DEF LatestFacts, AnchorRecorded, Public, Of, Sent
<1>1. CASE status[c] \in {"ANCHORING"} \cup Public
  <2>1. latest[c]["ISSUE"] # NoTx
    BY <1>1 DEF AnchorRecorded, Public, ConstantsAssumption
  <2> QED
    BY <2>1, LatestGrows DEF TxType
<1> QED
  BY <1>1, EntersAnchoring

(* The revocation row is written with its transaction row and REVOKING, and
   by nothing else. *)
RevocationStep(c, t) ==
  /\ Of(t, c, "REVOKE") /\ Sent(t)
  /\ revocation' = [revocation EXCEPT ![c] = t]
  /\ status' = [status EXCEPT ![c] = "REVOKING"]
  /\ rowStatus'[t] = "PENDING"
  /\ latest'[c]["REVOKE"] = t

LEMMA RevocationMoves ==
  ASSUME TypeOK, Facts, Next
  PROVE  \/ \E c \in Cert, t \in Tx : RevocationStep(c, t)
         \/ /\ UNCHANGED revocation
            /\ \A c \in Cert : status'[c] = "REVOKING" => status[c] = "REVOKING"
<1> DEFINE Kept == /\ UNCHANGED revocation
                   /\ \A c \in Cert : status'[c] = "REVOKING"
                                         => status[c] = "REVOKING"
<1>1. ASSUME NEW c \in Cert, Issue(c) PROVE Kept
  BY <1>1, Frame
  DEF Issue, InsertPending, Pin, StoreFile, AnchorSent, AnchorFails,
      CheckAnchor, RecoverAnchored, SettleAnchor, IssuerDies, SetStatus,
      db, TypeOK
<1>2. ASSUME NEW t \in Tx, Listen(t) PROVE Kept
  BY <1>2, Frame
  DEF Listen, EventArrives, EventTooShallow, EventConfirms, EventAdvances,
      ListenerDies, SetStatus, Target, db, TypeOK
<1>3. ASSUME NEW s \in Sweeper, Sweep(s) PROVE Kept
  BY <1>3, Frame
  DEF Sweep, SweepPick, SweepCheckAnchor, SweepRecover, SweepAnchorSent,
      SweepAnchorFails, SweepRecord, SweepAdvance,
      SweepStatementFails, SweepCheckInFlight,
      SweepFindLatest, SweepConfirm, SweepSettle, SweepBump, SweepMarkFailed,
      SweepGiveUp, SweeperDies, SweeperRestarts, SetStatus, Target, db, TypeOK
<1>4. ASSUME NEW r \in Revoker, Revoke(r)
      PROVE  Kept \/ \E c \in Cert, t \in Tx : RevocationStep(c, t)
  <2> DEFINE c == revoker[r].cert
             t == revoker[r].tx
  <2>1. CASE /\ RevokeCommit(r)
             /\ revocation' = [revocation EXCEPT ![c] = t]
             /\ InsertRow(t)
             /\ SetStatus(c, "REVOKING")
    <3>1. Of(t, c, "REVOKE") /\ Sent(t) /\ c \in Cert /\ t \in Tx
      BY <2>1 DEF RevokeCommit, Facts, RevokerFacts, Of
    <3>2. rowStatus'[t] = "PENDING"
      BY <2>1, <3>1 DEF InsertRow, TypeOK
    <3>3. latest'[c]["REVOKE"] = t
      BY <2>1, <3>1 DEF InsertRow, Of, TypeOK, TxType
    <3>4. RevocationStep(c, t)
      BY <2>1, <3>1, <3>2, <3>3 DEF RevocationStep, SetStatus
    <3> HIDE DEF c, t
    <3> QED BY <3>1, <3>4
  <2> QED
    BY <1>4, <2>1 DEF Revoke, RevokeRequest, RevokeSent, RevokeFails,
                      RevokeCommit, RevokerDies, db
<1> QED BY <1>1, <1>2, <1>3, <1>4, Frame DEF Next

LEMMA RecordedStep ==
  ASSUME ConstantsAssumption, TypeOK, Facts, Next, RevocationRecorded
  PROVE  RevocationRecorded'
<1> SUFFICES ASSUME NEW c \in Cert
             PROVE  /\ revocation'[c] # NoTx
                         <=> status'[c] \in {"REVOKING", "REVOKED"}
                    /\ revocation'[c] # NoTx =>
                         /\ Of(revocation'[c], c, "REVOKE")
                         /\ phase'[revocation'[c]] # "unsent"
                         /\ rowStatus'[revocation'[c]] # "none"
                         /\ latest'[c]["REVOKE"] = revocation'[c]
  BY DEF RevocationRecorded, Of
<1>1. ASSUME NEW t \in Tx, RevocationStep(c, t)
      PROVE  /\ revocation'[c] = t /\ status'[c] = "REVOKING"
             /\ Of(t, c, "REVOKE") /\ phase'[t] # "unsent"
             /\ rowStatus'[t] # "none" /\ latest'[c]["REVOKE"] = t
  <2>1. phase'[t] # "unsent"
    BY <1>1, ChainGrows DEF RevocationStep, Sent
  <2> QED BY <1>1, <2>1 DEF RevocationStep, TypeOK
<1>2. ASSUME revocation'[c] = revocation[c],
             status'[c] = "REVOKING" => status[c] = "REVOKING"
      PROVE  revocation'[c] # NoTx <=> status'[c] \in {"REVOKING", "REVOKED"}
  <2>1. status'[c] \in {"REVOKING", "REVOKED"}
          <=> status[c] \in {"REVOKING", "REVOKED"}
    <3>1. ASSUME NEW d \in Cert, NEW to \in CertState, StatusStep(d, to)
          PROVE  status'[c] \in {"REVOKING", "REVOKED"}
                   <=> status[c] \in {"REVOKING", "REVOKED"}
      <4>1. CASE c # d
        BY <3>1, <4>1 DEF StatusStep, TypeOK
      <4>2. CASE c = d /\ <<status[c], to>> \in LegalEdge
        <5>1. status'[c] = to
          BY <3>1, <4>2 DEF StatusStep, TypeOK
        <5>2. to # "REVOKING"
          BY <1>2, <4>2, <5>1 DEF LegalEdge
        <5> QED BY <3>1, <4>2, <5>1, <5>2 DEF StatusStep, LegalEdge
      <4>3. CASE c = d /\ issuer[c].pc = "none" /\ to = "PENDING_STORAGE"
        BY <3>1, <4>3 DEF StatusStep, TypeOK, Facts, Stages
      <4> QED BY <3>1, <4>1, <4>2, <4>3 DEF StatusStep
    <3> QED BY <3>1, StatusMoves
  <2> QED BY <1>2, <2>1 DEF RevocationRecorded
<1>3. ASSUME revocation'[c] = revocation[c], revocation[c] # NoTx
      PROVE  /\ Of(revocation[c], c, "REVOKE")
             /\ phase'[revocation[c]] # "unsent"
             /\ rowStatus'[revocation[c]] # "none"
             /\ latest'[c]["REVOKE"] = revocation[c]
  <2>1. Of(revocation[c], c, "REVOKE")
    BY <1>3 DEF RevocationRecorded, TypeOK, Of
  <2>2. phase'[revocation[c]] # "unsent"
    BY <1>3, <2>1, ChainGrows DEF RevocationRecorded, Of, Sent
  <2>3. rowStatus'[revocation[c]] # "none"
    BY <1>3, <2>1, RowMoves DEF RevocationRecorded, RowStep, Of, TypeOK
  <2>4. ASSUME NEW t \in Tx, LatestStep(t)
        PROVE  latest'[c]["REVOKE"] = revocation[c]
    <3>1. CASE t.cert = c /\ t.type = "REVOKE"
      BY <1>3, <2>4, <3>1 DEF LatestStep, TypeOK, TxType
    <3>2. CASE t.cert = c /\ t.type # "REVOKE"
      <4>1. latest'[c] = [latest[c] EXCEPT ![t.type] = t]
        BY <2>4, <3>2 DEF LatestStep, TypeOK
      <4> QED BY <1>3, <3>2, <4>1 DEF TypeOK, TxType, RevocationRecorded
    <3>3. CASE t.cert # c
      BY <1>3, <2>4, <3>3 DEF LatestStep, TypeOK, RevocationRecorded
    <3> QED BY <3>1, <3>2, <3>3
  <2>5. latest'[c]["REVOKE"] = revocation[c]
    BY <1>3, <2>4, LatestMoves DEF RevocationRecorded
  <2> QED BY <2>1, <2>2, <2>3, <2>5
<1>4. CASE \E t \in Tx : RevocationStep(c, t)
  <2>1. PICK t \in Tx : RevocationStep(c, t)
    BY <1>4
  <2>2. t # NoTx
    BY DEF ConstantsAssumption
  <2> QED BY <1>1, <2>1, <2>2
<1>5. CASE \E d \in Cert, t \in Tx : c # d /\ RevocationStep(d, t)
  <2>1. revocation'[c] = revocation[c] /\ status'[c] = status[c]
    BY <1>5 DEF RevocationStep, TypeOK
  <2> QED BY <1>2, <1>3, <2>1
<1>6. CASE UNCHANGED revocation /\ (status'[c] = "REVOKING" => status[c] = "REVOKING")
  BY <1>2, <1>3, <1>6
<1> QED BY <1>4, <1>5, <1>6, RevocationMoves
-----------------------------------------------------------------------------
(* The theorems.                                                           *)

LEMMA InitIInv ==
  ASSUME ConstantsAssumption, Init
  PROVE  IInv
<1>1. TypeOK
  BY DEF Init, TypeOK, ConstantsAssumption, NoRevoke, NoSweep, Issuance,
         Revocation, Handler, IssuerPC, RevokerPC, SweeperPC, Phase, Transient,
         TxType
<1>2. Facts
  BY DEF Init, Facts, Stages, IssuerFacts, RevokerFacts, ListenerFacts,
         SweeperFacts, HandlerFacts, LatestFacts, NoRevoke, NoSweep
<1>3. Safety
  BY TxFields
  DEF Init, Safety, PublicIsAnchored, RevokedIsRevoked, OnlyPublicIsRevoked,
      PinnedBeforeAnchored, RevocationRecorded, ConfirmedIsOnChain,
      AnchorRecorded, Mined
<1> QED BY <1>1, <1>2, <1>3 DEF IInv

LEMMA StutterIInv ==
  ASSUME IInv, UNCHANGED vars
  PROVE  IInv'
BY DEF vars, IInv, TypeOK, Facts, Stages, IssuerFacts, RevokerFacts,
       ListenerFacts, SweeperFacts, HandlerFacts, LatestFacts, Safety,
       PublicIsAnchored, RevokedIsRevoked, OnlyPublicIsRevoked,
       PinnedBeforeAnchored, RevocationRecorded, ConfirmedIsOnChain,
       AnchorRecorded, IsIssued, IsRevoked, OnChain, Mined, Sent, Of

(* IInv holds in every reachable state, whatever the certificates, requests,
   handlers and bounds. *)
THEOREM Invariance == Spec => []IInv
<1>1. Init => IInv
  BY InitIInv, ConstantsAssumption
<1>2. IInv /\ [Next]_vars => IInv'
  BY ConstantsAssumption, FactsStep, PublicStep, SentStep, ConfirmedStep,
     AnchorStep, RecordedStep, StutterIInv DEF IInv, Safety
<1> QED BY <1>1, <1>2, PTL DEF Spec

(* Every variable keeps its type. *)
THEOREM TypeCorrect == Spec => []TypeOK
<1>1. IInv => TypeOK
  BY DEF IInv
<1> QED BY <1>1, Invariance, PTL

(* What the database says in public, the chain says too. *)
THEOREM PublicTruth == Spec => [](PublicIsAnchored /\ RevokedIsRevoked)
<1>1. IInv => PublicIsAnchored /\ RevokedIsRevoked
  BY DEF IInv, Safety
<1> QED BY <1>1, Invariance, PTL

(* Revocations are sent for public certificates only, anchors for pinned
   documents only. *)
THEOREM SentWithCause == Spec => [](OnlyPublicIsRevoked /\ PinnedBeforeAnchored)
<1>1. IInv => OnlyPublicIsRevoked /\ PinnedBeforeAnchored
  BY DEF IInv, Safety
<1> QED BY <1>1, Invariance, PTL

(* One revocation per certificate, recorded whole, whoever races. *)
THEOREM RevocationWhole == Spec => []RevocationRecorded
<1>1. IInv => RevocationRecorded
  BY DEF IInv, Safety
<1> QED BY <1>1, Invariance, PTL

(* A CONFIRMED row has its outcome on the chain. *)
THEOREM ConfirmedTruth == Spec => []ConfirmedIsOnChain
<1>1. IInv => ConfirmedIsOnChain
  BY DEF IInv, Safety
<1> QED BY <1>1, Invariance, PTL

(* The parts that a reader asks for by themselves: a REVOKED row is revoked
   on the chain, *)
THEOREM RevokedTruth == Spec => []RevokedIsRevoked
<1>1. IInv => RevokedIsRevoked
  BY DEF IInv, Safety
<1> QED BY <1>1, Invariance, PTL

(* no anchor is broadcast for a document that was not pinned and stored, *)
THEOREM PinnedFirst == Spec => []PinnedBeforeAnchored
<1>1. IInv => PinnedBeforeAnchored
  BY DEF IInv, Safety
<1> QED BY <1>1, Invariance, PTL

(* and no certificate goes on without a row for an anchor that was broadcast. *)
THEOREM AnchorRemembered == Spec => []AnchorRecorded
<1>1. IInv => AnchorRecorded
  BY DEF IInv, Safety
<1> QED BY <1>1, Invariance, PTL

-----------------------------------------------------------------------------
(* The refinement.                                                         *)

(* Only the chain's own steps change what is mined. *)
LEMMA MinedByChain ==
  ASSUME TypeOK, Next, ~Chain
  PROVE  \A c \in Cert : IsIssued(c)' = IsIssued(c) /\ IsRevoked(c)' = IsRevoked(c)
<1>1. ASSUME NEW u \in Tx, Broadcast(u), NEW t \in Tx
      PROVE  Mined(t)' <=> Mined(t)
  BY <1>1 DEF Broadcast, Mined, TypeOK
<1>2. ASSUME NEW t \in Tx
      PROVE  Mined(t)' <=> Mined(t)
  <2>1. ASSUME NEW c \in Cert, Issue(c)
        PROVE  UNCHANGED phase \/ \E u \in Tx : Broadcast(u)
    BY <2>1
    DEF Issue, InsertPending, Pin, StoreFile, AnchorSent, AnchorFails,
        CheckAnchor, RecoverAnchored, SettleAnchor, IssuerDies
  <2>2. ASSUME NEW r \in Revoker, Revoke(r)
        PROVE  UNCHANGED phase \/ \E u \in Tx : Broadcast(u)
    BY <2>2 DEF Revoke, RevokeRequest, RevokeSent, RevokeFails, RevokeCommit,
                RevokerDies
  <2>3. ASSUME NEW s \in Sweeper, Sweep(s)
        PROVE  UNCHANGED phase \/ \E u \in Tx : Broadcast(u)
    BY <2>3
    DEF Sweep, SweepPick, SweepCheckAnchor, SweepRecover, SweepAnchorSent,
        SweepAnchorFails, SweepRecord, SweepAdvance,
        SweepStatementFails, SweepCheckInFlight,
        SweepFindLatest, SweepConfirm, SweepSettle, SweepBump,
        SweepMarkFailed, SweepGiveUp, SweeperDies, SweeperRestarts
  <2>4. UNCHANGED phase \/ \E u \in Tx : Broadcast(u)
    BY <2>1, <2>2, <2>3, Frame DEF Next
  <2>5. CASE UNCHANGED phase
    BY <2>5 DEF Mined
  <2> QED BY <1>1, <2>4, <2>5
<1> QED BY <1>2 DEF IsIssued, IsRevoked, OnChain

(* A transaction mined for a certificate is a step of the abstract contract;
   the chain's other steps are invisible. *)
LEMMA ChainRefines ==
  ASSUME IInv, Chain
  PROVE  [Trust!Next]_(Trust!vars)
<1> DEFINE issued == {c \in Cert : IsIssued(c)}
           revoked == {c \in Cert : IsRevoked(c)}
<1>1. UNCHANGED status
  BY Frame
<1>2. PICK t \in Tx : Mine(t) \/ Deepen(t) \/ Void(t)
  BY DEF Chain
<1>3. t.cert \in Cert /\ t.type \in TxType
  BY TxFields
<1>4. CASE Deepen(t) \/ Void(t)
  <2>1. \A u \in Tx : Mined(u)' <=> Mined(u)
    BY <1>4 DEF Deepen, Void, Mined, IInv, TypeOK
  <2>2. issued' = issued /\ revoked' = revoked
    BY <2>1 DEF IsIssued, IsRevoked, OnChain
  <2> QED BY <1>1, <2>2 DEF Trust!vars
<1>5. CASE Mine(t)
  <2>1. /\ Accepts(t.cert, t.type)
        /\ \A u \in Tx : Mined(u)' <=> (Mined(u) \/ u = t)
    BY <1>5 DEF Mine, Mined, IInv, TypeOK
  <2>2. Sent(t)
    BY <1>5 DEF Mine, Sent
  <2>3. CASE t.type = "ISSUE"
    <3>1. issued' = issued \union {t.cert} /\ revoked' = revoked
      BY <1>3, <2>1, <2>3 DEF IsIssued, IsRevoked, OnChain
    <3>2. t.cert \notin issued
      BY <2>1, <2>3 DEF Accepts
    <3>3. status[t.cert] \notin {"ABSENT", "PENDING_STORAGE"}
      BY <1>3, <2>2, <2>3
      DEF IInv, Safety, PinnedBeforeAnchored, Facts, Stages, Sent
    <3>4. Trust!Anchor(t.cert)
      BY <1>1, <3>1, <3>2, <3>3 DEF Trust!Anchor
    <3> QED BY <1>3, <3>4 DEF Trust!Next
  <2>4. CASE t.type = "REVOKE"
    <3>1. revoked' = revoked \union {t.cert} /\ issued' = issued
      BY <1>3, <2>1, <2>4 DEF IsIssued, IsRevoked, OnChain
    <3>2. t.cert \in issued \ revoked
      BY <1>3, <2>1, <2>4 DEF Accepts
    <3>3. status[t.cert] \in Trust!Public
      BY <2>2, <2>4 DEF IInv, Safety, OnlyPublicIsRevoked, Trust!Public, Sent
    <3>4. Trust!Revoke(t.cert)
      BY <1>1, <3>1, <3>2, <3>3 DEF Trust!Revoke
    <3> QED BY <1>3, <3>4 DEF Trust!Next
  <2> QED BY <1>3, <2>3, <2>4 DEF TxType
<1> QED BY <1>2, <1>4, <1>5

(* Everybody else's step creates a row, advances it along a legal edge with
   the fact it needs, or is invisible. *)
LEMMA StatusRefines ==
  ASSUME IInv, Next, ~Chain
  PROVE  [Trust!Next]_(Trust!vars)
<1> DEFINE issued == {c \in Cert : IsIssued(c)}
           revoked == {c \in Cert : IsRevoked(c)}
<1>1. issued' = issued /\ revoked' = revoked
  BY MinedByChain DEF IInv
<1>2. ASSUME NEW c \in Cert, NEW to \in CertState, StatusStep(c, to)
      PROVE  Trust!Next
  <2>1. CASE issuer[c].pc = "none" /\ to = "PENDING_STORAGE"
    <3>1. Trust!Create(c)
      BY <1>1, <1>2, <2>1 DEF Trust!Create, StatusStep, IInv, Facts, Stages
    <3> QED BY <3>1 DEF Trust!Next
  <2>2. CASE <<status[c], to>> \in LegalEdge
    <3>1. <<status[c], to>> \in Trust!LegalEdge
      BY <2>2 DEF LegalEdge, Trust!LegalEdge
    <3>2. Trust!Advance(c, to)
      BY <1>1, <1>2, <2>2, <3>1 DEF Trust!Advance, StatusStep
    <3>3. to \in Trust!CertState
      BY DEF CertState, Trust!CertState
    <3> QED BY <3>2, <3>3 DEF Trust!Next
  <2> QED BY <1>2, <2>1, <2>2 DEF StatusStep
<1>3. CASE UNCHANGED status
  BY <1>1, <1>3 DEF Trust!vars
<1> QED BY <1>2, <1>3, StatusMoves DEF IInv

(* The pipeline implements the abstract promise: its initial states are the
   promise's, and every step is a step of the promise or invisible to it. *)
THEOREM Refinement == Spec => KeepsTrust
<1>1. Init => Trust!Init
  BY DEF Init, Trust!Init, IsIssued, IsRevoked, OnChain, Mined
<1>2. IInv /\ [Next]_vars => [Trust!Next]_(Trust!vars)
  <2>1. UNCHANGED vars => UNCHANGED Trust!vars
    BY DEF vars, Trust!vars, IsIssued, IsRevoked, OnChain, Mined
  <2> QED BY <2>1, ChainRefines, StatusRefines
<1> QED
  BY <1>1, <1>2, Invariance, PTL DEF Spec, KeepsTrust, Trust!Spec
=============================================================================
