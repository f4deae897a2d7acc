---------------------------- MODULE EventReplay ----------------------------
(***************************************************************************)
(* The worker's event listener against the chain's own log                 *)
(* (apps/worker/src/eventListener.js): the replay at boot from the saved   *)
(* cursor, in windows that a node may refuse, the cursor it then writes,   *)
(* the live subscription that follows, restarts in between, and the sweep  *)
(* that starts only after the listener did (worker.js main).               *)
(*                                                                         *)
(* CertificatePipeline takes the events as given and looks into every      *)
(* await of a handler; here a handler's effect on its row is one step and  *)
(* the question is which events ever reach a handler.  The anchor of every *)
(* certificate has been broadcast at the start; it is mined, and the API   *)
(* records it (PENDING_ANCHOR to ANCHORING), in either order.              *)
(***************************************************************************)
EXTENDS Registry

CONSTANTS Depth,         \* CONFIRMATION_DEPTH
          MaxRange,      \* MAX_BLOCK_RANGE
          Lookback,      \* MAX_FIRST_BOOT_LOOKBACK_BLOCKS
          Lag,           \* bound: how far behind a node may report the head
          MaxRestarts,   \* bound: how often the worker ends
          NoCursor       \* no row in worker_cursor

ASSUME ReplayAssumption ==
    /\ Depth \in Nat \ {0}
    /\ MaxRange \in Nat \ {0}
    /\ Lookback \in Nat
    /\ Lag \in Nat
    /\ MaxRestarts \in Nat
    /\ NoCursor \notin Nat

VARIABLES row,           \* status of each certificate row
          asked,         \* certificates whose revocation was broadcast
          cursor,        \* worker_cursor
          worker,        \* the listener's locals, lost when the process ends
          restarts

workerVars == <<row, asked, cursor, worker, restarts>>
vars == <<registryVars, workerVars>>

(* pc: where start() stands, or "failed" when it threw and the worker      *)
(* idles.  from, to: the replayed blocks; todo: past events not yet        *)
(* handled, as places in the log; seen: events handled since boot; lost:   *)
(* events in windows that failed; since: the first block of the            *)
(* subscription; moved: blocks that live handlers have yet to write to the *)
(* cursor.                                                                 *)
Stopped == [pc |-> "down", from |-> 0, to |-> 0, todo |-> {}, seen |-> {},
            lost |-> {}, since |-> 0, moved |-> {}]

Init ==
    /\ RegistryInit
    /\ row = [h \in Hash |-> "PENDING_ANCHOR"]
    /\ asked = {}
    /\ cursor = NoCursor
    /\ worker = Stopped
    /\ restarts = 0
-----------------------------------------------------------------------------
(* What the chain and the API do meanwhile. *)
MineAnchor(h) ==
    /\ deployment = "recorded"
    /\ height + Depth <= MaxBlock
    /\ anchorCertificate(Custodian, h)
    /\ UNCHANGED workerVars

RecordAnchor(h) ==
    /\ row[h] = "PENDING_ANCHOR"
    /\ row' = [row EXCEPT ![h] = "ANCHORING"]
    /\ UNCHANGED <<registryVars, asked, cursor, worker, restarts>>

BroadcastRevoke(h) ==
    /\ row[h] = "ACTIVE"
    /\ h \notin asked
    /\ asked' = asked \cup {h}
    /\ UNCHANGED <<registryVars, row, cursor, worker, restarts>>

MineRevoke(h) ==
    /\ h \in asked
    /\ height + Depth <= MaxBlock
    /\ revokeCertificate(Custodian, h)
    /\ UNCHANGED workerVars

RecordRevoke(h) ==
    /\ h \in asked
    /\ row[h] = "ACTIVE"
    /\ row' = [row EXCEPT ![h] = "REVOKING"]
    /\ UNCHANGED <<registryVars, asked, cursor, worker, restarts>>

Chain ==
    /\ \/ Deploy
       \/ RegisterCustodian
       \/ WriteDeployment
       \/ deployment = "recorded" /\ SealBlock
    /\ UNCHANGED workerVars

(* The owner may take the custodian's right away and give it back: every   *)
(* write in between reverts.                                               *)
Administer ==
    /\ deployment = "recorded"
    /\ \E sender \in Account, account \in Account :
          registerIssuer(sender, account) \/ deregisterIssuer(sender, account)
    /\ UNCHANGED workerVars
-----------------------------------------------------------------------------
(* receiptWithConfirmations: the node's head, counted from the event's block. *)
Confirmations_OneMore(i) == ChainHead - log[i].block + 2
Confirmations(i) == ChainHead - log[i].block + 1

Awaits(i) ==
    \/ log[i].event = "CertificateAnchored" /\ row[log[i].hash] = "ANCHORING"
    \/ log[i].event = "CertificateRevoked" /\ row[log[i].hash] = "REVOKING"

(* handleAnchored and handleRevoked: nothing for a row that does not await *)
(* the event, nothing while it is too shallow.                             *)
Handled_TxStatus(i) ==
    IF Awaits(i) /\ Confirmations(i) >= Depth
    THEN [row EXCEPT ![log[i].hash] = "CONFIRMED"]
    ELSE row

Handled(i) ==
    IF Awaits(i) /\ Confirmations(i) >= Depth
    THEN [row EXCEPT ![log[i].hash] =
            IF log[i].event = "CertificateAnchored" THEN "ACTIVE" ELSE "REVOKED"]
    ELSE row
-----------------------------------------------------------------------------
(* Without a cursor only the last Lookback blocks are replayed; the         *)
(* deployment itself is in block 0 here.                                   *)
FirstBoot(to) == IF to > Lookback THEN to - Lookback ELSE 0

(* start() reads the cursor and the head.  The head may be behind the      *)
(* saved cursor, and then there is nothing to replay.                      *)
Boot ==
    /\ deployment = "recorded"
    /\ worker.pc = "down"
    /\ height > 0
    /\ \E to \in (IF ChainHead > Lag THEN ChainHead - Lag ELSE 0) .. ChainHead :
          worker' = [worker EXCEPT
                        !.pc = "querying",
                        !.from = IF cursor = NoCursor THEN FirstBoot(to) ELSE cursor,
                        !.to = to]
    /\ UNCHANGED <<registryVars, row, asked, cursor, restarts>>

(* The blocks queryFilterChunked asks for, window by window. *)
Windows_Short(from, to) ==
    {{b \in from .. to : start <= b /\ b < start + MaxRange - 1} :
        start \in {from + k * MaxRange : k \in 0 .. to} \cap (from .. to)}
Windows(from, to) ==
    {{b \in from .. to : start <= b /\ b < start + MaxRange} :
        start \in {from + k * MaxRange : k \in 0 .. to} \cap (from .. to)}

Found(kind, windows) ==
    {i \in DOMAIN log : /\ log[i].event = kind
                        /\ \E w \in windows : log[i].block \in w}

(* The order of the sort by block, which keeps the two lists' order within *)
(* a block: anchors first.                                                 *)
Earlier_ByKind(i, j) ==
    \/ log[i].event # log[j].event /\ log[i].event = "CertificateRevoked"
    \/ log[i].event = log[j].event /\ i < j
Earlier(i, j) ==
    \/ log[i].block < log[j].block
    \/ /\ log[i].block = log[j].block
       /\ log[i].event # log[j].event
       /\ log[i].event = "CertificateAnchored"
    \/ /\ log[i].block = log[j].block
       /\ log[i].event = log[j].event
       /\ i < j

(* Both filters are queried window by window; a window the node refuses is *)
(* logged and skipped.                                                     *)
Asked == Windows(worker.from, worker.to)
Query ==
    /\ worker.pc = "querying"
    /\ \E okA \in SUBSET Asked, okR \in SUBSET Asked :
          worker' = [worker EXCEPT
                        !.pc = "handling",
                        !.todo = Found("CertificateAnchored", okA)
                                 \cup Found("CertificateRevoked", okR),
                        !.lost = Found("CertificateAnchored", Asked \ okA)
                                 \cup Found("CertificateRevoked", Asked \ okR)]
    /\ UNCHANGED <<registryVars, row, asked, cursor, restarts>>

(* The sorted list of past events, worked off from its head. *)
First(i) == i \in worker.todo /\ \A j \in worker.todo \ {i} : Earlier(i, j)
Replay ==
    /\ worker.pc = "handling"
    /\ \E i \in worker.todo :
          /\ First(i)
          /\ row' = Handled(i)
          /\ worker' = [worker EXCEPT !.todo = @ \ {i}, !.seen = @ \cup {i}]
    /\ UNCHANGED <<registryVars, asked, cursor, restarts>>

(* A statement of a handler throws: start() rejects, the sweep is never    *)
(* started, and the process only sets its exit code.                       *)
ReplayThrows ==
    /\ worker.pc = "handling"
    /\ worker.todo # {}
    /\ restarts < MaxRestarts
    /\ worker' = [Stopped EXCEPT !.pc = "failed"]
    /\ UNCHANGED <<registryVars, row, asked, cursor, restarts>>

ReplayDone ==
    /\ worker.pc = "handling"
    /\ worker.todo = {}
    /\ worker' = [worker EXCEPT !.pc = "saving"]
    /\ UNCHANGED <<registryVars, row, asked, cursor, restarts>>

(* workerCursorRepo.set with the larger of fromBlock and toBlock. *)
SaveCursor_Past ==
    /\ worker.pc = "saving"
    /\ cursor' = IF worker.from > worker.to THEN worker.from ELSE worker.to + 1
    /\ worker' = [worker EXCEPT !.pc = "subscribing"]
    /\ UNCHANGED <<registryVars, row, asked, restarts>>

SaveCursor ==
    /\ worker.pc = "saving"
    /\ cursor' = IF worker.from > worker.to THEN worker.from ELSE worker.to
    /\ worker' = [worker EXCEPT !.pc = "subscribing"]
    /\ UNCHANGED <<registryVars, row, asked, restarts>>

(* contract.on listens from the block being built on; what was mined after *)
(* the head was read and before this step reaches no handler.              *)
Subscribe ==
    /\ worker.pc = "subscribing"
    /\ worker' = [Stopped EXCEPT !.pc = "live", !.since = height, !.seen = worker.seen]
    /\ UNCHANGED <<registryVars, row, asked, cursor, restarts>>

(* A live event, once its block is sealed; a delivery may never come. *)
Live(i) ==
    /\ worker.pc = "live"
    /\ i \in DOMAIN log
    /\ log[i].event \in {"CertificateAnchored", "CertificateRevoked"}
    /\ log[i].block \in worker.since .. ChainHead
    /\ i \notin worker.seen
    /\ row' = Handled(i)
    /\ worker' = [worker EXCEPT !.seen = @ \cup {i},
                                !.moved = @ \cup {log[i].block}]
    /\ UNCHANGED <<registryVars, asked, cursor, restarts>>

(* The handlers run concurrently, so the cursor may also move back. *)
SaveLive(b) ==
    /\ worker.pc = "live"
    /\ b \in worker.moved
    /\ cursor' = b
    /\ worker' = [worker EXCEPT !.moved = @ \ {b}]
    /\ UNCHANGED <<registryVars, row, asked, restarts>>

(* The reconciler, started after start() has returned, asks the contract   *)
(* itself about a row that awaits an outcome (the branch of                *)
(* handleStalledInFlight that finds it; the others are CertificatePipeline's). *)
Sealed(h) == [issued |-> checkCertificate(h).isIssued /\ records[h].issuedAt <= ChainHead,
              revoked |-> checkCertificate(h).isRevoked /\ records[h].revokedAt <= ChainHead]

Sweep_RevokedOnly(h) ==
    /\ worker.pc = "live"
    /\ row[h] = "REVOKING" /\ Sealed(h).revoked
    /\ row' = [row EXCEPT ![h] = "REVOKED"]
    /\ UNCHANGED <<registryVars, asked, cursor, worker, restarts>>

Sweep_AnchoringOnly(h) ==
    /\ worker.pc = "live"
    /\ row[h] = "ANCHORING" /\ Sealed(h).issued
    /\ row' = [row EXCEPT ![h] = "ACTIVE"]
    /\ UNCHANGED <<registryVars, asked, cursor, worker, restarts>>

Sweep_IsIssued(h) ==
    /\ worker.pc = "live"
    /\ Sealed(h).issued
    /\ \/ row[h] = "ANCHORING" /\ row' = [row EXCEPT ![h] = "ACTIVE"]
       \/ row[h] = "REVOKING" /\ row' = [row EXCEPT ![h] = "REVOKED"]
    /\ UNCHANGED <<registryVars, asked, cursor, worker, restarts>>

Sweep(h) ==
    /\ worker.pc = "live"
    /\ \/ /\ row[h] = "ANCHORING" /\ Sealed(h).issued
          /\ row' = [row EXCEPT ![h] = "ACTIVE"]
       \/ /\ row[h] = "REVOKING" /\ Sealed(h).revoked
          /\ row' = [row EXCEPT ![h] = "REVOKED"]
    /\ UNCHANGED <<registryVars, asked, cursor, worker, restarts>>

(* The process ends (crash, deployment, SIGTERM) and is started again. *)
Restart ==
    /\ worker.pc # "down"
    /\ restarts < MaxRestarts
    /\ restarts' = restarts + 1
    /\ worker' = Stopped
    /\ UNCHANGED <<registryVars, row, asked, cursor>>

Next ==
    \/ Chain
    \/ Administer
    \/ \E h \in Hash : \/ MineAnchor(h) \/ RecordAnchor(h)
                       \/ BroadcastRevoke(h) \/ MineRevoke(h) \/ RecordRevoke(h)
                       \/ Sweep(h)
    \/ Boot \/ Query \/ Replay \/ ReplayThrows \/ ReplayDone \/ SaveCursor \/ Subscribe
    \/ \E i \in DOMAIN log : Live(i)
    \/ \E b \in worker.moved : SaveLive(b)
    \/ Restart

Spec == Init /\ [][Next]_vars

(* The worker's own steps are taken, blocks are sealed, the platform       *)
(* restarts a worker that has ended or idles, and the sweep returns to     *)
(* every row.  Nothing is assumed of the node: a window may always fail, a *)
(* live event may never come.                                              *)
FairSpec ==
    /\ Spec
    /\ WF_vars(Chain)
    /\ WF_vars(Boot) /\ WF_vars(Query) /\ WF_vars(Replay) /\ WF_vars(ReplayDone)
    /\ WF_vars(SaveCursor) /\ WF_vars(Subscribe)
    /\ WF_vars(worker.pc = "failed" /\ Restart)
    /\ \A h \in Hash : WF_vars(Sweep(h))
-----------------------------------------------------------------------------
TypeOK ==
    /\ RegistryTypeOK
    /\ row \in [Hash -> {"PENDING_ANCHOR", "ANCHORING", "ACTIVE", "REVOKING", "REVOKED"}]
    /\ asked \subseteq Hash
    /\ cursor \in Nat \cup {NoCursor}
    /\ worker \in [pc : {"down", "querying", "handling", "saving", "subscribing",
                         "live", "failed"},
                   from : Nat, to : Nat, todo : SUBSET DOMAIN log, seen : SUBSET DOMAIN log,
                   lost : SUBSET DOMAIN log, since : Nat, moved : SUBSET Nat]
    /\ restarts \in 0 .. MaxRestarts

(* What the database calls ACTIVE or REVOKED is so on the chain, in a      *)
(* sealed block, however late, early or out of order the events come       *)
(* (handleAnchored, handleRevoked, handleStalledInFlight).                 *)
RowsFollowChain ==
    \A h \in Hash :
        /\ row[h] \in {"ACTIVE", "REVOKING", "REVOKED"} => Sealed(h).issued
        /\ row[h] = "REVOKED" => Sealed(h).revoked

(* An event is confirmed by the listener only when Depth blocks, its own   *)
(* included, have been sealed: a handler never settles a row on an event   *)
(* that is not that deep.  (The sweep does not look at the depth.)         *)
SettledDeep ==
    [][\A i \in DOMAIN log :
          i \in worker'.seen \ worker.seen /\ row' # row =>
              height - log[i].block >= Depth]_vars

(* The replay has met every event of its range when the cursor is written: *)
(* one that no handler has seen lies in a window that the node refused.    *)
(* The windows leave no block out between them.                            *)
ReplayComplete ==
    worker.pc = "saving" =>
        \A i \in DOMAIN log :
            /\ log[i].event \in {"CertificateAnchored", "CertificateRevoked"}
            /\ log[i].block \in worker.from .. worker.to
            => i \in worker.seen \cup worker.lost

(* The replay hands the anchor of a certificate to its handler before its  *)
(* revocation, although the two were asked for by two queries: otherwise   *)
(* one replay could not bring a row from ANCHORING to REVOKED.             *)
AnchorBeforeRevoke ==
    \A i, j \in worker.todo :
        First(i) /\ log[i].event = "CertificateRevoked" /\ log[j].hash = log[i].hash
            => log[j].event # "CertificateAnchored"

(* The cursor stays on a sealed block: a restart never begins after an     *)
(* event that nobody could have seen yet.                                  *)
CursorIsSealed == cursor # NoCursor => cursor <= ChainHead

(* Whatever the listener misses, an anchored certificate leaves ANCHORING, *)
(* and a mined revocation ends REVOKING: the sweep needs no event at all.  *)
AnchoredSettles ==
    \A h \in Hash :
        records[h].exists /\ row[h] = "ANCHORING" ~> row[h] \in {"ACTIVE", "REVOKING", "REVOKED"}
RevokedSettles ==
    \A h \in Hash :
        records[h].revoked /\ row[h] = "REVOKING" ~> row[h] = "REVOKED"

(* Whatever the listener misses, hears twice or hears late, each step is   *)
(* one of the abstract promise over the contract's own records, or leaves  *)
(* them alone: rows move along legal edges, a public status has its fact   *)
(* on the chain, and only a public certificate is revoked there.           *)
Trust == INSTANCE CertificateTrust
            WITH Cert <- Hash, status <- row,
                 issued <- {h \in Hash : records[h].exists},
                 revoked <- {h \in Hash : records[h].revoked}
StepsKeepTrust == [][Trust!Next]_(Trust!vars)

(* Together, of one listener that crashes and starts again: what it wrote, *)
(* handled and skipped is right at every step (startEventListener),        *)
ReplaySafe ==
    TypeOK /\ RowsFollowChain /\ ReplayComplete /\ AnchorBeforeRevoke /\ CursorIsSealed

(* and what it settles is deep enough, as promised, stays recorded by the  *)
(* contract, and is settled in the end (awaitConfirmations,                *)
(* handleStalledInFlight).                                                 *)
ReplaySettles ==
    RecordsAreKept /\ SettledDeep /\ StepsKeepTrust /\ AnchoredSettles /\ RevokedSettles

(* eventListener.js:218-219: "we've now confirmed there's nothing to miss  *)
(* up to that point" - an event behind the cursor finds no row that still  *)
(* awaits it.                                                              *)
NothingBehindCursor ==
    cursor # NoCursor /\ worker.pc = "live" =>
        \A i \in DOMAIN log :
            /\ log[i].event \in {"CertificateAnchored", "CertificateRevoked"}
            /\ log[i].block <= cursor
            /\ i \notin worker.seen
            => ~Awaits(i)
=============================================================================
