---------------------------- MODULE Verification ----------------------------
(***************************************************************************)
(* Public verification (services/verificationService.js verify and the     *)
(* three routes of routes/certificates.routes.js that call it) beside      *)
(* everything that can happen to a certificate meanwhile.  The certificate *)
(* itself moves as CertificateTrust allows, which CertificatePipeline      *)
(* implements: what is shown here holds for the whole pipeline.            *)
(*                                                                         *)
(* Each await of verify is a step: the row is read once, the chain is      *)
(* asked later, the facts are cached without waiting for the write, the    *)
(* document is fetched, the attempt is logged, the answer is built.        *)
(***************************************************************************)
EXTENDS Lifecycle, FiniteSets

CONSTANTS Cert,
          Request,    \* verification requests, each made once
          Nobody      \* no certificate, no facts, no answer

VARIABLES status, issued, revoked,    \* the certificate and the chain
          cache,     \* certificate.last_confirmed_chain_state
          writes,    \* recordChainState calls not yet applied
          req,       \* each request: its locals and its answer
          entries    \* verification_log

trustVars == <<status, issued, revoked>>
vars == <<status, issued, revoked, cache, writes, req, entries>>

Trust == INSTANCE CertificateTrust

(* ERROR: the look-up threw and the route handed it on, next(err). *)
Outcome == {"VERIFIED", "REVOKED", "TAMPERED", "NOT_FOUND", "ERROR"}
Facts == [isIssued : BOOLEAN, isRevoked : BOOLEAN]
ASSUME VerificationAssumption == Nobody \notin Facts
Route == {"verify", "verify-upload", "document"}
Upload == {"none", "genuine", "edited"}   \* what the verifier sends along

(* saved: the cache as the row was read; degraded: the facts are those;    *)
(* outcome, code and shown are the answer (shown: certificate data or the  *)
(* document).  wasRevoked, wasKnown and wasPublic record, for the           *)
(* properties, what held when the request arrived and when its row was     *)
(* read.                                                                   *)
Idle == [pc |-> "idle", cert |-> Nobody, route |-> "verify", upload |-> "none",
         saved |-> Nobody, facts |-> Nobody, degraded |-> FALSE,
         outcome |-> "NOT_FOUND", code |-> 0, shown |-> FALSE,
         wasRevoked |-> FALSE, wasKnown |-> FALSE, wasPublic |-> FALSE]

Init ==
    /\ Trust!Init
    /\ cache = [c \in Cert |-> Nobody]
    /\ writes = {}
    /\ req = [r \in Request |-> Idle]
    /\ entries = {}

(* decideOutcome: a mismatch dominates a revocation. *)
decideOutcome(facts, matches) ==
    IF ~facts.isIssued THEN "NOT_FOUND"
    ELSE IF ~matches THEN "TAMPERED"
    ELSE IF facts.isRevoked THEN "REVOKED"
    ELSE "VERIFIED"

Favourable == {"VERIFIED", "REVOKED"}
-----------------------------------------------------------------------------
(* The cache knows of c's revocation and nothing older is on its way to it. *)
Settled(c) ==
    /\ cache[c] # Nobody /\ cache[c].isRevoked
    /\ \A w \in writes : w.cert = c => w.facts.isRevoked

Step(r, from) == req[r].pc = from /\ UNCHANGED trustVars

Arrive(r, c, route, upload) ==
    /\ Step(r, "idle")
    /\ upload # "none" <=> route = "verify-upload"
    /\ req' = [req EXCEPT ![r] = [Idle EXCEPT !.pc = "load", !.cert = c, !.route = route,
                                              !.upload = upload, !.wasRevoked = c \in revoked,
                                              !.wasKnown = Settled(c)]]
    /\ UNCHANGED <<cache, writes, entries>>

(* An unknown number and one that is not public are answered alike. *)
Load(r) ==
    /\ Step(r, "load")
    /\ LET public == status[req[r].cert] \notin NotPublic \cup {"ABSENT"} IN
       req' = [req EXCEPT ![r] = [@ EXCEPT
                 !.pc = IF public THEN "check" ELSE "log",
                 !.saved = IF public THEN cache[req[r].cert] ELSE Nobody,
                 !.wasPublic = public]]
    /\ UNCHANGED <<cache, writes, entries>>

(* The statement of the look-up fails: no entry, no fact, an error. *)
LoadFails(r) ==
    /\ Step(r, "load")
    /\ req' = [req EXCEPT ![r] = [@ EXCEPT !.pc = "done", !.outcome = "ERROR", !.code = 500]]
    /\ UNCHANGED <<cache, writes, entries>>

CheckChain_Stale(r) ==
    /\ Step(r, "check")
    /\ LET facts == IF req[r].saved # Nobody THEN req[r].saved
                    ELSE [isIssued |-> req[r].cert \in issued,
                          isRevoked |-> req[r].cert \in revoked] IN
       /\ req' = [req EXCEPT ![r].pc = "compare", ![r].facts = facts,
                             ![r].saved = Nobody]
       /\ writes' = writes \cup {[by |-> r, cert |-> req[r].cert, facts |-> facts]}
    /\ UNCHANGED <<cache, entries>>

(* chainAdapter.check answers; the write to the cache is not awaited. *)
CheckChain(r) ==
    /\ Step(r, "check")
    /\ LET facts == [isIssued |-> req[r].cert \in issued,
                     isRevoked |-> req[r].cert \in revoked] IN
       /\ req' = [req EXCEPT ![r] = [@ EXCEPT !.pc = "compare", !.facts = facts,
                                              !.saved = Nobody]]
       /\ writes' = writes \cup {[by |-> r, cert |-> req[r].cert, facts |-> facts]}
    /\ UNCHANGED <<cache, entries>>

CheckFails_FromRow(r) ==
    /\ Step(r, "check")
    /\ LET facts == [isIssued |-> TRUE, isRevoked |-> status[req[r].cert] = "REVOKED"] IN
       req' = [req EXCEPT ![r] = [@ EXCEPT !.pc = "compare", !.facts = facts,
                                              !.saved = Nobody, !.degraded = TRUE]]
    /\ UNCHANGED <<cache, writes, entries>>

(* The chain is unreachable: the facts cached in the row that was read, or *)
(* NOT_FOUND, degraded, when there are none.                               *)
CheckFails(r) ==
    /\ Step(r, "check")
    /\ req' = [req EXCEPT ![r] = [@ EXCEPT
                 !.pc = IF req[r].saved = Nobody THEN "log" ELSE "compare",
                 !.facts = req[r].saved, !.saved = Nobody, !.degraded = TRUE]]
    /\ UNCHANGED <<cache, writes, entries>>

(* The pending write of one request is applied, or fails and is only       *)
(* logged.  The UPDATE is unconditional.                                   *)
ApplyWrite(w) ==
    /\ w \in writes
    /\ writes' = writes \ {w}
    /\ cache' \in {cache, [cache EXCEPT ![w.cert] = w.facts]}
    /\ UNCHANGED <<trustVars, req, entries>>

(* The document is the verifier's own, hashed as it is, or the one the     *)
(* gateways serve for the CID the chain names; an unreachable document is  *)
(* taken to match.                                                         *)
Served == {"genuine", "substituted", "unreachable"}
Matches(r, served) ==
    IF req[r].route = "verify-upload" THEN req[r].upload = "genuine"
    ELSE served \in {"genuine", "unreachable"}

Compare(r) ==
    /\ Step(r, "compare")
    /\ \E served \in Served :
          LET matches == req[r].facts.isIssued /\ Matches(r, served) IN
          req' = [req EXCEPT ![r] = [@ EXCEPT
                    !.pc = "log", !.outcome = decideOutcome(req[r].facts, matches)]]
    /\ UNCHANGED <<cache, writes, entries>>

(* append swallows its own failure. *)
Log(r) ==
    /\ Step(r, "log")
    /\ req' = [req EXCEPT ![r] = [@ EXCEPT !.pc = "answer"]]
    /\ entries' \in {entries, entries \cup {[by |-> r, result |-> req[r].outcome,
                                             degraded |-> req[r].degraded]}}
    /\ UNCHANGED <<cache, writes>>

(* /verify and /verify-upload: the code follows the outcome and the        *)
(* certificate is shown for a favourable one.  /document serves the file   *)
(* only then, if its row is found (403), the look-up does not throw (500)  *)
(* and a gateway has it (503).                                             *)
Code(outcome) ==
    CASE outcome = "NOT_FOUND" -> 404 [] outcome = "TAMPERED" -> 400 [] OTHER -> 200

AnswerVerify_ShowsTampered(r) ==
    /\ Step(r, "answer")
    /\ req[r].route # "document"
    /\ req' = [req EXCEPT ![r].pc = "done", ![r].code = Code(req[r].outcome),
                          ![r].shown = req[r].facts # Nobody]
    /\ UNCHANGED <<cache, writes, entries>>

AnswerVerify(r) ==
    /\ Step(r, "answer")
    /\ req[r].route # "document"
    /\ req' = [req EXCEPT ![r] = [@ EXCEPT !.pc = "done", !.code = Code(req[r].outcome),
                                           !.shown = req[r].outcome \in Favourable]]
    /\ UNCHANGED <<cache, writes, entries>>

AnswerDocument(r) ==
    /\ Step(r, "answer")
    /\ req[r].route = "document"
    /\ \E code \in IF req[r].outcome \in Favourable THEN {200, 403, 500, 503} ELSE {403} :
          req' = [req EXCEPT ![r] = [@ EXCEPT !.pc = "done", !.code = code,
                                                 !.shown = code = 200]]
    /\ UNCHANGED <<cache, writes, entries>>

Certificate == Trust!Next /\ UNCHANGED <<cache, writes, req, entries>>

Answering(r) ==
    \/ Load(r) \/ LoadFails(r) \/ CheckChain(r) \/ CheckFails(r) \/ Compare(r)
    \/ Log(r) \/ AnswerVerify(r) \/ AnswerDocument(r)

Next ==
    \/ Certificate
    \/ \E r \in Request, c \in Cert, route \in Route, upload \in Upload :
          Arrive(r, c, route, upload)
    \/ \E r \in Request : Answering(r)
    \/ \E w \in writes : ApplyWrite(w)

Spec == Init /\ [][Next]_vars
-----------------------------------------------------------------------------
TypeOK ==
    /\ Trust!TypeOK
    /\ cache \in [Cert -> Facts \cup {Nobody}]
    /\ writes \subseteq [by : Request, cert : Cert, facts : Facts]
    /\ req \in [Request ->
          [pc : {"idle", "load", "check", "compare", "log", "answer", "done"},
           cert : Cert \cup {Nobody}, route : Route, upload : Upload,
           saved : Facts \cup {Nobody}, facts : Facts \cup {Nobody},
           degraded : BOOLEAN, outcome : Outcome,
           code : {0, 200, 400, 403, 404, 500, 503}, shown : BOOLEAN,
           wasRevoked : BOOLEAN, wasKnown : BOOLEAN, wasPublic : BOOLEAN]]
    /\ entries \subseteq [by : Request, result : Outcome, degraded : BOOLEAN]

Done(r) == req[r].pc = "done"

(* A verification that reached the chain never calls VERIFIED what was     *)
(* revoked before it was asked, whatever the cache holds and however late  *)
(* the other requests' cache writes arrive (verify 91-137).                *)
RevokedNotVerified ==
    \A r \in Request :
        Done(r) /\ req[r].outcome = "VERIFIED" /\ ~req[r].degraded => ~req[r].wasRevoked

(* Every favourable outcome, degraded or not, is about a certificate that  *)
(* is on the chain, and REVOKED about one that is revoked there.           *)
FavourableIsOnChain ==
    \A r \in Request :
        /\ req[r].outcome \in Favourable => req[r].cert \in issued
        /\ req[r].outcome = "REVOKED" => req[r].cert \in revoked

(* What the cache, or a write on its way to it, says of the chain has been *)
(* true: it is at most too old.                                            *)
CacheIsHistory ==
    \A c \in Cert :
        \A f \in {cache[c]} \cup {w.facts : w \in {w \in writes : w.cert = c}} :
            f # Nobody => /\ f.isIssued /\ c \in issued
                          /\ f.isRevoked => c \in revoked

(* Once the row was public when it was read, the answer is never           *)
(* NOT_FOUND, except for want of any facts: the pipeline made it public    *)
(* only after the chain had it (CertificateTrust).                         *)
PublicIsFound ==
    \A r \in Request :
        Done(r) /\ req[r].wasPublic /\ req[r].facts # Nobody =>
            req[r].outcome # "NOT_FOUND"

(* An edited copy is TAMPERED, even of a revoked certificate.              *)
EditedIsTampered ==
    \A r \in Request :
        Done(r) /\ req[r].upload = "edited" => req[r].outcome \notin Favourable

(* No route shows anything of a certificate whose row was not public when  *)
(* it was read, nor of one it calls tampered.                              *)
ShownIsPublic ==
    \A r \in Request :
        Done(r) /\ req[r].shown => /\ req[r].wasPublic
                                   /\ req[r].outcome \in Favourable
                                   /\ req[r].code = 200

(* What the log says of a request is what the request was told.            *)
LogTellsAnswer ==
    \A e \in entries :
        /\ e.result = req[e.by].outcome
        /\ e.degraded = req[e.by].degraded
        /\ req[e.by].pc \in {"answer", "done"}

(* Once the cache holds a revocation, and no answer from before it is      *)
(* still to be written, every later verification tells of it (or of a      *)
(* document that does not match), the degraded ones included: whatever the *)
(* others write, in whatever order, never makes the service forget, and    *)
(* the row is never hidden again (verify 80-117; the window before the     *)
(* late writes are applied is NeverVerifiesRevoked's).                     *)
RevocationIsRemembered ==
    \A r \in Request :
        Done(r) /\ req[r].wasKnown /\ req[r].outcome # "ERROR" =>
            req[r].outcome \in {"REVOKED", "TAMPERED"}

(* Together: what an answer may say of the certificate (decideOutcome,     *)
(* verify), *)
AnswersAreTrue ==
    RevokedNotVerified /\ FavourableIsOnChain /\ PublicIsFound /\ EditedIsTampered

(* and what it shows, logs and caches.                                     *)
RecordsAreTrue == TypeOK /\ CacheIsHistory /\ ShownIsPublic /\ LogTellsAnswer

(* verificationService.js:3-4: it "must never report VERIFIED for a        *)
(* tampered or revoked document" - degraded mode included.                 *)
NeverVerifiesRevoked ==
    \A r \in Request :
        Done(r) /\ req[r].outcome = "VERIFIED" => ~req[r].wasRevoked

(* verificationService.js:93: the cache holds "the last confirmed truth":  *)
(* once it knows of a revocation it keeps knowing it.                      *)
CacheKeepsRevocation ==
    [][\A c \in Cert :
          cache[c] # Nobody /\ cache[c].isRevoked => cache'[c].isRevoked]_cache
=============================================================================
