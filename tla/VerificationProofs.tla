------------------------- MODULE VerificationProofs -------------------------
(***************************************************************************)
(* Proofs about public verification, for any certificates and any number   *)
(* of requests: the certificate moves as CertificateTrust allows, and each *)
(* answer, log entry and cached state is true in the sense of              *)
(* Verification.tla.                                                       *)
(*                                                                         *)
(* And about the pages that ask for it, for any numbers, files, prompts    *)
(* and length of the history: the outcome shown is the one asked for, and  *)
(* the camera stops with its page (VerifyPages.tla).                       *)
(***************************************************************************)
EXTENDS Verification, VerifyPages, FiniteSetTheorems, TLAPS

(* Facts that were read, now or earlier, of certificate c: i are the
   anchored certificates, v the revoked ones. *)
TrueOf(f, c, i, v) ==
  f # Nobody => /\ f \in Facts /\ f.isIssued /\ c \in i
                /\ f.isRevoked => c \in v

(* What a request knows and will answer. *)
Knows(q, i, v) ==
  /\ q.pc # "idle" => q.cert \in Cert
  /\ q.wasRevoked => q.cert \in v
  /\ q.wasPublic => q.cert \in i
  /\ TrueOf(q.saved, q.cert, i, v) /\ TrueOf(q.facts, q.cert, i, v)
  /\ q.saved # Nobody \/ q.facts # Nobody => q.wasPublic
  /\ q.facts # Nobody /\ ~q.degraded /\ q.wasRevoked => q.facts.isRevoked
  /\ q.upload = "edited" => q.route = "verify-upload"
  /\ q.pc \in {"idle", "load", "check"} => q.facts = Nobody
  /\ q.pc = "check" => q.wasPublic
  /\ q.pc = "compare" => q.facts # Nobody
Decided(q) ==
  /\ q.pc \in {"idle", "load", "check", "compare"} => q.outcome = "NOT_FOUND"
  /\ q.pc # "done" => ~q.shown
  /\ q.outcome \in Favourable => q.facts # Nobody /\ q.upload # "edited"
  /\ q.outcome = "VERIFIED" => ~q.facts.isRevoked
  /\ q.outcome = "REVOKED" => q.facts.isRevoked
  /\ q.pc \in {"log", "answer", "done"} /\ q.facts # Nobody => q.outcome # "NOT_FOUND"
  /\ q.shown => q.outcome \in Favourable /\ q.code = 200

Pc == {"idle", "load", "check", "compare", "log", "answer", "done"}
Status == {0, 200, 400, 403, 404, 500, 503}
Local == [pc : Pc,
          cert : Cert \cup {Nobody}, route : Route, upload : Upload,
          saved : Facts \cup {Nobody}, facts : Facts \cup {Nobody},
          degraded : BOOLEAN, outcome : Outcome,
          code : Status, shown : BOOLEAN,
          wasRevoked : BOOLEAN, wasKnown : BOOLEAN, wasPublic : BOOLEAN]
Write == [by : Request, cert : Cert, facts : Facts]

(* A public status has its fact on the chain, and what is revoked was
   anchored. *)
TrustInv ==
  /\ Trust!TypeOK
  /\ revoked \subseteq issued
  /\ \A c \in Cert : status[c] \notin NotPublic \cup {"ABSENT"} => c \in issued

CacheInv ==
  /\ cache \in [Cert -> Facts \cup {Nobody}] /\ writes \subseteq Write
  /\ \A c \in Cert : TrueOf(cache[c], c, issued, revoked)
  /\ \A w \in writes : TrueOf(w.facts, w.cert, issued, revoked)

RequestInv ==
  /\ req \in [Request -> Local]
  /\ \A r \in Request : Knows(req[r], issued, revoked) /\ Decided(req[r])

LogInv ==
  /\ entries \subseteq [by : Request, result : Outcome, degraded : BOOLEAN]
  /\ LogTellsAnswer

VInv == TrustInv /\ CacheInv /\ RequestInv /\ LogInv

(* A request's locals keep their types when one of them is assigned. *)
LEMMA AssignPc ==
  ASSUME NEW p \in Local, NEW x \in Pc PROVE [p EXCEPT !.pc = x] \in Local
BY DEF Local
LEMMA AssignCert ==
  ASSUME NEW p \in Local, NEW x \in Cert PROVE [p EXCEPT !.cert = x] \in Local
BY DEF Local
LEMMA AssignRoute ==
  ASSUME NEW p \in Local, NEW x \in Route PROVE [p EXCEPT !.route = x] \in Local
BY DEF Local
LEMMA AssignUpload ==
  ASSUME NEW p \in Local, NEW x \in Upload PROVE [p EXCEPT !.upload = x] \in Local
BY DEF Local
LEMMA AssignSaved ==
  ASSUME NEW p \in Local, NEW x \in Facts \cup {Nobody} PROVE [p EXCEPT !.saved = x] \in Local
BY DEF Local
LEMMA AssignFacts ==
  ASSUME NEW p \in Local, NEW x \in Facts \cup {Nobody} PROVE [p EXCEPT !.facts = x] \in Local
BY DEF Local
LEMMA AssignDegraded ==
  ASSUME NEW p \in Local, NEW x \in BOOLEAN PROVE [p EXCEPT !.degraded = x] \in Local
BY DEF Local
LEMMA AssignOutcome ==
  ASSUME NEW p \in Local, NEW x \in Outcome PROVE [p EXCEPT !.outcome = x] \in Local
BY DEF Local
LEMMA AssignCode ==
  ASSUME NEW p \in Local, NEW x \in Status PROVE [p EXCEPT !.code = x] \in Local
BY DEF Local
LEMMA AssignShown ==
  ASSUME NEW p \in Local, NEW x \in BOOLEAN PROVE [p EXCEPT !.shown = x] \in Local
BY DEF Local
LEMMA AssignWasRevoked ==
  ASSUME NEW p \in Local, NEW x \in BOOLEAN PROVE [p EXCEPT !.wasRevoked = x] \in Local
BY DEF Local
LEMMA AssignWasKnown ==
  ASSUME NEW p \in Local, NEW x \in BOOLEAN PROVE [p EXCEPT !.wasKnown = x] \in Local
BY DEF Local
LEMMA AssignWasPublic ==
  ASSUME NEW p \in Local, NEW x \in BOOLEAN PROVE [p EXCEPT !.wasPublic = x] \in Local
BY DEF Local

LEMMA AnswersFollow == VInv => AnswersAreTrue
<1> SUFFICES ASSUME VInv, NEW r \in Request
             PROVE  /\ Done(r) /\ req[r].outcome = "VERIFIED" /\ ~req[r].degraded
                         => ~req[r].wasRevoked
                    /\ req[r].outcome \in Favourable => req[r].cert \in issued
                    /\ req[r].outcome = "REVOKED" => req[r].cert \in revoked
                    /\ Done(r) /\ req[r].wasPublic /\ req[r].facts # Nobody =>
                         req[r].outcome # "NOT_FOUND"
                    /\ Done(r) /\ req[r].upload = "edited" => req[r].outcome \notin Favourable
  BY DEF AnswersAreTrue, RevokedNotVerified, FavourableIsOnChain, PublicIsFound,
     EditedIsTampered
<1> PICK q : q = req[r]
  OBVIOUS
<1>1. Knows(q, issued, revoked) /\ Decided(q)
  BY DEF VInv, RequestInv
<1> QED
  BY <1>1 DEF Knows, Decided, TrueOf, Favourable, Done

LEMMA RecordsFollow == VInv => RecordsAreTrue
<1> SUFFICES ASSUME VInv PROVE RecordsAreTrue
  OBVIOUS
<1>1. TypeOK
  BY DEF VInv, TrustInv, CacheInv, RequestInv, LogInv, TypeOK, Local, Pc, Status, Write
<1>2. CacheIsHistory
  BY DEF VInv, CacheInv, TrueOf, CacheIsHistory
<1>3. ShownIsPublic
  BY DEF VInv, RequestInv, Knows, Decided, ShownIsPublic
<1> QED
  BY <1>1, <1>2, <1>3 DEF VInv, LogInv, RecordsAreTrue

-----------------------------------------------------------------------------
(* The certificate's own steps: what was true of the chain stays true. *)
LEMMA TrustKeeps ==
  ASSUME TrustInv, Trust!Next
  PROVE  TrustInv' /\ issued \subseteq issued' /\ revoked \subseteq revoked'
<1> PICK c \in Cert : \/ Trust!Create(c)
                      \/ \E to \in Trust!CertState : Trust!Advance(c, to)
                      \/ Trust!Anchor(c)
                      \/ Trust!Revoke(c)
  BY DEF Trust!Next
<1>1. CASE Trust!Create(c)
  BY <1>1 DEF Trust!Create, TrustInv, Trust!TypeOK, Trust!CertState, NotPublic
<1>2. ASSUME NEW to \in Trust!CertState, Trust!Advance(c, to)
      PROVE  TrustInv' /\ issued \subseteq issued' /\ revoked \subseteq revoked'
  <2>1. status' = [status EXCEPT ![c] = to] /\ UNCHANGED <<issued, revoked>>
    BY <1>2 DEF Trust!Advance
  <2>2. to \notin NotPublic \cup {"ABSENT"} => c \in issued
    BY <1>2 DEF Trust!Advance, TrustInv, Trust!LegalEdge, NotPublic
  <2> QED
    BY <2>1, <2>2 DEF TrustInv, Trust!TypeOK
<1>3. CASE Trust!Anchor(c)
  BY <1>3 DEF Trust!Anchor, TrustInv, Trust!TypeOK
<1>4. CASE Trust!Revoke(c)
  BY <1>4 DEF Trust!Revoke, TrustInv, Trust!TypeOK
<1> QED
  BY <1>1, <1>2, <1>3, <1>4

LEMMA KnowsStays ==
  ASSUME NEW q, NEW i, NEW v, NEW i2, NEW v2, i \subseteq i2, v \subseteq v2, Knows(q, i, v)
  PROVE  Knows(q, i2, v2)
BY DEF Knows, TrueOf

LEMMA CertificateKeeps == VInv /\ Certificate => VInv'
<1> SUFFICES ASSUME VInv, Certificate PROVE VInv'
  OBVIOUS
<1>1. TrustInv' /\ issued \subseteq issued' /\ revoked \subseteq revoked'
  BY TrustKeeps DEF VInv, Certificate
<1>2. CacheInv'
  BY <1>1 DEF VInv, CacheInv, TrueOf, Certificate
<1>3. RequestInv'
  BY <1>1, KnowsStays DEF VInv, RequestInv, Certificate
<1>4. LogInv'
  BY DEF VInv, LogInv, LogTellsAnswer, Certificate
<1> QED
  BY <1>1, <1>2, <1>3, <1>4 DEF VInv

-----------------------------------------------------------------------------
(* The step of one request: it must keep what is asked of it, and what the
   log says of it. *)
LEMMA RequestStep ==
  ASSUME VInv, NEW r \in Request, NEW q \in Local, UNCHANGED trustVars,
         req' = [req EXCEPT ![r] = q], Knows(q, issued, revoked), Decided(q)
  PROVE  TrustInv' /\ RequestInv' /\ \A s \in Request \ {r} : req'[s] = req[s]
<1>1. req'[r] = q /\ \A s \in Request \ {r} : req'[s] = req[s]
  BY DEF VInv, RequestInv
<1>2. req' \in [Request -> Local]
  BY DEF VInv, RequestInv
<1>3. UNCHANGED <<status, issued, revoked>>
  BY DEF trustVars
<1>4. TrustInv'
  BY <1>3 DEF VInv, TrustInv, Trust!TypeOK
<1> QED
  BY <1>1, <1>2, <1>3, <1>4 DEF VInv, RequestInv

(* While nothing is logged, the answer to come must not change. *)
LEMMA LogStays ==
  ASSUME VInv, NEW r \in Request, entries' = entries,
         \A s \in Request \ {r} : req'[s] = req[s],
         \/ req[r].pc \notin {"answer", "done"}
         \/ /\ req'[r].pc \in {"answer", "done"}
            /\ req'[r].outcome = req[r].outcome /\ req'[r].degraded = req[r].degraded
  PROVE  LogInv'
BY DEF VInv, LogInv, LogTellsAnswer

LEMMA CacheStays ==
  ASSUME VInv, UNCHANGED <<trustVars, cache, writes>>
  PROVE  CacheInv'
BY DEF VInv, CacheInv, TrueOf, trustVars

(* The number is not yet looked up: nothing is known. *)
LEMMA ArriveKeeps ==
  ASSUME VInv, NEW r \in Request, NEW c \in Cert, NEW route \in Route, NEW upload \in Upload,
         Arrive(r, c, route, upload)
  PROVE  VInv'
<1> DEFINE q == [Idle EXCEPT !.pc = "load", !.cert = c, !.route = route,
                             !.upload = upload, !.wasRevoked = c \in revoked,
                             !.wasKnown = Settled(c)]
<1>1. /\ q.pc = "load" /\ q.cert = c /\ q.route = route /\ q.upload = upload
      /\ q.saved = Nobody /\ q.facts = Nobody /\ q.outcome = "NOT_FOUND" /\ ~q.shown
      /\ q.wasRevoked = (c \in revoked) /\ ~q.wasPublic /\ q.code = 0 /\ ~q.degraded
  BY DEF Idle
<1>2. Idle \in Local
  BY DEF Idle, Local, Pc, Status, Outcome, Route, Upload
<1>3. (c \in revoked) \in BOOLEAN /\ Settled(c) \in BOOLEAN
  BY DEF Settled
<1>4. q \in Local
  BY <1>2, <1>3, AssignPc, AssignCert, AssignRoute, AssignUpload, AssignWasRevoked,
     AssignWasKnown DEF Pc
<1>5. req' = [req EXCEPT ![r] = q]
  BY DEF Arrive
<1> HIDE DEF q
<1>6. Knows(q, issued, revoked) /\ Decided(q)
  BY <1>1 DEF Knows, TrueOf, Decided, Favourable, Arrive
<1>7. TrustInv' /\ RequestInv' /\ \A s \in Request \ {r} : req'[s] = req[s]
  BY <1>4, <1>5, <1>6, RequestStep DEF Arrive, Step
<1>8. CacheInv' /\ LogInv'
  BY <1>7, CacheStays, LogStays DEF Arrive, Step
<1> QED
  BY <1>7, <1>8 DEF VInv

LEMMA LoadKeeps ==
  ASSUME VInv, NEW r \in Request, Load(r)
  PROVE  VInv'
<1> DEFINE public == status[req[r].cert] \notin NotPublic \cup {"ABSENT"}
           saved == IF public THEN cache[req[r].cert] ELSE Nobody
           q == [req[r] EXCEPT !.pc = IF public THEN "check" ELSE "log",
                               !.saved = saved, !.wasPublic = public]
<1>1. req[r] \in Local /\ Knows(req[r], issued, revoked) /\ Decided(req[r])
  BY DEF VInv, RequestInv
<1>2. req[r].cert \in Cert /\ req[r].pc = "load" /\ req[r].facts = Nobody
  BY <1>1 DEF Knows, Load, Step
<1>3. /\ saved \in Facts \cup {Nobody}
      /\ TrueOf(saved, req[r].cert, issued, revoked)
      /\ saved # Nobody => public
      /\ public => req[r].cert \in issued
      /\ public \in BOOLEAN
  BY <1>2 DEF VInv, TrustInv, CacheInv, TrueOf
<1>4. req' = [req EXCEPT ![r] = q]
  BY DEF Load
<1> HIDE DEF public, saved
<1>5. q \in Local
  BY <1>1, <1>3, AssignPc, AssignSaved, AssignWasPublic DEF Pc
<1>6. /\ q.pc = (IF public THEN "check" ELSE "log") /\ q.saved = saved
      /\ q.wasPublic = public /\ q.cert = req[r].cert /\ q.facts = Nobody
      /\ q.route = req[r].route /\ q.upload = req[r].upload
      /\ q.degraded = req[r].degraded /\ q.outcome = req[r].outcome /\ q.code = req[r].code
      /\ q.shown = req[r].shown /\ q.wasRevoked = req[r].wasRevoked
  BY <1>1, <1>2, <1>3 DEF Local
<1> HIDE DEF q
<1>7. Knows(q, issued, revoked)
  BY <1>1, <1>2, <1>3, <1>6 DEF Knows, TrueOf
<1>8. Decided(q)
  BY <1>1, <1>2, <1>6 DEF Decided, Favourable
<1>9. TrustInv' /\ RequestInv' /\ \A s \in Request \ {r} : req'[s] = req[s]
  BY <1>4, <1>5, <1>7, <1>8, RequestStep DEF Load, Step
<1>10. CacheInv' /\ LogInv'
  BY <1>2, <1>9, CacheStays, LogStays DEF Load, Step
<1> QED
  BY <1>9, <1>10 DEF VInv

(* The look-up throws: the request ends with nothing known. *)
LEMMA LoadFailsKeeps ==
  ASSUME VInv, NEW r \in Request, LoadFails(r)
  PROVE  VInv'
<1> DEFINE verdict == "ERROR"
           code == 500
           q == [req[r] EXCEPT !.pc = "done", !.outcome = verdict, !.code = code]
<1>1. req[r] \in Local /\ Knows(req[r], issued, revoked) /\ Decided(req[r])
  BY DEF VInv, RequestInv
<1>2. req[r].pc = "load" /\ req[r].facts = Nobody /\ req' = [req EXCEPT ![r] = q]
  BY <1>1 DEF Knows, LoadFails, Step
<1>3. q \in Local
  <2>1. verdict \in Outcome /\ code \in Status
    BY DEF Outcome, Status
  <2> HIDE DEF verdict, code
  <2> QED
    BY <1>1, <2>1, AssignPc, AssignOutcome, AssignCode DEF Pc
<1>4. /\ q.pc = "done" /\ q.saved = req[r].saved /\ q.facts = Nobody
      /\ q.wasPublic = req[r].wasPublic /\ q.cert = req[r].cert
      /\ q.route = req[r].route /\ q.upload = req[r].upload
      /\ q.degraded = req[r].degraded /\ q.outcome = "ERROR"
      /\ q.shown = req[r].shown /\ q.wasRevoked = req[r].wasRevoked
  BY <1>1, <1>2 DEF Local
<1> HIDE DEF q
<1>5. Knows(q, issued, revoked)
  BY <1>1, <1>2, <1>4 DEF Knows, TrueOf
<1>6. Decided(q)
  BY <1>1, <1>2, <1>4 DEF Decided, Favourable
<1>7. TrustInv' /\ RequestInv' /\ \A s \in Request \ {r} : req'[s] = req[s]
  BY <1>2, <1>3, <1>5, <1>6, RequestStep DEF LoadFails, Step
<1>8. CacheInv' /\ LogInv'
  BY <1>2, <1>7, CacheStays, LogStays DEF LoadFails, Step
<1> QED
  BY <1>7, <1>8 DEF VInv

(* The chain answers: what was revoked before the request came is so now. *)
LEMMA CheckChainKeeps ==
  ASSUME VInv, NEW r \in Request, CheckChain(r)
  PROVE  VInv'
<1> DEFINE facts == [isIssued |-> req[r].cert \in issued,
                     isRevoked |-> req[r].cert \in revoked]
           q == [req[r] EXCEPT !.pc = "compare", !.facts = facts, !.saved = Nobody]
           w == [by |-> r, cert |-> req[r].cert, facts |-> facts]
<1>1. req[r] \in Local /\ Knows(req[r], issued, revoked) /\ Decided(req[r])
  BY DEF VInv, RequestInv
<1>2. req[r].cert \in Cert /\ req[r].pc = "check" /\ req[r].wasPublic
      /\ req[r].cert \in issued /\ (req[r].wasRevoked => req[r].cert \in revoked)
  BY <1>1 DEF Knows, CheckChain, Step
<1>3. (req[r].cert \in issued) \in BOOLEAN /\ (req[r].cert \in revoked) \in BOOLEAN
  OBVIOUS
<1>4. facts \in Facts
  BY <1>3 DEF Facts
<1>5. facts # Nobody
  BY <1>4, VerificationAssumption
<1>6. facts.isIssued /\ (facts.isRevoked <=> req[r].cert \in revoked)
  BY <1>2
<1>7. /\ facts \in Facts /\ facts.isIssued /\ (facts.isRevoked <=> req[r].cert \in revoked)
      /\ facts # Nobody
  BY <1>4, <1>5, <1>6
<1>8. req' = [req EXCEPT ![r] = q] /\ writes' = writes \cup {w}
  BY DEF CheckChain
<1> HIDE DEF facts
<1>9. q \in Local
  BY <1>1, <1>7, AssignPc, AssignFacts, AssignSaved DEF Pc
<1>10. /\ q.pc = "compare" /\ q.saved = Nobody /\ q.facts = facts
      /\ q.wasPublic = req[r].wasPublic /\ q.cert = req[r].cert
      /\ q.route = req[r].route /\ q.upload = req[r].upload
      /\ q.degraded = req[r].degraded /\ q.outcome = req[r].outcome /\ q.code = req[r].code
      /\ q.shown = req[r].shown /\ q.wasRevoked = req[r].wasRevoked
  BY <1>1, <1>2, <1>7 DEF Local
<1>11. w \in Write /\ w.cert = req[r].cert /\ w.facts = facts
  BY <1>2, <1>7 DEF Write
<1> HIDE DEF q, w
<1>12. Knows(q, issued, revoked)
  BY <1>1, <1>2, <1>7, <1>10 DEF Knows, TrueOf
<1>13. Decided(q)
  BY <1>1, <1>2, <1>10 DEF Decided, Favourable
<1>14. TrustInv' /\ RequestInv' /\ \A s \in Request \ {r} : req'[s] = req[s]
  BY <1>8, <1>9, <1>12, <1>13, RequestStep DEF CheckChain, Step
<1>15. LogInv'
  BY <1>2, <1>14, LogStays DEF CheckChain, Step
<1>16. CacheInv'
  BY <1>2, <1>7, <1>8, <1>11 DEF VInv, CacheInv, TrueOf, CheckChain, Step, trustVars
<1> QED
  BY <1>14, <1>15, <1>16 DEF VInv

(* It does not: the facts of the row that was read stand in. *)
LEMMA CheckFailsKeeps ==
  ASSUME VInv, NEW r \in Request, CheckFails(r)
  PROVE  VInv'
<1> DEFINE pc == IF req[r].saved = Nobody THEN "log" ELSE "compare"
           q == [req[r] EXCEPT !.pc = pc, !.facts = req[r].saved,
                               !.saved = Nobody, !.degraded = TRUE]
<1>1. req[r] \in Local /\ Knows(req[r], issued, revoked) /\ Decided(req[r])
  BY DEF VInv, RequestInv
<1>2. req[r].pc = "check" /\ req[r].wasPublic
  BY <1>1 DEF Knows, CheckFails, Step
<1>3. req' = [req EXCEPT ![r] = q]
  BY DEF CheckFails
<1>4. pc \in {"log", "compare"} /\ (pc = "compare" => req[r].saved # Nobody)
      /\ (pc = "log" => req[r].saved = Nobody)
  OBVIOUS
<1> HIDE DEF pc
<1>5. pc \in Pc /\ req[r].saved \in Facts \cup {Nobody}
  BY <1>1, <1>4 DEF Pc, Local
<1>6. q \in Local
  BY <1>1, <1>5, AssignPc, AssignFacts, AssignSaved, AssignDegraded DEF Pc
<1>7. /\ q.pc = pc /\ q.saved = Nobody /\ q.facts = req[r].saved
      /\ q.wasPublic = req[r].wasPublic /\ q.cert = req[r].cert
      /\ q.route = req[r].route /\ q.upload = req[r].upload
      /\ q.degraded /\ q.outcome = req[r].outcome /\ q.code = req[r].code
      /\ q.shown = req[r].shown /\ q.wasRevoked = req[r].wasRevoked
  BY <1>1, <1>2, <1>4 DEF Local
<1> HIDE DEF q
<1>8. Knows(q, issued, revoked)
  BY <1>1, <1>2, <1>4, <1>7 DEF Knows, TrueOf
<1>9. Decided(q)
  BY <1>1, <1>2, <1>4, <1>7 DEF Decided, Favourable
<1>10. TrustInv' /\ RequestInv' /\ \A s \in Request \ {r} : req'[s] = req[s]
  BY <1>3, <1>6, <1>8, <1>9, RequestStep DEF CheckFails, Step
<1>11. CacheInv' /\ LogInv'
  BY <1>2, <1>10, CacheStays, LogStays DEF CheckFails, Step
<1> QED
  BY <1>10, <1>11 DEF VInv

(* Late writes bring old facts, never untrue ones. *)
LEMMA ApplyWriteKeeps ==
  ASSUME VInv, NEW w \in writes, ApplyWrite(w)
  PROVE  VInv'
<1>1. w \in Write
  BY DEF VInv, CacheInv
<1>2. CacheInv'
  BY <1>1 DEF VInv, CacheInv, Write, TrueOf, ApplyWrite, trustVars
<1>3. TrustInv' /\ RequestInv' /\ LogInv'
  BY DEF VInv, TrustInv, Trust!TypeOK, RequestInv, LogInv, LogTellsAnswer, ApplyWrite,
     trustVars
<1> QED
  BY <1>2, <1>3 DEF VInv

(* The answer follows from the facts and the document. *)
LEMMA CompareKeeps ==
  ASSUME VInv, NEW r \in Request, Compare(r)
  PROVE  VInv'
<1> PICK served \in Served :
      req' = [req EXCEPT ![r] = [@ EXCEPT !.pc = "log",
                         !.outcome = decideOutcome(req[r].facts,
                           req[r].facts.isIssued /\ Matches(r, served))]]
  BY DEF Compare
<1> DEFINE verdict == decideOutcome(req[r].facts,
                        req[r].facts.isIssued /\ Matches(r, served))
           q == [req[r] EXCEPT !.pc = "log", !.outcome = verdict]
<1>1. req[r] \in Local /\ Knows(req[r], issued, revoked) /\ Decided(req[r])
  BY DEF VInv, RequestInv
<1>2. req[r].pc = "compare" /\ req[r].facts # Nobody /\ req[r].facts.isIssued /\ req[r].wasPublic
  BY <1>1 DEF Knows, TrueOf, Compare, Step
<1>3. req[r].upload = "edited" => ~Matches(r, served)
  BY <1>1 DEF Knows, Matches
<1>4. /\ verdict \in {"TAMPERED", "VERIFIED", "REVOKED"}
      /\ verdict = "VERIFIED" => ~req[r].facts.isRevoked
      /\ verdict = "REVOKED" => req[r].facts.isRevoked
      /\ req[r].upload = "edited" => verdict = "TAMPERED"
  BY <1>2, <1>3 DEF decideOutcome
<1>5. req' = [req EXCEPT ![r] = q]
  OBVIOUS
<1> HIDE DEF verdict
<1>6. verdict \in Outcome
  BY <1>4 DEF Outcome
<1>7. q \in Local
  BY <1>1, <1>6, AssignPc, AssignOutcome DEF Pc
<1>8. /\ q.pc = "log" /\ q.saved = req[r].saved /\ q.facts = req[r].facts
      /\ q.wasPublic = req[r].wasPublic /\ q.cert = req[r].cert
      /\ q.route = req[r].route /\ q.upload = req[r].upload
      /\ q.degraded = req[r].degraded /\ q.outcome = verdict /\ q.code = req[r].code
      /\ q.shown = req[r].shown /\ q.wasRevoked = req[r].wasRevoked
  BY <1>1, <1>4 DEF Local, Outcome
<1> HIDE DEF q
<1>9. Knows(q, issued, revoked)
  BY <1>1, <1>2, <1>8 DEF Knows, TrueOf
<1>10. Decided(q)
  BY <1>1, <1>2, <1>4, <1>8 DEF Decided, Favourable
<1>11. TrustInv' /\ RequestInv' /\ \A s \in Request \ {r} : req'[s] = req[s]
  BY <1>5, <1>7, <1>9, <1>10, RequestStep DEF Compare, Step
<1>12. CacheInv' /\ LogInv'
  BY <1>2, <1>11, CacheStays, LogStays DEF Compare, Step
<1> QED
  BY <1>11, <1>12 DEF VInv

(* The entry says what the answer will be; append may have failed. *)
LEMMA LogKeeps ==
  ASSUME VInv, NEW r \in Request, Log(r)
  PROVE  VInv'
<1> DEFINE q == [req[r] EXCEPT !.pc = "answer"]
           e == [by |-> r, result |-> req[r].outcome, degraded |-> req[r].degraded]
<1>1. req[r] \in Local /\ Knows(req[r], issued, revoked) /\ Decided(req[r])
  BY DEF VInv, RequestInv
<1>2. req' = [req EXCEPT ![r] = q] /\ req[r].pc = "log" /\ entries' \in {entries, entries \cup {e}}
  BY DEF Log, Step
<1>3. q \in Local
  BY <1>1, AssignPc DEF Pc
<1>4. /\ q.pc = "answer" /\ q.saved = req[r].saved /\ q.facts = req[r].facts
      /\ q.wasPublic = req[r].wasPublic /\ q.cert = req[r].cert
      /\ q.route = req[r].route /\ q.upload = req[r].upload
      /\ q.degraded = req[r].degraded /\ q.outcome = req[r].outcome
      /\ q.code = req[r].code
      /\ q.shown = req[r].shown /\ q.wasRevoked = req[r].wasRevoked
  BY <1>1 DEF Local
<1>5. e.by = r /\ e.result = q.outcome /\ e.degraded = q.degraded
  BY <1>4
<1>6. e \in [by : Request, result : Outcome, degraded : BOOLEAN]
  BY <1>1 DEF Local
<1> HIDE DEF q, e
<1>7. Knows(q, issued, revoked)
  BY <1>1, <1>2, <1>4 DEF Knows, TrueOf
<1>8. Decided(q)
  BY <1>1, <1>2, <1>4 DEF Decided, Favourable
<1>9. TrustInv' /\ RequestInv' /\ \A s \in Request \ {r} : req'[s] = req[s]
  BY <1>2, <1>3, <1>7, <1>8, RequestStep DEF Log, Step
<1>10. CacheInv'
  BY CacheStays DEF Log, Step
<1>11. req'[r] = q
  BY <1>2 DEF VInv, RequestInv
<1>12. LogInv'
  BY <1>2, <1>4, <1>5, <1>6, <1>9, <1>11 DEF VInv, LogInv, LogTellsAnswer
<1> QED
  BY <1>9, <1>10, <1>12 DEF VInv

(* The certificate is shown for a favourable outcome, with a 200. *)
LEMMA AnswerVerifyKeeps ==
  ASSUME VInv, NEW r \in Request, AnswerVerify(r)
  PROVE  VInv'
<1> DEFINE code == Code(req[r].outcome)
           shown == req[r].outcome \in Favourable
           q == [req[r] EXCEPT !.pc = "done", !.code = code, !.shown = shown]
<1>1. req[r] \in Local /\ Knows(req[r], issued, revoked) /\ Decided(req[r])
  BY DEF VInv, RequestInv
<1>2. req' = [req EXCEPT ![r] = q] /\ req[r].pc = "answer"
  BY DEF AnswerVerify, Step
<1>3. code \in Status /\ shown \in BOOLEAN
  BY DEF Code, Status
<1>4. shown => code = 200 /\ req[r].outcome \in Favourable
  BY DEF Code, Favourable
<1> HIDE DEF code, shown
<1>5. q \in Local
  BY <1>1, <1>3, AssignPc, AssignCode, AssignShown DEF Pc
<1>6. /\ q.pc = "done" /\ q.saved = req[r].saved /\ q.facts = req[r].facts
      /\ q.wasPublic = req[r].wasPublic /\ q.cert = req[r].cert
      /\ q.route = req[r].route /\ q.upload = req[r].upload
      /\ q.degraded = req[r].degraded /\ q.outcome = req[r].outcome
      /\ q.code = code /\ q.shown = shown /\ q.wasRevoked = req[r].wasRevoked
  BY <1>1 DEF Local
<1> HIDE DEF q
<1>7. Knows(q, issued, revoked)
  BY <1>1, <1>2, <1>6 DEF Knows, TrueOf
<1>8. Decided(q)
  BY <1>1, <1>2, <1>4, <1>6 DEF Decided, Favourable
<1>9. TrustInv' /\ RequestInv' /\ \A s \in Request \ {r} : req'[s] = req[s]
  BY <1>2, <1>5, <1>7, <1>8, RequestStep DEF AnswerVerify, Step
<1>10. req'[r] = q
  BY <1>2 DEF VInv, RequestInv
<1>11. CacheInv' /\ LogInv'
  BY <1>2, <1>6, <1>9, <1>10, CacheStays, LogStays DEF AnswerVerify, Step
<1> QED
  BY <1>9, <1>11 DEF VInv

(* The document only for a favourable outcome. *)
LEMMA AnswerDocumentKeeps ==
  ASSUME VInv, NEW r \in Request, AnswerDocument(r)
  PROVE  VInv'
<1>1. PICK code :
        /\ code \in Status /\ (code = 200 => req[r].outcome \in Favourable)
        /\ req' = [req EXCEPT ![r] = [@ EXCEPT !.pc = "done", !.code = code,
                                               !.shown = code = 200]]
  <2>1. PICK code \in IF req[r].outcome \in Favourable THEN {200, 403, 500, 503} ELSE {403} :
          req' = [req EXCEPT ![r] = [@ EXCEPT !.pc = "done", !.code = code,
                                                 !.shown = code = 200]]
    BY DEF AnswerDocument
  <2>2. code \in Status /\ (code = 200 => req[r].outcome \in Favourable)
    BY DEF Status
  <2> QED
    BY <2>1, <2>2
<1> DEFINE shown == code = 200
           q == [req[r] EXCEPT !.pc = "done", !.code = code, !.shown = shown]
<1>2. req[r] \in Local /\ Knows(req[r], issued, revoked) /\ Decided(req[r])
  BY DEF VInv, RequestInv
<1>3. req' = [req EXCEPT ![r] = q] /\ req[r].pc = "answer"
  BY <1>1 DEF AnswerDocument, Step
<1>4. code \in Status /\ shown \in BOOLEAN
  BY <1>1
<1>5. shown => code = 200 /\ req[r].outcome \in Favourable
  BY <1>1
<1> HIDE DEF shown
<1>6. q \in Local
  BY <1>2, <1>4, AssignPc, AssignCode, AssignShown DEF Pc
<1>7. /\ q.pc = "done" /\ q.saved = req[r].saved /\ q.facts = req[r].facts
      /\ q.wasPublic = req[r].wasPublic /\ q.cert = req[r].cert
      /\ q.route = req[r].route /\ q.upload = req[r].upload
      /\ q.degraded = req[r].degraded /\ q.outcome = req[r].outcome
      /\ q.code = code /\ q.shown = shown /\ q.wasRevoked = req[r].wasRevoked
  BY <1>2 DEF Local
<1> HIDE DEF q
<1>8. Knows(q, issued, revoked)
  BY <1>2, <1>3, <1>7 DEF Knows, TrueOf
<1>9. Decided(q)
  BY <1>2, <1>3, <1>5, <1>7 DEF Decided, Favourable
<1>10. TrustInv' /\ RequestInv' /\ \A s \in Request \ {r} : req'[s] = req[s]
  BY <1>3, <1>6, <1>8, <1>9, RequestStep DEF AnswerDocument, Step
<1>11. req'[r] = q
  BY <1>3 DEF VInv, RequestInv
<1>12. CacheInv' /\ LogInv'
  BY <1>3, <1>7, <1>10, <1>11, CacheStays, LogStays DEF AnswerDocument, Step
<1> QED
  BY <1>10, <1>12 DEF VInv

-----------------------------------------------------------------------------
LEMMA VInit == Init => VInv
<1> SUFFICES ASSUME Init PROVE VInv
  OBVIOUS
<1>1. TrustInv
  BY DEF Init, Trust!Init, TrustInv, Trust!TypeOK, Trust!CertState, NotPublic
<1>2. CacheInv
  BY DEF Init, CacheInv, TrueOf
<1>3. Idle \in Local
  BY DEF Idle, Local, Pc, Status, Outcome, Route, Upload
<1>4. Knows(Idle, issued, revoked) /\ Decided(Idle)
  BY DEF Idle, Knows, TrueOf, Decided, Favourable
<1>5. RequestInv
  BY <1>3, <1>4 DEF Init, RequestInv
<1>6. LogInv
  BY DEF Init, LogInv, LogTellsAnswer
<1> QED
  BY <1>1, <1>2, <1>5, <1>6 DEF VInv

LEMMA VStep == VInv /\ [Next]_vars => VInv'
<1> SUFFICES ASSUME VInv, [Next]_vars PROVE VInv'
  OBVIOUS
<1>1. CASE Certificate
  BY <1>1, CertificateKeeps
<1>2. CASE \E r \in Request, c \in Cert, route \in Route, upload \in Upload :
             Arrive(r, c, route, upload)
  BY <1>2, ArriveKeeps
<1>3. ASSUME NEW r \in Request, Answering(r) PROVE VInv'
  BY <1>3, LoadKeeps, LoadFailsKeeps, CheckChainKeeps, CheckFailsKeeps, CompareKeeps, LogKeeps,
     AnswerVerifyKeeps, AnswerDocumentKeeps DEF Answering
<1>4. CASE \E w \in writes : ApplyWrite(w)
  BY <1>4, ApplyWriteKeeps
<1>5. CASE UNCHANGED vars
  <2>1. UNCHANGED <<status, issued, revoked, cache, writes, req, entries>>
    BY <1>5 DEF vars
  <2>2. TrustInv' /\ CacheInv'
    BY <2>1 DEF VInv, TrustInv, Trust!TypeOK, CacheInv, TrueOf
  <2>3. RequestInv' /\ LogInv'
    BY <2>1 DEF VInv, RequestInv, LogInv, LogTellsAnswer
  <2> QED
    BY <2>2, <2>3 DEF VInv
<1> QED
  BY <1>1, <1>2, <1>3, <1>4, <1>5 DEF Next

(* The inductive invariant behind both: what was read of the chain, by a   *)
(* request or on its way to the cache, was true then and is so now.        *)
LEMMA VerificationInvariance == Spec => []VInv
<1> QED
  BY VInit, VStep, PTL DEF Spec

(* verify never calls a certificate VERIFIED that it was told is revoked,  *)
(* nor anything favourable of a copy that was edited or of a certificate   *)
(* that is not on the chain: for any number of certificates and requests.  *)
THEOREM AnswersTrue == Spec => []AnswersAreTrue
<1> QED
  BY VerificationInvariance, AnswersFollow, PTL

(* What verify shows, logs and caches is true of the certificate and the   *)
(* same as what it answers.                                                *)
THEOREM RecordsTrue == Spec => []RecordsAreTrue
<1> QED
  BY VerificationInvariance, RecordsFollow, PTL

-----------------------------------------------------------------------------
(* What the service has known of a revocation: s are the certificates that
   are settled, p those whose row is public. *)
Remembers(q, s, p) ==
  /\ q.wasPublic => q.cert \in p
  /\ q.wasKnown =>
       /\ q.cert \in s
       /\ q.pc = "check" => q.saved # Nobody /\ q.saved.isRevoked
       /\ q.pc \in {"compare", "log", "answer", "done"} /\ q.outcome # "ERROR" =>
            q.facts # Nobody /\ q.facts.isRevoked

SettledCerts == {c \in Cert : Settled(c)}
PublicCerts == {c \in Cert : status[c] \notin NotPublic \cup {"ABSENT"}}

MemoryInv ==
  /\ \A c \in Cert : cache[c] # Nobody => c \in PublicCerts
  /\ \A w \in writes : w.cert \in PublicCerts
  /\ \A r \in Request : Remembers(req[r], SettledCerts, PublicCerts)

LEMMA MemoryInit == Init => MemoryInv
BY DEF Init, MemoryInv, Remembers, Idle

(* A public row is never hidden again. *)
LEMMA PublicGrows ==
  ASSUME VInv, [Next]_vars
  PROVE  PublicCerts \subseteq PublicCerts'
<1>1. CASE Trust!Next
  <2>1. ASSUME NEW c \in Cert, NEW to \in Trust!CertState, Trust!Advance(c, to)
        PROVE  PublicCerts \subseteq PublicCerts'
    BY <2>1 DEF PublicCerts, Trust!Advance, Trust!LegalEdge, NotPublic, VInv, TrustInv,
       Trust!TypeOK
  <2>2. ASSUME NEW c \in Cert, Trust!Create(c)
        PROVE  PublicCerts \subseteq PublicCerts'
    BY <2>2 DEF PublicCerts, Trust!Create, VInv, TrustInv, Trust!TypeOK
  <2>3. ASSUME NEW c \in Cert, Trust!Anchor(c) \/ Trust!Revoke(c)
        PROVE  PublicCerts \subseteq PublicCerts'
    BY <2>3 DEF PublicCerts, Trust!Anchor, Trust!Revoke
  <2> QED
    BY <1>1, <2>1, <2>2, <2>3 DEF Trust!Next
<1>2. CASE UNCHANGED status
  BY <1>2 DEF PublicCerts
<1>3. Trust!Next \/ UNCHANGED status
  BY DEF Next, vars, Certificate, Arrive, Answering, Load, LoadFails, CheckChain,
     CheckFails, Compare, Log, AnswerVerify, AnswerDocument, ApplyWrite, Step, trustVars
<1> QED
  BY <1>1, <1>2, <1>3

(* What is settled was revoked, and what is written after says so too. *)
LEMMA SettledGrows ==
  ASSUME VInv, [Next]_vars
  PROVE  SettledCerts \subseteq SettledCerts'
<1>1. CASE UNCHANGED <<cache, writes>>
  BY <1>1 DEF SettledCerts, Settled
<1>2. ASSUME NEW r \in Request, CheckChain(r)
      PROVE  SettledCerts \subseteq SettledCerts'
  <2> SUFFICES ASSUME NEW c \in Cert, Settled(c) PROVE Settled(c)'
    BY DEF SettledCerts
  <2>1. c \in revoked
    BY DEF Settled, VInv, CacheInv, TrueOf
  <2> DEFINE facts == [isIssued |-> req[r].cert \in issued,
                       isRevoked |-> req[r].cert \in revoked]
             w == [by |-> r, cert |-> req[r].cert, facts |-> facts]
  <2>2. writes' = writes \cup {w} /\ cache' = cache
    BY <1>2 DEF CheckChain
  <2>3. w.cert = c => w.facts.isRevoked
    BY <2>1
  <2> HIDE DEF w
  <2> QED
    BY <2>2, <2>3 DEF Settled
<1>3. ASSUME NEW w \in writes, ApplyWrite(w)
      PROVE  SettledCerts \subseteq SettledCerts'
  <2> SUFFICES ASSUME NEW c \in Cert, Settled(c) PROVE Settled(c)'
    BY DEF SettledCerts
  <2>1. w.cert \in Cert /\ w.facts # Nobody
    BY VerificationAssumption DEF VInv, CacheInv, Write
  <2>2. cache'[c] # Nobody /\ cache'[c].isRevoked
    BY <1>3, <2>1 DEF Settled, ApplyWrite, VInv, CacheInv
  <2> QED
    BY <1>3, <2>2 DEF Settled, ApplyWrite
<1>4. \/ UNCHANGED <<cache, writes>>
      \/ \E r \in Request : CheckChain(r)
      \/ \E w \in writes : ApplyWrite(w)
  BY DEF Next, vars, Certificate, Arrive, Answering, Load, LoadFails, CheckFails, Compare,
     Log, AnswerVerify, AnswerDocument
<1> QED
  BY <1>1, <1>2, <1>3, <1>4

LEMMA RemembersStays ==
  ASSUME NEW q, NEW s, NEW p, NEW s2, NEW p2, s \subseteq s2, p \subseteq p2,
         Remembers(q, s, p)
  PROVE  Remembers(q, s2, p2)
BY DEF Remembers

(* One request's step, beside the cache. *)
LEMMA RequestRemembers ==
  ASSUME VInv, MemoryInv, NEW r \in Request,
         \/ \E c \in Cert, route \in Route, upload \in Upload : Arrive(r, c, route, upload)
         \/ Answering(r)
  PROVE  Remembers(req'[r], SettledCerts, PublicCerts)
<1> DEFINE p == req[r]
           q == req'[r]
           OK == Remembers(q, SettledCerts, PublicCerts)
<1>1. p \in Local /\ Knows(p, issued, revoked) /\ req \in [Request -> Local]
  BY DEF VInv, RequestInv
<1>2. Remembers(p, SettledCerts, PublicCerts)
  BY DEF MemoryInv
<1>3. ASSUME NEW c \in Cert, NEW route \in Route, NEW upload \in Upload,
             Arrive(r, c, route, upload)
      PROVE  OK
  <2>1. q.cert = c /\ ~q.wasPublic /\ q.pc = "load" /\ (q.wasKnown => Settled(c))
    BY <1>1, <1>3 DEF Arrive, Idle
  <2> QED
    BY <2>1 DEF Remembers, SettledCerts
<1>4. CASE Load(r)
  <2> DEFINE public == status[p.cert] \notin NotPublic \cup {"ABSENT"}
  <2>1. /\ q.cert = p.cert /\ q.wasKnown = p.wasKnown /\ q.wasPublic = public
        /\ q.pc = (IF public THEN "check" ELSE "log")
        /\ public => q.saved = cache[p.cert]
    BY <1>1, <1>4 DEF Load, Local
  <2>2. p.cert \in Cert
    BY <1>1, <1>4 DEF Knows, Load, Step
  <2>3. p.wasKnown => Settled(p.cert) /\ public
    BY <1>2, <2>2 DEF Remembers, SettledCerts, Settled, MemoryInv, PublicCerts
  <2> QED
    BY <2>1, <2>2, <2>3 DEF Remembers, SettledCerts, Settled, PublicCerts
<1>5. CASE LoadFails(r)
  <2>1. /\ q.cert = p.cert /\ q.wasKnown = p.wasKnown /\ q.wasPublic = p.wasPublic
        /\ q.pc = "done" /\ q.outcome = "ERROR"
    BY <1>1, <1>5 DEF LoadFails, Local
  <2> QED
    BY <1>2, <2>1 DEF Remembers
<1>6. CASE CheckChain(r)
  <2>1. /\ q.cert = p.cert /\ q.wasKnown = p.wasKnown /\ q.wasPublic = p.wasPublic
        /\ q.pc = "compare"
        /\ q.facts = [isIssued |-> p.cert \in issued, isRevoked |-> p.cert \in revoked]
    BY <1>1, <1>6 DEF CheckChain, Local
  <2>2. q.facts # Nobody /\ q.facts.isRevoked = (p.cert \in revoked)
    <3>1. (p.cert \in issued) \in BOOLEAN /\ (p.cert \in revoked) \in BOOLEAN
      OBVIOUS
    <3>2. q.facts \in Facts
      BY <2>1, <3>1 DEF Facts
    <3> QED
      BY <2>1, <3>2, VerificationAssumption
  <2>3. p.wasKnown => p.cert \in revoked
    BY <1>2 DEF Remembers, SettledCerts, Settled, VInv, CacheInv, TrueOf
  <2> QED
    BY <1>2, <2>1, <2>2, <2>3 DEF Remembers
<1>7. CASE CheckFails(r)
  <2>1. /\ q.cert = p.cert /\ q.wasKnown = p.wasKnown /\ q.wasPublic = p.wasPublic
        /\ q.pc # "check" /\ q.facts = p.saved /\ p.pc = "check"
    BY <1>1, <1>7 DEF CheckFails, Step, Local
  <2> QED
    BY <1>2, <2>1 DEF Remembers
<1>8. CASE Compare(r) \/ Log(r) \/ AnswerVerify(r) \/ AnswerDocument(r)
  <2>1. /\ q.cert = p.cert /\ q.wasKnown = p.wasKnown /\ q.wasPublic = p.wasPublic
        /\ q.pc # "check" /\ q.facts = p.facts
        /\ p.pc \in {"compare", "log", "answer"}
        /\ p.pc # "compare" => q.outcome = p.outcome
    <3>1. CASE Compare(r)
      BY <1>1, <3>1 DEF Compare, Step, Local
    <3>2. CASE Log(r)
      BY <1>1, <3>2 DEF Log, Step, Local
    <3>3. CASE AnswerVerify(r)
      BY <1>1, <3>3 DEF AnswerVerify, Step, Local
    <3>4. CASE AnswerDocument(r)
      BY <1>1, <3>4 DEF AnswerDocument, Step, Local
    <3> QED
      BY <1>8, <3>1, <3>2, <3>3, <3>4
  <2>2. p.pc = "compare" => p.outcome # "ERROR"
    BY DEF VInv, RequestInv, Decided
  <2> QED
    BY <1>2, <2>1, <2>2 DEF Remembers
<1> QED
  BY <1>3, <1>4, <1>5, <1>6, <1>7, <1>8 DEF Answering

(* A request touches no other. *)
LEMMA OthersStay ==
  ASSUME NEW u \in Request, NEW r \in Request, r # u, VInv,
         \/ \E c \in Cert, route \in Route, upload \in Upload : Arrive(u, c, route, upload)
         \/ Answering(u)
  PROVE  req'[r] = req[r]
<1>1. req \in [Request -> Local]
  BY DEF VInv, RequestInv
<1>2. \E q : req' = [req EXCEPT ![u] = q]
  <2>1. CASE \E c \in Cert, route \in Route, upload \in Upload : Arrive(u, c, route, upload)
    BY <2>1 DEF Arrive
  <2>2. CASE Load(u) \/ LoadFails(u)
    BY <2>2 DEF Load, LoadFails
  <2>3. CASE CheckChain(u) \/ CheckFails(u)
    BY <2>3 DEF CheckChain, CheckFails
  <2>4. CASE Compare(u) \/ Log(u)
    BY <2>4 DEF Compare, Log
  <2>5. CASE AnswerVerify(u)
    BY <2>5 DEF AnswerVerify
  <2>6. CASE AnswerDocument(u)
    <3>1. PICK code : req' = [req EXCEPT ![u] = [@ EXCEPT !.pc = "done", !.code = code,
                                                         !.shown = code = 200]]
      BY <2>6 DEF AnswerDocument
    <3> QED
      BY <3>1
  <2> QED
    BY <2>1, <2>2, <2>3, <2>4, <2>5, <2>6 DEF Answering
<1> QED
  BY <1>1, <1>2

LEMMA MemoryStep == VInv /\ MemoryInv /\ [Next]_vars => MemoryInv'
<1> SUFFICES ASSUME VInv, MemoryInv, [Next]_vars PROVE MemoryInv'
  OBVIOUS
<1>1. PublicCerts \subseteq PublicCerts' /\ SettledCerts \subseteq SettledCerts'
  BY PublicGrows, SettledGrows
<1>2. /\ \A c \in Cert : cache'[c] # Nobody => c \in PublicCerts
      /\ \A w \in writes' : w.cert \in PublicCerts
  <2>1. CASE UNCHANGED <<cache, writes>>
    BY <2>1 DEF MemoryInv
  <2>2. ASSUME NEW r \in Request, CheckChain(r) PROVE <1>2
    <3>1. req[r].cert \in PublicCerts
      BY <2>2 DEF MemoryInv, Remembers, VInv, RequestInv, Knows, CheckChain, Step
    <3> QED
      BY <2>2, <3>1 DEF MemoryInv, CheckChain
  <2>3. ASSUME NEW w \in writes, ApplyWrite(w) PROVE <1>2
    BY <2>3 DEF MemoryInv, ApplyWrite, VInv, CacheInv
  <2>4. \/ UNCHANGED <<cache, writes>>
        \/ \E r \in Request : CheckChain(r)
        \/ \E w \in writes : ApplyWrite(w)
    BY DEF Next, vars, Certificate, Arrive, Answering, Load, LoadFails, CheckFails, Compare,
       Log, AnswerVerify, AnswerDocument
  <2> QED
    BY <2>1, <2>2, <2>3, <2>4
<1>3. ASSUME NEW r \in Request PROVE Remembers(req'[r], SettledCerts, PublicCerts)
  <2>1. CASE req'[r] = req[r]
    BY <2>1 DEF MemoryInv
  <2>2. CASE \/ \E c \in Cert, route \in Route, upload \in Upload : Arrive(r, c, route, upload)
             \/ Answering(r)
    BY <2>2, RequestRemembers
  <2>3. ASSUME NEW u \in Request, u # r,
               \/ \E c \in Cert, route \in Route, upload \in Upload : Arrive(u, c, route, upload)
               \/ Answering(u)
        PROVE  req'[r] = req[r]
    BY <2>3, OthersStay
  <2> QED
    BY <2>1, <2>2, <2>3 DEF Next, vars, Certificate, ApplyWrite
<1>4. ASSUME NEW r \in Request PROVE Remembers(req'[r], SettledCerts', PublicCerts')
  BY <1>1, <1>3, RemembersStays
<1> QED
  BY <1>1, <1>2, <1>4 DEF MemoryInv

(* Once the cache holds a revocation and nothing older is on its way to    *)
(* it, no later answer of verify, degraded or not, is without it.          *)
THEOREM RevocationsRemembered == Spec => []RevocationIsRemembered
<1>1. VInv /\ MemoryInv => RevocationIsRemembered
  <2> SUFFICES ASSUME VInv, MemoryInv, NEW r \in Request,
                      Done(r), req[r].wasKnown, req[r].outcome # "ERROR"
               PROVE  req[r].outcome \in {"REVOKED", "TAMPERED"}
    BY DEF RevocationIsRemembered
  <2>1. req[r].facts # Nobody /\ req[r].facts.isRevoked
    BY DEF MemoryInv, Remembers, Done
  <2>2. req[r].outcome \in Outcome
    BY DEF VInv, RequestInv, Local
  <2> QED
    BY <2>1, <2>2 DEF VInv, RequestInv, Decided, Done, Outcome
<1> QED
  BY <1>1, VerificationInvariance, MemoryInit, MemoryStep, PTL DEF Spec

(* Verification only reads: the certificates live as CertificateTrust says.*)
THEOREM TrustGoesOn == Spec => Trust!Spec
<1>1. Init => Trust!Init
  BY DEF Init
<1>2. [Next]_vars => [Trust!Next]_Trust!vars
  BY DEF Next, vars, Certificate, Arrive, Answering, Load, LoadFails, CheckChain, CheckFails, Compare,
     Log, AnswerVerify, AnswerDocument, ApplyWrite, Step, trustVars, Trust!vars
<1> QED
  BY <1>1, <1>2, PTL DEF Spec, Trust!Spec

-----------------------------------------------------------------------------
(* The pages of one tab. *)
USE VerifyPagesAssumption

(* What an entry of the history can be, what the requests and the camera are. *)
Entry == [page : {"entry"}, scan : BOOLEAN, number : {None}, file : {None}]
         \cup [page : {"outcome"}, scan : {FALSE}, number : Number,
               file : File \cup {None}]
Filming == [mounted : BOOLEAN, ref : BOOLEAN, unavailable : BOOLEAN, clicked : BOOLEAN,
            prompts : Nat, orphans : Nat, lost : 0..MaxAsked, cut : BOOLEAN]
HistoryOK ==
  /\ history \in [entries : Seq(Entry), pos : Nat]
  /\ history.pos \in 1..Len(history.entries) /\ Len(history.entries) <= MaxEntries
AsksOK ==
  /\ asks \subseteq Ask /\ IsFiniteSet(asks) /\ Cardinality(asks) <= MaxAsked
  /\ outcome \in [run : Ask \cup {NoAsk}, result : Ask \cup {NoAsk},
                  error : BOOLEAN, loading : BOOLEAN, raced : BOOLEAN]
CameraOK ==
  /\ camera \in Filming /\ camera.prompts + camera.orphans <= MaxAsked
  /\ entry \in [tab : Tab, file : File \cup {None}]
  /\ hidden \in BOOLEAN

(* The outcome page: while it loads a request is on its way, and unless a
   request of another entry overlaps, all of them are the page's own. *)
Asked(e) ==
  e.page = "outcome" =>
    /\ outcome.run \in Ask
    /\ outcome.loading => asks # {}
    /\ outcome.loading \/ outcome.error \/ outcome.result \in Ask
    /\ ~outcome.raced =>
         /\ outcome.run = Asks(e.number, e.file)
         /\ asks \subseteq {outcome.run}
         /\ outcome.loading \/ outcome.result \in {NoAsk, outcome.run}

(* The camera: what it does belongs to a mounted scanner, and one that was
   not cut short asks once at a time, and not while it runs or is hidden. *)
Steady(c, unseen) ==
  /\ c.ref \/ c.prompts > 0 => c.mounted
  /\ ~c.cut => /\ c.orphans = 0 /\ c.lost = 0 /\ c.prompts <= 1
               /\ c.prompts = 1 => ~c.ref
               /\ c.ref \/ c.prompts = 1 => ~unseen
Opened(e) ==
  /\ camera.mounted <=> ScannerOn(e, entry.tab)
  /\ e.page = "entry" /\ e.scan => entry.tab = "scan"

TabInv == /\ HistoryOK /\ AsksOK /\ CameraOK
          /\ Asked(Here) /\ Opened(Here) /\ Steady(camera, hidden)

LEMMA TabPromise == TabInv => OutcomeIsHonest /\ CameraStops
<1> SUFFICES ASSUME TabInv PROVE OutcomeIsHonest /\ CameraStops
  OBVIOUS
<1> USE DEF TabInv
<1>1. TabTypeOK
  BY VerifyPagesAssumption
  DEF TabTypeOK, HistoryOK, AsksOK, CameraOK, Filming
<1>2. NoAsk \notin Ask
  BY VerifyPagesAssumption DEF NoAsk, Ask
<1>3. ShownIsAsked
  BY <1>2 DEF ShownIsAsked, Asked, Asks, Panel
<1>4. NeverBlank
  BY <1>2 DEF NeverBlank, Asked, Panel
<1>5. CameraStops
  BY DEF CameraStops, Opened, Steady, CameraOK, Filming
<1> QED
  BY <1>1, <1>3, <1>4, <1>5 DEF OutcomeIsHonest

LEMMA HereIsEntry == HistoryOK => Here \in Entry
  BY DEF HistoryOK, Here

LEMMA EntriesAre ==
  /\ \A scan \in BOOLEAN : EntryAt(scan) \in Entry
  /\ \A n \in Number, f \in File \cup {None} : OutcomeOf(n, f) \in Entry
  BY DEF EntryAt, OutcomeOf, Entry

LEMMA EntryFields ==
  ASSUME NEW e \in Entry
  PROVE  /\ e.page \in {"entry", "outcome"} /\ e.scan \in BOOLEAN
         /\ e.page = "outcome" => e.number \in Number /\ e.file \in File \cup {None}
  BY DEF Entry

LEMMA TabInitially == TabInit => TabInv
<1> SUFFICES ASSUME TabInit PROVE TabInv
  OBVIOUS
<1> USE VerifyPagesAssumption DEF TabInit
<1>1. EntryAt(FALSE) \in Entry /\ Here = EntryAt(FALSE)
  BY EntriesAre DEF Here
<1>2. HistoryOK
  <2> DEFINE first == EntryAt(FALSE)
  <2>1. history = [entries |-> <<first>>, pos |-> 1] /\ first \in Entry
    BY <1>1
  <2> HIDE DEF first
  <2>2. Len(<<first>>) = 1 /\ <<first>> \in Seq(Entry) /\ 1 <= MaxEntries
    BY <2>1
  <2> QED
    BY ONLY <2>1, <2>2 DEF HistoryOK
<1>3. AsksOK
  <2>1. asks \subseteq Ask /\ IsFiniteSet(asks) /\ Cardinality(asks) <= MaxAsked
    BY FS_EmptySet
  <2>2. NoOutcome \in [run : Ask \cup {NoAsk}, result : Ask \cup {NoAsk},
                       error : BOOLEAN, loading : BOOLEAN, raced : BOOLEAN]
    BY DEF NoOutcome
  <2> QED
    BY <2>1, <2>2 DEF AsksOK
<1>4. CameraOK /\ Steady(camera, hidden)
  <2>1. NoCamera \in Filming
    BY DEF NoCamera, Filming
  <2>2. NoEntry \in [tab : Tab, file : File \cup {None}]
    BY DEF NoEntry, Tab
  <2>3. NoCamera.prompts = 0 /\ NoCamera.orphans = 0 /\ NoCamera.lost = 0 /\ ~NoCamera.ref
    BY DEF NoCamera
  <2>4. /\ camera \in Filming /\ camera.prompts + camera.orphans <= MaxAsked
        /\ camera.prompts = 0 /\ camera.orphans = 0 /\ camera.lost = 0 /\ ~camera.ref
        /\ entry \in [tab : Tab, file : File \cup {None}] /\ hidden = FALSE
    BY <2>1, <2>2, <2>3
  <2>5. CameraOK
    BY ONLY <2>4 DEF CameraOK
  <2>6. Steady(camera, hidden)
    BY ONLY <2>4 DEF Steady
  <2> QED
    BY <2>5, <2>6
<1>5. Asked(Here) /\ Opened(Here)
  BY <1>1 DEF Asked, Opened, ScannerOn, EntryAt, NoCamera
<1> QED
  BY <1>2, <1>3, <1>4, <1>5 DEF TabInv

-----------------------------------------------------------------------------
LEMMA MountsIs ==
  ASSUME NEW c \in Filming, NEW click \in BOOLEAN
  PROVE  LET m == Mounts(c, click) IN
         /\ m \in Filming /\ m.mounted /\ m.prompts = c.prompts + 1
         /\ m.cut = (c.cut \/ c.prompts > 0)
         /\ m.ref = c.ref /\ m.orphans = c.orphans /\ m.lost = c.lost
<1> DEFINE asking == c.cut \/ c.prompts > 0
<1>1. asking \in BOOLEAN /\ c.prompts + 1 \in Nat
  BY DEF Filming
<1>2. Mounts(c, click) = [c EXCEPT !.mounted = TRUE, !.clicked = click, !.unavailable = FALSE,
                                   !.prompts = c.prompts + 1, !.cut = asking]
  BY DEF Mounts, startStream, Filming
<1> HIDE DEF asking
<1>3. LET m == Mounts(c, click) IN
      /\ m \in Filming /\ m.mounted /\ m.prompts = c.prompts + 1 /\ m.cut = asking
      /\ m.ref = c.ref /\ m.orphans = c.orphans /\ m.lost = c.lost
  BY <1>1, <1>2 DEF Filming
<1> QED
  BY <1>3 DEF asking

(* The scanner opens and closes with its entry and tab, in a visible tab. *)
LEMMA FollowsKeeps ==
  ASSUME CameraOK, Steady(camera, hidden), ~hidden,
         NEW e, NEW tab, NEW click \in BOOLEAN, Follows(e, tab, click)
  PROVE  /\ camera' \in Filming /\ camera'.prompts + camera'.orphans <= MaxAsked
         /\ Steady(camera', FALSE)
         /\ camera'.mounted <=> ScannerOn(e, tab)
<1> DEFINE asking == camera.cut \/ camera.prompts > 0
<1>1. /\ camera \in Filming /\ asking \in BOOLEAN
      /\ camera.prompts + 1 \in Nat /\ camera.orphans + camera.prompts \in Nat
  BY DEF CameraOK, Filming
<1>2. CASE ScannerOn(e, tab) /\ ~camera.mounted
  <2>1. camera' = Mounts(camera, click)
    BY <1>2 DEF Follows
  <2>2. camera' \in Filming
    BY <2>1, <1>1, MountsIs
  <2>3. /\ camera'.mounted /\ camera'.prompts = camera.prompts + 1 /\ camera'.cut = asking
        /\ camera'.ref = camera.ref /\ camera'.orphans = camera.orphans
        /\ camera'.lost = camera.lost
    BY <2>1, <1>1, MountsIs
  <2>4. Steady(camera', FALSE)
    BY <2>3, <1>1, <1>2 DEF Steady, asking, Filming
  <2> QED
    BY <1>2, <2>2, <2>3, <2>4 DEF Follows
<1>3. CASE ~ScannerOn(e, tab) /\ camera.mounted
  <2>1. camera' = [camera EXCEPT !.ref = FALSE, !.mounted = FALSE, !.unavailable = FALSE,
                                 !.prompts = 0, !.orphans = camera.orphans + camera.prompts,
                                 !.cut = asking]
    BY <1>3, <1>1 DEF Follows, Unmounts, stopStream, Filming
  <2> HIDE DEF asking
  <2>2. camera' \in Filming
    BY <2>1, <1>1 DEF Filming
  <2>3. /\ ~camera'.mounted /\ camera'.prompts = 0 /\ camera'.cut = asking
        /\ ~camera'.ref /\ camera'.orphans = camera.orphans + camera.prompts
        /\ camera'.lost = camera.lost
    BY <2>1, <1>1 DEF Filming
  <2>4. Steady(camera', FALSE)
    BY <2>3, <1>1, <1>3 DEF Steady, asking, Filming
  <2> QED
    BY <1>3, <2>2, <2>3, <2>4 DEF Follows
<1>4. CASE ScannerOn(e, tab) <=> camera.mounted
  <2>1. camera' = camera
    BY <1>4 DEF Follows
  <2> QED
    BY <1>4, <2>1, <1>1 DEF Follows, Steady, CameraOK
<1> QED
  BY <1>2, <1>3, <1>4

(* A request that is sent. *)
LEMMA OneMore ==
  ASSUME AsksOK, NEW k \in Ask, Cardinality(asks) < MaxAsked
  PROVE  /\ asks \cup {k} \subseteq Ask /\ IsFiniteSet(asks \cup {k})
         /\ Cardinality(asks \cup {k}) <= MaxAsked
<1>1. IsFiniteSet(asks \cup {k}) /\ Cardinality(asks) \in Nat
  BY FS_AddElement, FS_CardinalityType DEF AsksOK
<1>2. Cardinality(asks \cup {k}) <= Cardinality(asks) + 1
  BY FS_AddElement, <1>1 DEF AsksOK
<1>3. Cardinality(asks \cup {k}) \in Nat
  BY <1>1, FS_CardinalityType
<1> QED
  BY <1>1, <1>2, <1>3, VerifyPagesAssumption DEF AsksOK

LEMMA JustOne ==
  ASSUME NEW k \in Ask
  PROVE  {k} \subseteq Ask /\ IsFiniteSet({k}) /\ Cardinality({k}) <= MaxAsked
  BY FS_Singleton, VerifyPagesAssumption

(* The router shows another entry. *)
LEMMA ShowsKeeps ==
  ASSUME TabInv, NEW e \in Entry, NEW click \in BOOLEAN, ~hidden, UNCHANGED hidden,
         Shows(e, click), HistoryOK', Here' = e
  PROVE  TabInv'
<1> USE DEF TabInv
<1>1. Here \in Entry
  BY HereIsEntry
<1>2. Here.page \in {"entry", "outcome"} /\ e.page \in {"entry", "outcome"}
      /\ Here.scan \in BOOLEAN /\ e.scan \in BOOLEAN
  BY <1>1, EntryFields
<1>3. entry \in [tab : Tab, file : File \cup {None}]
  BY DEF CameraOK
<1>4. CASE e.page = "entry"
  <2> DEFINE tab == IF Here.page = "outcome" \/ (e.scan /\ ~Here.scan)
                      THEN "scan" ELSE entry.tab
  <2>1. /\ entry' = [tab |-> tab, file |-> IF Here.page = "entry" THEN entry.file ELSE None]
        /\ Follows(e, tab, click) /\ outcome' = NoOutcome /\ asks' = {}
    BY <1>4 DEF Shows
  <2>2. entry' \in [tab : Tab, file : File \cup {None}] /\ entry'.tab = tab
    BY <2>1, <1>3 DEF Tab
  <2>3. e.scan => tab = "scan"
    BY <1>2 DEF Opened
  <2> HIDE DEF tab
  <2>4. /\ camera' \in Filming /\ camera'.prompts + camera'.orphans <= MaxAsked
        /\ Steady(camera', FALSE) /\ (camera'.mounted <=> ScannerOn(e, tab))
    BY <2>1, FollowsKeeps
  <2>5. AsksOK'
    BY <2>1, FS_EmptySet, VerifyPagesAssumption DEF AsksOK, NoOutcome
  <2>6. CameraOK' /\ Steady(camera', hidden')
    BY <2>2, <2>4 DEF CameraOK
  <2>7. Asked(Here)' /\ Opened(Here)'
    BY <1>4, <2>2, <2>3, <2>4 DEF Asked, Opened
  <2> QED
    BY <2>5, <2>6, <2>7
<1>5. CASE e.page = "outcome"
  <2>1. entry' = NoEntry /\ Follows(e, "scan", click)
    BY <1>5 DEF Shows
  <2>2. /\ camera' \in Filming /\ camera'.prompts + camera'.orphans <= MaxAsked
        /\ Steady(camera', FALSE) /\ (camera'.mounted <=> ScannerOn(e, "scan"))
    BY <2>1, FollowsKeeps
  <2>3. CameraOK' /\ Steady(camera', hidden') /\ Opened(Here)'
    BY <1>5, <2>1, <2>2 DEF CameraOK, Opened, NoEntry, Tab, ScannerOn
  <2>4. Asks(e.number, e.file) \in Ask
    BY <1>5, EntryFields DEF Asks, Ask
  <2>5. CASE Here.page = "outcome" /\ Here.number = e.number
    <3>1. outcome' = [outcome EXCEPT !.raced = @ \/ e # Here] /\ UNCHANGED asks
      BY <1>5, <2>5 DEF Shows
    <3>2. AsksOK'
      BY <3>1 DEF AsksOK
    <3>3. Asked(Here)'
      BY <3>1, <2>5 DEF Asked, AsksOK
    <3> QED
      BY <2>3, <3>2, <3>3
  <2>6. CASE ~(Here.page = "outcome" /\ Here.number = e.number) /\ Here.page = "entry"
    <3>1. /\ outcome' = [runVerify(NoOutcome, Asks(e.number, e.file)) EXCEPT !.raced = FALSE]
          /\ asks' = {Asks(e.number, e.file)}
      BY <1>5, <2>6 DEF Shows
    <3>2. AsksOK'
      BY <3>1, <2>4, JustOne DEF AsksOK, runVerify, NoOutcome
    <3>3. Asked(Here)'
      BY <1>5, <3>1, <2>4 DEF Asked, runVerify, NoOutcome
    <3> QED
      BY <2>3, <3>2, <3>3
  <2>7. CASE Here.page = "outcome" /\ Here.number # e.number
    <3>1. /\ Cardinality(asks) < MaxAsked
          /\ outcome' = [runVerify(outcome, Asks(e.number, e.file)) EXCEPT !.raced = asks # {}]
          /\ asks' = asks \cup {Asks(e.number, e.file)}
      BY <1>5, <2>7 DEF Shows
    <3>2. AsksOK'
      BY <3>1, <2>4, OneMore DEF AsksOK, runVerify
    <3>3. Asked(Here)'
      BY <1>5, <3>1, <2>4 DEF Asked, AsksOK, runVerify
    <3> QED
      BY <2>3, <3>2, <3>3
  <2> QED
    BY <1>2, <2>5, <2>6, <2>7
<1> QED
  BY <1>2, <1>4, <1>5

LEMMA PushesKeeps ==
  ASSUME TabInv, NEW e \in Entry, NEW click \in BOOLEAN, Pushes(e, click)
  PROVE  TabInv'
<1>1. HistoryOK /\ ~hidden /\ history.pos < MaxEntries
  BY DEF TabInv, Pushes
<1> DEFINE kept == SubSeq(history.entries, 1, history.pos)
<1>2. kept \in Seq(Entry) /\ Len(kept) = history.pos
  BY <1>1 DEF HistoryOK
<1>3. history' = [entries |-> Append(kept, e), pos |-> history.pos + 1]
  BY DEF Pushes
<1> HIDE DEF kept
<1>4. HistoryOK'
  BY <1>1, <1>2, <1>3, VerifyPagesAssumption DEF HistoryOK
<1>5. Here' = e
  BY <1>1, <1>2, <1>3 DEF Here, HistoryOK
<1> QED
  BY <1>1, <1>4, <1>5, ShowsKeeps DEF Pushes

LEMMA ReplacedEntry ==
  ASSUME HistoryOK, NEW e \in Entry,
         history' = [history EXCEPT !.entries[history.pos] = e]
  PROVE  HistoryOK' /\ Here' = e
<1>1. /\ history \in [entries : Seq(Entry), pos : Nat]
      /\ history.pos \in 1..Len(history.entries) /\ Len(history.entries) <= MaxEntries
  BY DEF HistoryOK
<1>2. /\ history' = [history EXCEPT !.entries = [history.entries EXCEPT ![history.pos] = e]]
      /\ history'.entries = [history.entries EXCEPT ![history.pos] = e]
      /\ history'.pos = history.pos
  BY <1>1
<1>3. /\ history'.entries \in Seq(Entry) /\ Len(history'.entries) = Len(history.entries)
      /\ history'.entries[history.pos] = e
  BY <1>1, <1>2
<1>4. history' \in [entries : Seq(Entry), pos : Nat]
  BY <1>1, <1>2, <1>3
<1> QED
  BY <1>1, <1>2, <1>3, <1>4 DEF HistoryOK, Here

(* An entry of the entry page is replaced by one without ?scan=1. *)
LEMMA ReplacesKeeps ==
  ASSUME TabInv, NEW e \in Entry, Replaces(e), OnEntry, e.page = "entry",
         NEW tab \in Tab, entry' \in [tab : Tab, file : File \cup {None}],
         entry'.tab = tab, e.scan => tab = "scan", Follows(e, tab, FALSE)
  PROVE  TabInv'
<1> USE DEF TabInv
<1>1. /\ history' = [history EXCEPT !.entries[history.pos] = e]
      /\ UNCHANGED <<outcome, asks, hidden>> /\ ~hidden
  BY DEF Replaces, OnEntry
<1>2. HistoryOK' /\ Here' = e
  BY <1>1, ReplacedEntry
<1>3. /\ camera' \in Filming /\ camera'.prompts + camera'.orphans <= MaxAsked
      /\ Steady(camera', FALSE) /\ (camera'.mounted <=> ScannerOn(e, tab))
  BY <1>1, FollowsKeeps
<1>4. CameraOK' /\ Steady(camera', hidden')
  BY <1>1, <1>3 DEF CameraOK
<1>5. Asked(Here)' /\ Opened(Here)'
  BY <1>2, <1>3 DEF Asked, Opened
<1>6. AsksOK'
  BY <1>1 DEF AsksOK
<1> QED
  BY <1>2, <1>4, <1>5, <1>6

-----------------------------------------------------------------------------
(* One lemma per action, or per few that do the same. *)
LEMMA JumpsKeeps == ASSUME TabInv, Jumps PROVE TabInv'
<1>1. PICK p \in 1..Len(history.entries) \ {history.pos} :
         /\ history' = [history EXCEPT !.pos = p]
         /\ Shows(history.entries[p], FALSE)
  BY DEF Jumps
<1>2. HistoryOK /\ ~hidden /\ UNCHANGED hidden
  BY DEF TabInv, Jumps
<1>3. history.entries[p] \in Entry /\ HistoryOK' /\ Here' = history.entries[p]
  BY <1>1, <1>2 DEF HistoryOK, Here
<1> QED
  BY <1>1, <1>2, <1>3, ShowsKeeps

LEMMA ReloadsKeeps == ASSUME TabInv, Reloads PROVE TabInv'
<1> USE DEF TabInv
<1>1. PICK f \in {Here.file, None} :
         LET e == [Here EXCEPT !.file = f] IN
         /\ history' = [history EXCEPT !.entries[history.pos] = e]
         /\ entry' = NoEntry
         /\ camera' = IF ScannerOn(e, "scan") THEN Mounts(NoCamera, FALSE) ELSE NoCamera
         /\ outcome' = IF e.page = "entry" THEN NoOutcome
                       ELSE runVerify(NoOutcome, Asks(e.number, e.file))
         /\ asks' = IF e.page = "entry" THEN {} ELSE {Asks(e.number, e.file)}
  BY DEF Reloads
<1>2. Here \in Entry
  BY HereIsEntry
<1>3. PICK e \in Entry : e = [Here EXCEPT !.file = f]
  BY <1>2 DEF Entry
<1>4. ~hidden /\ hidden' = hidden
  BY DEF Reloads
<1>5. /\ history' = [history EXCEPT !.entries[history.pos] = e]
      /\ entry' = NoEntry
      /\ camera' = IF ScannerOn(e, "scan") THEN Mounts(NoCamera, FALSE) ELSE NoCamera
      /\ outcome' = IF e.page = "entry" THEN NoOutcome
                    ELSE runVerify(NoOutcome, Asks(e.number, e.file))
      /\ asks' = IF e.page = "entry" THEN {} ELSE {Asks(e.number, e.file)}
  BY <1>1, <1>3
<1>6. HistoryOK' /\ Here' = e
  <2>1. history' = [history EXCEPT !.entries[history.pos] = e]
    BY <1>5
  <2> QED
    BY <2>1, ReplacedEntry
<1>7. NoCamera \in Filming
  BY DEF NoCamera, Filming
<1>8. /\ camera' \in Filming /\ camera'.prompts <= 1 /\ camera'.orphans = 0
      /\ camera'.lost = 0 /\ ~camera'.ref
      /\ camera'.mounted <=> ScannerOn(e, "scan")
      /\ camera'.prompts > 0 => camera'.mounted
  <2>1. CASE ScannerOn(e, "scan")
    <3>1. camera' = Mounts(NoCamera, FALSE)
      BY <1>5, <2>1
    <3>2. NoCamera.prompts = 0 /\ NoCamera.orphans = 0 /\ NoCamera.lost = 0 /\ ~NoCamera.ref
      BY DEF NoCamera
    <3>3. /\ camera' \in Filming /\ camera'.mounted /\ camera'.prompts = NoCamera.prompts + 1
          /\ camera'.ref = NoCamera.ref /\ camera'.orphans = NoCamera.orphans
          /\ camera'.lost = NoCamera.lost
      BY <3>1, <1>7, MountsIs
    <3> QED
      BY ONLY <2>1, <3>2, <3>3
  <2>2. CASE ~ScannerOn(e, "scan")
    BY <2>2, <1>5, <1>7 DEF NoCamera
  <2> QED
    BY <2>1, <2>2
<1>9. NoEntry \in [tab : Tab, file : File \cup {None}] /\ NoEntry.tab = "scan"
  BY DEF NoEntry, Tab
<1>10. CameraOK'
  <2>1. camera'.prompts \in Nat /\ camera'.prompts + camera'.orphans <= MaxAsked
    BY <1>8 DEF Filming
  <2> QED
    BY <1>4, <1>5, <1>8, <1>9, <2>1 DEF CameraOK
<1>11. Opened(Here)'
  BY <1>5, <1>6, <1>8, <1>9 DEF Opened
<1>12. Steady(camera', hidden')
  BY <1>4, <1>8 DEF Steady, Filming
<1>13. AsksOK' /\ Asked(Here)'
  <2>1. CASE e.page = "entry"
    BY <2>1, <1>5, <1>6, FS_EmptySet DEF AsksOK, Asked, NoOutcome
  <2>2. CASE e.page # "entry"
    <3>1. Asks(e.number, e.file) \in Ask
      BY <2>2, <1>3, EntryFields DEF Asks, Ask
    <3>2. outcome' = runVerify(NoOutcome, Asks(e.number, e.file)) /\ asks' = {Asks(e.number, e.file)}
      BY <2>2, <1>5
    <3>3. AsksOK'
      BY <3>1, <3>2, JustOne DEF AsksOK, runVerify, NoOutcome
    <3>4. Asked(Here)'
      BY <1>6, <3>1, <3>2 DEF Asked, runVerify, NoOutcome
    <3> QED
      BY <3>3, <3>4
  <2> QED
    BY <2>1, <2>2
<1> QED
  BY <1>6, <1>10, <1>11, <1>12, <1>13

LEMMA LinksKeep ==
  ASSUME TabInv,
         \/ VerifyAnother \/ openScanner
         \/ \E n \in Number : handleSubmit(n) \/ handleUploadSubmit(n) \/ Decodes(n)
  PROVE  TabInv'
<1>1. CASE VerifyAnother
  BY <1>1, EntriesAre, PushesKeeps DEF VerifyAnother
<1>2. CASE openScanner
  BY <1>2, EntriesAre, PushesKeeps DEF openScanner
<1>3. ASSUME NEW n \in Number, handleSubmit(n) \/ handleUploadSubmit(n) \/ Decodes(n)
      PROVE  TabInv'
  <2>1. entry.file \in File \cup {None}
    BY DEF TabInv, CameraOK
  <2>2. PICK f \in File \cup {None} : Pushes(OutcomeOf(n, f), FALSE)
    BY <1>3, <2>1 DEF handleSubmit, handleUploadSubmit, Decodes
  <2> QED
    BY <2>2, EntriesAre, PushesKeeps
<1> QED
  BY <1>1, <1>2, <1>3

LEMMA TabsKeep ==
  ASSUME TabInv,
         closeScanner \/ focusManualField \/ \E tab \in Tab : selectTab(tab)
  PROVE  TabInv'
<1>1. EntryAt(FALSE) \in Entry /\ EntryAt(FALSE).page = "entry" /\ ~EntryAt(FALSE).scan
  BY EntriesAre DEF EntryAt
<1>2. entry \in [tab : Tab, file : File \cup {None}]
  BY DEF TabInv, CameraOK
<1>3. CASE closeScanner
  BY <1>1, <1>2, <1>3, ReplacesKeeps DEF closeScanner
<1>4. CASE focusManualField
  <2>1. "enter" \in Tab /\ entry' = [entry EXCEPT !.tab = "enter"]
    BY <1>4 DEF Tab, focusManualField
  <2>2. entry' \in [tab : Tab, file : File \cup {None}] /\ entry'.tab = "enter"
    BY <2>1, <1>2
  <2> QED
    BY <1>1, <1>4, <2>1, <2>2, ReplacesKeeps DEF focusManualField
<1>5. ASSUME NEW tab \in Tab, selectTab(tab) PROVE TabInv'
  <2>1. entry' = [entry EXCEPT !.tab = tab]
    BY <1>5 DEF selectTab
  <2>2. entry' \in [tab : Tab, file : File \cup {None}] /\ entry'.tab = tab
    BY <2>1, <1>2
  <2> QED
    BY <1>1, <1>5, <2>2, ReplacesKeeps DEF selectTab
<1> QED
  BY <1>3, <1>4, <1>5

(* Steps that leave the history and the requests alone. *)
LEMMA ScannerKeeps ==
  ASSUME TabInv, UNCHANGED <<history, outcome, asks>>, CameraOK',
         Steady(camera', hidden'), camera'.mounted = camera.mounted, entry'.tab = entry.tab
  PROVE  TabInv'
<1> USE DEF TabInv
<1>1. HistoryOK' /\ Here' = Here
  BY DEF HistoryOK, Here
<1>2. AsksOK' /\ Asked(Here)'
  BY <1>1 DEF AsksOK, Asked
<1>3. Opened(Here)'
  BY <1>1 DEF Opened
<1> QED
  BY <1>1, <1>2, <1>3

LEMMA ChoosesKeeps ==
  ASSUME TabInv, NEW f \in File \cup {None}, handleUploadFileChange(f)
  PROVE  TabInv'
<1>1. entry \in [tab : Tab, file : File \cup {None}] /\ entry' = [entry EXCEPT !.file = f]
  BY DEF TabInv, CameraOK, handleUploadFileChange
<1>2. entry' \in [tab : Tab, file : File \cup {None}] /\ entry'.tab = entry.tab
  BY <1>1
<1>3. UNCHANGED <<history, outcome, asks, camera, hidden>>
  BY DEF handleUploadFileChange
<1> QED
  BY <1>2, <1>3, ScannerKeeps DEF TabInv, CameraOK

LEMMA GrantedKeeps == ASSUME TabInv, Granted PROVE TabInv'
<1> USE DEF TabInv
<1>1. camera \in Filming /\ camera.prompts + camera.orphans <= MaxAsked
  BY DEF CameraOK
<1>2. UNCHANGED <<history, entry, outcome, asks, hidden>>
  BY DEF Granted
<1> DEFINE more(yes) == IF yes /\ camera.lost < MaxAsked THEN camera.lost + 1 ELSE camera.lost
<1>3. \A yes : more(yes) \in 0..MaxAsked
  BY <1>1 DEF Filming
<1>4. ASSUME NEW refused \in BOOLEAN, camera.prompts > 0,
             camera' = [camera EXCEPT !.prompts = camera.prompts - 1, !.ref = TRUE,
                                      !.unavailable = refused, !.lost = more(camera.ref)]
      PROVE  TabInv'
  <2>1. camera.prompts - 1 \in Nat
    BY <1>1, <1>4 DEF Filming
  <2>2. ~camera.ref => more(camera.ref) = camera.lost
    OBVIOUS
  <2> HIDE DEF more
  <2>3. /\ camera' \in Filming /\ camera'.prompts = camera.prompts - 1 /\ camera'.ref
        /\ camera'.lost = more(camera.ref) /\ camera'.orphans = camera.orphans
        /\ camera'.mounted = camera.mounted /\ camera'.cut = camera.cut
    BY <1>1, <1>3, <1>4, <2>1 DEF Filming
  <2>4. CameraOK'
    BY <1>1, <1>2, <2>3 DEF CameraOK, Filming
  <2>5. Steady(camera', hidden')
    BY <1>1, <1>2, <1>4, <2>2, <2>3 DEF Steady, Filming
  <2> QED
    BY <1>2, <2>3, <2>4, <2>5, ScannerKeeps
<1>5. CASE /\ camera.orphans > 0
           /\ camera' = [camera EXCEPT !.orphans = camera.orphans - 1, !.lost = more(TRUE)]
  <2>1. camera.orphans - 1 \in Nat
    BY <1>1, <1>5 DEF Filming
  <2> HIDE DEF more
  <2>2. /\ camera' \in Filming /\ camera'.prompts = camera.prompts /\ camera'.ref = camera.ref
        /\ camera'.orphans = camera.orphans - 1
        /\ camera'.mounted = camera.mounted /\ camera'.cut = camera.cut
    BY <1>1, <1>3, <1>5, <2>1 DEF Filming
  <2>3. CameraOK'
    BY <1>1, <1>2, <2>2 DEF CameraOK, Filming
  <2>4. camera.cut
    BY <1>1, <1>5 DEF Steady, Filming
  <2>5. Steady(camera', hidden')
    BY <1>1, <2>2, <2>4 DEF Steady
  <2> QED
    BY <1>2, <2>2, <2>3, <2>5, ScannerKeeps
<1> QED
  BY <1>4, <1>5 DEF Granted

LEMMA DeniedKeeps == ASSUME TabInv, Denied PROVE TabInv'
<1> USE DEF TabInv
<1>1. camera \in Filming /\ camera.prompts + camera.orphans <= MaxAsked
  BY DEF CameraOK
<1>2. UNCHANGED <<history, entry, outcome, asks, hidden>>
  BY DEF Denied
<1>3. PICK x \in Nat, y \in Nat :
        /\ x <= camera.prompts /\ y <= camera.orphans
        /\ camera' \in Filming /\ camera'.prompts = x /\ camera'.orphans = y
        /\ camera'.ref = camera.ref /\ camera'.lost = camera.lost
        /\ camera'.mounted = camera.mounted /\ camera'.cut = camera.cut
  <2>1. CASE camera.prompts > 0
             /\ camera' = [camera EXCEPT !.prompts = camera.prompts - 1, !.unavailable = TRUE]
    <3>1. camera.prompts - 1 \in Nat /\ camera.orphans \in Nat
      BY <1>1, <2>1 DEF Filming
    <3>2. /\ camera' \in Filming /\ camera'.prompts = camera.prompts - 1
          /\ camera'.orphans = camera.orphans
          /\ camera'.ref = camera.ref /\ camera'.lost = camera.lost
          /\ camera'.mounted = camera.mounted /\ camera'.cut = camera.cut
      BY <1>1, <2>1, <3>1 DEF Filming
    <3>3. camera.prompts - 1 <= camera.prompts /\ camera.orphans <= camera.orphans
      BY <1>1 DEF Filming
    <3> QED
      BY <3>1, <3>2, <3>3
  <2>2. CASE camera.orphans > 0 /\ camera' = [camera EXCEPT !.orphans = camera.orphans - 1]
    <3>1. camera.orphans - 1 \in Nat /\ camera.prompts \in Nat
      BY <1>1, <2>2 DEF Filming
    <3> QED
      BY <1>1, <2>2, <3>1 DEF Filming
  <2> QED
    BY <2>1, <2>2 DEF Denied
<1>4. CameraOK'
  BY <1>1, <1>2, <1>3 DEF CameraOK, Filming
<1>5. Steady(camera', hidden')
  BY <1>1, <1>2, <1>3 DEF Steady, Filming
<1> QED
  BY <1>2, <1>3, <1>4, <1>5, ScannerKeeps

LEMMA VisibilityKeeps == ASSUME TabInv, handleVisibility PROVE TabInv'
<1> USE DEF TabInv
<1>1. camera \in Filming /\ hidden \in BOOLEAN /\ hidden' = ~hidden
  BY DEF CameraOK, handleVisibility
<1>2. UNCHANGED <<history, entry, outcome, asks>>
      /\ camera'.prompts + camera'.orphans <= MaxAsked
  BY DEF handleVisibility
<1>3. entry \in [tab : Tab, file : File \cup {None}]
  BY DEF CameraOK
<1> DEFINE asking == camera.cut \/ camera.prompts > 0
<1>4. asking \in BOOLEAN
  BY <1>1 DEF Filming
<1>5. SUFFICES /\ camera' \in Filming /\ Steady(camera', hidden')
               /\ camera'.mounted = camera.mounted
  BY <1>1, <1>2, <1>3, ScannerKeeps DEF CameraOK
<1>6. CASE camera.mounted /\ ~hidden
  <2>1. camera' = [camera EXCEPT !.ref = FALSE, !.cut = asking]
    BY <1>1, <1>6 DEF handleVisibility, stopStream, Filming
  <2> HIDE DEF asking
  <2>2. /\ camera' \in Filming /\ ~camera'.ref /\ camera'.cut = asking
        /\ camera'.prompts = camera.prompts /\ camera'.orphans = camera.orphans
        /\ camera'.lost = camera.lost /\ camera'.mounted = camera.mounted
    BY <1>1, <1>4, <2>1 DEF Filming
  <2>3. Steady(camera', hidden')
    BY <1>1, <1>6, <2>2 DEF Steady, asking, Filming
  <2> QED
    BY <2>2, <2>3
<1>7. CASE camera.mounted /\ hidden /\ ~camera.unavailable
  <2>1. camera' = [camera EXCEPT !.prompts = camera.prompts + 1, !.cut = asking]
    BY <1>1, <1>7 DEF handleVisibility, startStream, Filming
  <2> HIDE DEF asking
  <2>2. camera.prompts + 1 \in Nat
    BY <1>1 DEF Filming
  <2>3. /\ camera' \in Filming /\ camera'.ref = camera.ref /\ camera'.cut = asking
        /\ camera'.prompts = camera.prompts + 1 /\ camera'.orphans = camera.orphans
        /\ camera'.lost = camera.lost /\ camera'.mounted = camera.mounted
    BY <1>1, <1>4, <2>1, <2>2 DEF Filming
  <2>4. Steady(camera', hidden')
    BY <1>1, <1>7, <2>3 DEF Steady, asking, Filming
  <2> QED
    BY <2>3, <2>4
<1>8. CASE ~camera.mounted \/ (hidden /\ camera.unavailable)
  <2>1. camera' = camera
    BY <1>8 DEF handleVisibility
  <2>2. Steady(camera, hidden')
    BY <1>1, <1>8 DEF Steady, Filming
  <2> QED
    BY <1>1, <2>1, <2>2
<1> QED
  BY <1>6, <1>7, <1>8

(* Steps of the outcome page alone. *)
LEMMA PageKeeps ==
  ASSUME TabInv, UNCHANGED <<history, entry, camera, hidden>>, AsksOK', Asked(Here)'
  PROVE  TabInv'
<1> USE DEF TabInv
<1>1. HistoryOK' /\ Here' = Here
  BY DEF HistoryOK, Here
<1>2. CameraOK' /\ Opened(Here)' /\ Steady(camera', hidden')
  BY <1>1 DEF CameraOK, Opened
<1> QED
  BY <1>1, <1>2

LEMMA AnswersKeep ==
  ASSUME TabInv, NEW k \in asks, Answers(k)
  PROVE  TabInv'
<1> USE DEF TabInv
<1>1. k \in Ask /\ asks \subseteq Ask /\ NoAsk \notin Ask
  BY DEF AsksOK, NoAsk, Ask
<1>2. asks \ {k} \subseteq Ask /\ IsFiniteSet(asks \ {k})
      /\ Cardinality(asks \ {k}) <= MaxAsked
  <2>1. IsFiniteSet(asks \ {k}) /\ Cardinality(asks \ {k}) = Cardinality(asks) - 1
    BY FS_RemoveElement DEF AsksOK
  <2>2. Cardinality(asks) \in Nat /\ Cardinality(asks) <= MaxAsked
    BY FS_CardinalityType DEF AsksOK
  <2> QED
    BY <1>1, <2>1, <2>2
<1>3. outcome \in [run : Ask \cup {NoAsk}, result : Ask \cup {NoAsk},
                   error : BOOLEAN, loading : BOOLEAN, raced : BOOLEAN]
  BY DEF AsksOK
<1>4. UNCHANGED <<history, entry, camera, hidden>> /\ asks' = asks \ {k}
  BY DEF Answers, Verified, VerifyFails
<1>5. Here' = Here
  BY <1>4 DEF Here
<1>6. CASE Verified(k)
  <2>1. outcome' = [outcome EXCEPT !.result = k, !.loading = FALSE]
    BY <1>6 DEF Verified
  <2>2. AsksOK'
    BY <1>1, <1>2, <1>3, <1>4, <2>1 DEF AsksOK
  <2>3. Asked(Here)'
    BY <1>1, <1>3, <1>4, <1>5, <2>1 DEF Asked
  <2> QED
    BY <1>4, <2>2, <2>3, PageKeeps
<1>7. CASE VerifyFails(k)
  <2>1. outcome' = [outcome EXCEPT !.result = NoAsk, !.error = TRUE, !.loading = FALSE]
    BY <1>7 DEF VerifyFails
  <2>2. AsksOK'
    BY <1>1, <1>2, <1>3, <1>4, <2>1 DEF AsksOK
  <2>3. Asked(Here)'
    BY <1>1, <1>3, <1>4, <1>5, <2>1 DEF Asked
  <2> QED
    BY <1>4, <2>2, <2>3, PageKeeps
<1> QED
  BY <1>6, <1>7 DEF Answers

LEMMA TryAgainKeeps == ASSUME TabInv, TryAgain PROVE TabInv'
<1> USE DEF TabInv
<1>1. /\ UNCHANGED <<history, entry, camera, hidden>> /\ Here.page = "outcome"
      /\ outcome' = runVerify(outcome, outcome.run) /\ asks' = asks \cup {outcome.run}
      /\ Cardinality(asks) < MaxAsked
  BY DEF TryAgain
<1>2. outcome.run \in Ask /\ Here' = Here
  BY <1>1 DEF Asked, Here
<1>3. AsksOK'
  BY <1>1, <1>2, OneMore DEF AsksOK, runVerify
<1>4. Asked(Here)'
  BY <1>1, <1>2 DEF Asked, AsksOK, runVerify
<1> QED
  BY <1>1, <1>3, <1>4, PageKeeps

LEMMA TabStep == TabInv /\ [TabNext]_tabVars => TabInv'
<1> SUFFICES ASSUME TabInv, [TabNext]_tabVars PROVE TabInv'
  OBVIOUS
<1>1. CASE Jumps
  BY <1>1, JumpsKeeps
<1>2. CASE Reloads
  BY <1>2, ReloadsKeeps
<1>3. CASE \/ VerifyAnother \/ openScanner
           \/ \E n \in Number : handleSubmit(n) \/ handleUploadSubmit(n) \/ Decodes(n)
  BY <1>3, LinksKeep
<1>4. CASE closeScanner \/ focusManualField \/ \E tab \in Tab : selectTab(tab)
  BY <1>4, TabsKeep
<1>5. CASE \E f \in File \cup {None} : handleUploadFileChange(f)
  BY <1>5, ChoosesKeeps
<1>6. CASE Granted \/ Denied
  BY <1>6, GrantedKeeps, DeniedKeeps
<1>7. CASE handleVisibility
  BY <1>7, VisibilityKeeps
<1>8. CASE TryAgain \/ \E k \in asks : Answers(k)
  BY <1>8, TryAgainKeeps, AnswersKeep
<1>9. CASE UNCHANGED tabVars
  BY <1>9 DEF tabVars, TabInv, HistoryOK, AsksOK, CameraOK, Asked, Opened, Here
<1> QED
  BY <1>1, <1>2, <1>3, <1>4, <1>5, <1>6, <1>7, <1>8, <1>9 DEF TabNext

(* The inductive invariant of the verify pages. *)
THEOREM TabInvariance == TabSpec => []TabInv
  BY TabInitially, TabStep, PTL DEF TabSpec

(* VerifyOutcomePage.jsx: whatever is tried again, reloaded or jumped between,
   the outcome shown is of the number and the file the page names, unless a
   request of another entry overlaps; and the page is never blank. *)
THEOREM OutcomesAreHonest == TabSpec => []OutcomeIsHonest
<1>1. TabInv => OutcomeIsHonest
  BY TabPromise
<1> QED
  BY <1>1, TabInvariance, PTL

(* QrScanner.jsx: the camera runs only in a scanner that is open and visible,
   unless it was closed, hidden or started again while it was asking. *)
THEOREM CameraIsStopped == TabSpec => []CameraStops
<1>1. TabInv => CameraStops
  BY TabPromise
<1> QED
  BY <1>1, TabInvariance, PTL
==============================================================================
