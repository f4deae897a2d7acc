---------------------------- MODULE IssuerPages ----------------------------
(***************************************************************************)
(* What an institution's member sees of a certificate: the issue form      *)
(* (IssuePage.jsx), the page of one certificate (CertificateDetailPage.jsx *)
(* with useCertificateStatus.js, RevokeDialog.jsx and                      *)
(* CertificateDocumentButton.jsx) and the batch page (BatchIssuePage.jsx). *)
(*                                                                         *)
(* The server moves certificates on along the legal edges meanwhile.       *)
(* Requests are answered and their answers arrive in any order; a render   *)
(* and the effects it triggers are one step (Commit).  A page that is left *)
(* ignores what still arrives, except that the answer to an issue request  *)
(* still navigates.                                                        *)
(***************************************************************************)
EXTENDS Lifecycle, Naturals, FiniteSets, Bags

CONSTANTS Old,          \* certificates that exist at first
          New,          \* those that submissions may create
          MaxTicks,     \* polls that fit into MAX_POLL_MS
          Seen,         \* bound: the states in which requests find certificates
          MaxLoads,     \* bound: loads on their way
          MaxStrays,    \* bound: polls on their way outside a chain
          MaxRevokes,   \* bound: revoke requests on their way
          MaxJobs       \* bound: batch jobs that one visit to the batch page creates

ASSUME IssuerPagesAssumption ==
    /\ IsFiniteSet(Old \cup New) /\ Old \cap New = {} /\ Old \cup New # {}
    /\ MaxTicks \in Nat /\ MaxLoads \in Nat \ {0} /\ MaxStrays \in Nat \ {0} /\ MaxRevokes \in Nat
    /\ MaxJobs \in Nat \ {0}
    /\ Seen \subseteq CertState

VARIABLES state,        \* certificate.status of each certificate
          at,           \* the page the user is on
          page,         \* the state of CertificateDetailPage and its hook
          tick,         \* the hook's chain of polls
          loads,        \* GET /certificates/:id on their way
          strays,       \* polls whose chain was cut, and those of refresh()
          dialog,       \* revokeOpen, and submitting inside the dialog
          revokes,      \* POST /revoke on their way; mine: by this dialog
          sub,          \* POST /certificates: one per submission
          batch         \* the batch page, and the server's jobs it uploaded

detail == <<page, tick, loads, strays, dialog, revokes>>
vars == <<state, at, detail, sub, batch>>

Cert == Old \cup New
Issuing == {"PENDING_STORAGE", "PENDING_ANCHOR", "ANCHORING"}
Terminal == {"ACTIVE", "REVOKED", "FAILED"}
NonTerminal == Issuing \cup {"REVOKING"}
Unborn == "UNBORN"
None == "none"

(* Requests on their way, in a bag: what each asks for and how far it is,  *)
(* sent, or answered with a state.                                         *)
Call == Cert \X (CertState \cup {"sent"})
IsCalls(b) == IsABag(b) /\ BagToSet(b) \subseteq Call
Plus(b, k) == b (+) SetToBag({k})
Less(b, k) == b (-) SetToBag({k})
Sent(b) == {c \in Cert : BagIn(<<c, "sent">>, b)}
Answered(b) == BagToSet(b) \ (Cert \X {"sent"})

NoPage(c) == [id |-> c, of |-> None, status |-> None, loading |-> TRUE, failed |-> FALSE,
              poll |-> None, polling |-> FALSE, timedOut |-> FALSE, ticks |-> 0,
              strayed |-> FALSE, moved |-> FALSE]
Closed == [open |-> FALSE, submitting |-> FALSE]
Slot == 1..MaxRevokes
NoRevoke == [of |-> None, id |-> None, step |-> "unused", mine |-> FALSE]
NoRevokes == [k \in Slot |-> NoRevoke]
Orphaned(r) == [k \in Slot |-> [r[k] EXCEPT !.mine = FALSE]]
Job == 1..MaxJobs
(* shown, status: the job as it was polled last; timer: for its next poll.  *)
NoBatch == [jobs |-> [j \in Job |-> None], uploading |-> FALSE, shown |-> 0, status |-> None,
            timer |-> FALSE, polls |-> {}, error |-> FALSE]

SameServer == UNCHANGED state

-----------------------------------------------------------------------------
(* The server. *)

(* The worker and the API move a certificate on; another member may revoke *)
(* it.  No caller takes the edge from REVOKING back to ACTIVE.  Several    *)
(* steps may pass between two that a request sees.                         *)
Once == LegalEdge \ {<<"REVOKING", "ACTIVE">>}
Then(R, S) == {e \in CertState \X CertState :
                  \E c \in CertState : <<e[1], c>> \in R /\ <<c, e[2]>> \in S}
Later == Once \cup Then(Once, Once) \cup Then(Once, Then(Once, Once))
ServerMoves(c) ==
    /\ \E s \in Seen : /\ <<state[c], s>> \in Later
                       /\ state' = [state EXCEPT ![c] = s]
    /\ UNCHANGED <<at, detail, sub, batch>>

JobMoves ==
    /\ \E j \in Job :
          \/ batch.jobs[j] = "PENDING" /\ batch' = [batch EXCEPT !.jobs[j] = "PROCESSING"]
          \/ batch.jobs[j] = "PROCESSING" /\ batch' = [batch EXCEPT !.jobs[j] = "COMPLETED"]
    /\ UNCHANGED <<state, at, detail, sub>>

-----------------------------------------------------------------------------
(* Rendering the certificate's page. *)

Enabled(p) == p.status \in NonTerminal
Shown == IF page.poll # None THEN page.poll ELSE page.status
Panel == IF page.loading THEN "skeleton"
         ELSE IF page.failed \/ page.of = None THEN "error" ELSE "record"
Differs(p) == p.poll # None /\ p.status # None /\ p.poll # p.status

(* The page becomes p; the hook's chain of polls is at t unless its effect *)
(* runs again.  The effect is keyed by the id and by enabled: its clean-up *)
(* leaves the poll on its way without a chain (one more than MaxStrays     *)
(* fails).  fresh: the certificate or the polled status is a new object,   *)
(* so the effect that reloads runs as well (a reload beyond MaxLoads       *)
(* counts as one with a load that was sent and is not answered).           *)
Commit(p, t, ls, st, fresh) ==
    LET starts == Enabled(p) /\ (~Enabled(page) \/ p.id # page.id)
        stops == ~Enabled(p) /\ Enabled(page)
        cut == (starts \/ stops) /\ t \notin {"off", "timer"}
    IN /\ page' = [p EXCEPT !.polling = starts \/ (@ /\ Enabled(p)),
                           !.timedOut = @ /\ ~starts,
                           !.ticks = IF starts THEN 0 ELSE @,
                           !.strayed = @ \/ cut]
       /\ tick' = IF starts THEN "sent" ELSE IF stops THEN "off" ELSE t
       /\ strays' = IF cut /\ BagCardinality(st) < MaxStrays
                      THEN Plus(st, <<page.id, t>>) ELSE st
       /\ IF fresh /\ Differs(p) /\ (BagCardinality(ls) < MaxLoads \/ p.id \notin Sent(ls))
            THEN BagCardinality(ls) < MaxLoads /\ loads' = Plus(ls, <<p.id, "sent">>)
            ELSE BagCardinality(ls) <= MaxLoads /\ loads' = ls

(* Opening the page of certificate c: from another page it mounts anew;    *)
(* from another certificate's page only the id changes.                    *)
Opens(c) ==
    /\ at' = "detail"
    /\ batch' = NoBatch
    /\ IF at # "detail"
         THEN /\ page' = NoPage(c) /\ tick' = "off"
              /\ loads' = Plus(EmptyBag, <<c, "sent">>) /\ strays' = EmptyBag
              /\ dialog' = Closed /\ revokes' = NoRevokes
         ELSE IF c = page.id THEN UNCHANGED detail
         ELSE /\ Commit([page EXCEPT !.id = c, !.loading = TRUE, !.moved = TRUE],
                        tick, Plus(loads, <<c, "sent">>), strays, TRUE)
              /\ dialog' = [dialog EXCEPT !.submitting = FALSE]
              /\ revokes' = Orphaned(revokes)

Leaves(where) ==
    /\ at' = where
    /\ page' = NoPage(CHOOSE c \in Cert : TRUE) /\ tick' = "off"
    /\ loads' = EmptyBag /\ strays' = EmptyBag
    /\ dialog' = Closed /\ revokes' = NoRevokes
    /\ batch' = NoBatch
    /\ sub' = [n \in New |-> [sub[n] EXCEPT !.mine = FALSE]]

Goes ==
    /\ \E where \in {"issue", "batch", "away"} \ {at} : Leaves(where)
    /\ SameServer
OpenOld ==
    /\ at = "away"
    /\ \E c \in Cert : state[c] # Unborn /\ Opens(c)
    /\ SameServer /\ UNCHANGED sub

-----------------------------------------------------------------------------
(* Loading and polling. *)

(* The server reads the row for one of the requests on their way. *)
Sampled(b, c) == Plus(Less(b, <<c, "sent">>), <<c, state[c]>>)
Serve ==
    /\ \/ \E c \in Sent(loads) : loads' = Sampled(loads, c) /\ UNCHANGED <<tick, strays>>
       \/ \E c \in Sent(strays) : strays' = Sampled(strays, c) /\ UNCHANGED <<tick, loads>>
       \/ tick = "sent" /\ tick' = state[page.id] /\ UNCHANGED <<loads, strays>>
    /\ SameServer /\ UNCHANGED <<at, page, dialog, revokes, sub, batch>>

(* loadCertificate: no answer is cancelled, the last to arrive stays. *)
Loaded ==
    /\ \E k \in Answered(loads) :
          Commit([page EXCEPT !.of = k[1], !.status = k[2], !.loading = FALSE, !.failed = FALSE],
                 tick, Less(loads, k), strays, TRUE)
    /\ SameServer /\ UNCHANGED <<at, dialog, revokes, sub, batch>>
(* The page of a failed load has no dialog: what it held is gone. *)
LoadFails ==
    /\ \E c \in Sent(loads) :
          Commit([page EXCEPT !.loading = FALSE, !.failed = TRUE],
                 tick, Less(loads, <<c, "sent">>), strays, FALSE)
    /\ dialog' = [dialog EXCEPT !.submitting = FALSE]
    /\ revokes' = Orphaned(revokes)
    /\ SameServer /\ UNCHANGED <<at, sub, batch>>

TimerFires ==
    /\ tick = "timer"
    /\ tick' = "sent"
    /\ SameServer
    /\ UNCHANGED <<at, page, loads, strays, dialog, revokes, sub, batch>>

Continues_NoDeadline(p, fresh) ==
    Commit([p EXCEPT !.ticks = (@ + 1) % (MaxTicks + 1)], "timer", loads, strays, fresh)
Continues_OneMore(p, fresh) ==
    \/ /\ p.ticks <= MaxTicks
       /\ Commit([p EXCEPT !.ticks = @ + 1], "timer", loads, strays, fresh)
    \/ Commit([p EXCEPT !.polling = FALSE, !.timedOut = TRUE], "off", loads, strays, fresh)
(* tick() goes on after its poll: another in 5 s, or MAX_POLL_MS is over.  *)
Continues(p, fresh) ==
    \/ /\ p.ticks < MaxTicks
       /\ Commit([p EXCEPT !.ticks = @ + 1], "timer", loads, strays, fresh)
    \/ Commit([p EXCEPT !.polling = FALSE, !.timedOut = TRUE], "off", loads, strays, fresh)

Polled_KeepsPolling ==
    /\ tick \in CertState
    /\ IF tick \in Terminal
         THEN Commit([page EXCEPT !.poll = tick], "off", loads, strays, TRUE)
         ELSE Continues([page EXCEPT !.poll = tick], TRUE)
    /\ SameServer /\ UNCHANGED <<at, dialog, revokes, sub, batch>>
Polled ==
    /\ tick \in CertState
    /\ IF tick \in Terminal
         THEN Commit([page EXCEPT !.poll = tick, !.polling = FALSE], "off", loads, strays, TRUE)
         ELSE Continues([page EXCEPT !.poll = tick], TRUE)
    /\ SameServer /\ UNCHANGED <<at, dialog, revokes, sub, batch>>
PollFails_Ends ==
    /\ tick = "sent"
    /\ Commit([page EXCEPT !.polling = FALSE], "off", loads, strays, FALSE)
    /\ SameServer /\ UNCHANGED <<at, dialog, revokes, sub, batch>>
PollFails ==
    /\ tick = "sent"
    /\ Continues(page, FALSE)
    /\ SameServer /\ UNCHANGED <<at, dialog, revokes, sub, batch>>

(* fetchOnce sets the status whether or not its chain was cut. *)
StrayPolled ==
    /\ \E k \in Answered(strays) :
          Commit([page EXCEPT !.poll = k[2]], tick, loads, Less(strays, k), TRUE)
    /\ SameServer /\ UNCHANGED <<at, dialog, revokes, sub, batch>>
StrayFails ==
    /\ \E c \in Sent(strays) : strays' = Less(strays, <<c, "sent">>)
    /\ SameServer /\ UNCHANGED <<at, page, tick, loads, dialog, revokes, sub, batch>>

(* What the page offers. *)
OffersTryAgain == Panel = "error"
OffersRefresh == Panel = "record" /\ ~page.polling /\ page.timedOut
OffersCheckAgain == Panel = "record" /\ Shown = "FAILED"
OffersRevoke == Panel = "record" /\ Shown = "ACTIVE"
OffersDocument_WhileAnchoring == Panel = "record" /\ Shown \in {"ANCHORING", "ACTIVE", "REVOKED"}
OffersDocument == Panel = "record" /\ Shown \in {"ACTIVE", "REVOKED"}

TryAgain ==
    /\ at = "detail" /\ OffersTryAgain
    /\ Commit(page, tick, Plus(loads, <<page.id, "sent">>), strays, FALSE)
    /\ SameServer /\ UNCHANGED <<at, dialog, revokes, sub, batch>>

(* handleRetry: Refresh after the deadline, Check again for a failure. *)
handleRetry ==
    /\ at = "detail" /\ (OffersRefresh \/ OffersCheckAgain)
    /\ BagCardinality(strays) < MaxStrays
    /\ Commit([page EXCEPT !.timedOut = FALSE, !.strayed = TRUE], tick,
              Plus(loads, <<page.id, "sent">>), Plus(strays, <<page.id, "sent">>), FALSE)
    /\ SameServer /\ UNCHANGED <<at, dialog, revokes, sub, batch>>

-----------------------------------------------------------------------------
(* The dialog that revokes the certificate on the page. *)

OpenDialog ==
    /\ at = "detail" /\ OffersRevoke /\ ~dialog.open
    /\ dialog' = [open |-> TRUE, submitting |-> FALSE]
    /\ SameServer /\ UNCHANGED <<at, page, tick, loads, strays, revokes, sub, batch>>

(* Cancel stays enabled while a request is on its way, and opening the     *)
(* dialog again forgets that one is.                                       *)
CancelDialog ==
    /\ at = "detail" /\ Panel = "record" /\ dialog.open
    /\ dialog' = [dialog EXCEPT !.open = FALSE]
    /\ SameServer /\ UNCHANGED <<at, page, tick, loads, strays, revokes, sub, batch>>

(* handleSubmit: the reason is valid and the identifier is typed. *)
SubmitRevoke ==
    /\ at = "detail" /\ Panel = "record" /\ dialog.open /\ ~dialog.submitting
    /\ \E k \in Slot :
          /\ revokes[k] = NoRevoke /\ \A j \in Slot : j < k => revokes[j] # NoRevoke
          /\ revokes' = [revokes EXCEPT ![k] = [of |-> page.of, id |-> page.id,
                                               step |-> "sent", mine |-> TRUE]]
    /\ dialog' = [dialog EXCEPT !.submitting = TRUE]
    /\ SameServer /\ UNCHANGED <<at, page, tick, loads, strays, sub, batch>>

(* revocationService.revoke, its broadcast and its commit in one step. *)
Revokes(k) ==
    /\ revokes[k].step = "sent"
    /\ state[revokes[k].of] = "ACTIVE"
    /\ state' = [state EXCEPT ![revokes[k].of] = "REVOKING"]
    /\ revokes' = [revokes EXCEPT ![k].step = "accepted"]
    /\ UNCHANGED <<at, page, tick, loads, strays, dialog, sub, batch>>

(* handleRevoked, of the page's id when the request was sent. *)
RevokeReturns(k) ==
    /\ revokes[k].step = "accepted"
    /\ revokes' = [revokes EXCEPT ![k] = NoRevoke]
    /\ dialog' = Closed
    /\ Commit(page, tick, Plus(loads, <<revokes[k].id, "sent">>), strays, FALSE)
    /\ SameServer /\ UNCHANGED <<at, sub, batch>>
RevokeRefused_StaysSubmitting(k) ==
    /\ revokes[k].step \in {"sent", "accepted"}
    /\ revokes' = [revokes EXCEPT ![k] = NoRevoke]
    /\ SameServer /\ UNCHANGED <<at, page, tick, loads, strays, dialog, sub, batch>>
(* The request is refused, or it or its answer is lost. *)
RevokeRefused(k) ==
    /\ revokes[k].step \in {"sent", "accepted"}
    /\ revokes' = [revokes EXCEPT ![k] = NoRevoke]
    /\ dialog' = IF revokes[k].mine THEN [dialog EXCEPT !.submitting = FALSE] ELSE dialog
    /\ SameServer /\ UNCHANGED <<at, page, tick, loads, strays, sub, batch>>

-----------------------------------------------------------------------------
(* The issue form. *)

Submitting == \E n \in New : sub[n].mine
SubmitForm(n) ==
    /\ at = "issue" /\ ~Submitting
    /\ sub[n].step = "unused"
    /\ sub' = [sub EXCEPT ![n] = [step |-> "asked", mine |-> TRUE]]
    /\ SameServer /\ UNCHANGED <<at, detail, batch>>

(* issuanceService.issue: the certificate is inserted; later the request   *)
(* answers with its id (issued, or queued after an outage: meta), or a     *)
(* failed statement ends it without one.                                   *)
Issues(n) ==
    /\ sub[n].step = "asked"
    /\ \E s \in Seen \cap Issuing : state' = [state EXCEPT ![n] = s]
    /\ sub' = [sub EXCEPT ![n].step = "created"]
    /\ UNCHANGED <<at, detail, batch>>

(* The answer navigates, wherever the user is by then. *)
IssueReturns(n) ==
    /\ sub[n].step = "created"
    /\ Opens(n)
    /\ sub' = [m \in New |-> IF m = n THEN [step |-> "over", mine |-> FALSE]
                              ELSE [sub[m] EXCEPT !.mine = FALSE]]
    /\ SameServer
IssueFails_StaysSubmitting(n) ==
    /\ sub[n].step \in {"asked", "created"}
    /\ sub' = [sub EXCEPT ![n].step = "over"]
    /\ SameServer /\ UNCHANGED <<at, detail, batch>>
IssueFails(n) ==
    /\ sub[n].step \in {"asked", "created"}
    /\ sub' = [sub EXCEPT ![n] = [step |-> "over", mine |-> FALSE]]
    /\ SameServer /\ UNCHANGED <<at, detail, batch>>

-----------------------------------------------------------------------------
(* The batch page. *)

Unfinished == {"PENDING", "PROCESSING"}
JobStatus == Unfinished \cup {None, "COMPLETED"}

Unused(j) == batch.jobs[j] = None

(* The form is barred by an upload on its way and by a job that is shown,  *)
(* not by a first poll that has not returned.                              *)
Upload ==
    /\ at = "batch" /\ batch.status = None /\ ~batch.uploading
    /\ \E j \in Job : Unused(j)
    /\ batch' = [batch EXCEPT !.uploading = TRUE, !.error = FALSE]
    /\ SameServer /\ UNCHANGED <<at, detail, sub>>
(* The job is created and the first poll sent; *)
Uploaded ==
    /\ batch.uploading
    /\ \E j \in Job :
          /\ Unused(j)
          /\ batch' = [batch EXCEPT !.jobs[j] = "PENDING", !.uploading = FALSE,
                                    !.polls = @ \cup {j}]
    /\ SameServer /\ UNCHANGED <<at, detail, sub>>
(* or the upload is refused, or the answer lost and the job not followed.  *)
UploadFails ==
    /\ batch.uploading
    /\ \/ batch' = [batch EXCEPT !.uploading = FALSE, !.error = TRUE]
       \/ \E j \in Job :
             /\ Unused(j)
             /\ batch' = [batch EXCEPT !.jobs[j] = "PENDING", !.uploading = FALSE, !.error = TRUE]
    /\ SameServer /\ UNCHANGED <<at, detail, sub>>

(* The effect sets a timer for every unfinished job that was received, and *)
(* clears the one before.                                                  *)
BatchPolled(j) ==
    /\ batch' = [batch EXCEPT !.polls = @ \ {j}, !.shown = j, !.status = batch.jobs[j],
                              !.timer = batch.jobs[j] \in Unfinished]
    /\ SameServer /\ UNCHANGED <<at, detail, sub>>
BatchPollFails_Silent(j) ==
    /\ batch' = [batch EXCEPT !.polls = @ \ {j}]
    /\ SameServer /\ UNCHANGED <<at, detail, sub>>
BatchPollFails(j) ==
    /\ batch' = [batch EXCEPT !.polls = @ \ {j}, !.error = TRUE]
    /\ SameServer /\ UNCHANGED <<at, detail, sub>>
BatchTimer ==
    /\ batch.timer
    /\ batch' = [batch EXCEPT !.timer = FALSE, !.polls = @ \cup {batch.shown}]
    /\ SameServer /\ UNCHANGED <<at, detail, sub>>
startNewBatch ==
    /\ batch.status = "COMPLETED"
    /\ batch' = [batch EXCEPT !.shown = 0, !.status = None, !.error = FALSE]
    /\ SameServer /\ UNCHANGED <<at, detail, sub>>

-----------------------------------------------------------------------------
Init ==
    /\ state \in [Cert -> (Seen \cap (Issuing \cup {"ACTIVE"})) \cup {Unborn}]
    /\ \A c \in Cert : c \in New <=> state[c] = Unborn
    /\ at = "away"
    /\ page = NoPage(CHOOSE c \in Cert : TRUE) /\ tick = "off"
    /\ loads = EmptyBag /\ strays = EmptyBag
    /\ dialog = Closed /\ revokes = NoRevokes
    /\ sub = [n \in New |-> [step |-> "unused", mine |-> FALSE]]
    /\ batch = NoBatch

User ==
    \/ Goes \/ OpenOld \/ TryAgain \/ handleRetry
    \/ OpenDialog \/ CancelDialog \/ SubmitRevoke
    \/ \E n \in New : SubmitForm(n)
    \/ Upload \/ startNewBatch
Watching == Serve \/ Loaded \/ LoadFails \/ TimerFires \/ Polled \/ PollFails
            \/ StrayPolled \/ StrayFails
Revoking == \E k \in Slot : Revokes(k) \/ RevokeReturns(k) \/ RevokeRefused(k)
Submitted == \E n \in New : Issues(n) \/ IssueReturns(n) \/ IssueFails(n)
Batching == Uploaded \/ UploadFails \/ BatchTimer
            \/ \E j \in batch.polls : BatchPolled(j) \/ BatchPollFails(j)
Next == User \/ Watching \/ Revoking \/ Submitted \/ Batching
        \/ JobMoves \/ \E c \in Cert : ServerMoves(c)

Spec == Init /\ [][Next]_vars

(* Requests end and timers fire; nothing is asked of the user, nor of how  *)
(* fast a certificate is anchored.  Strong where the bound on loads alone  *)
(* can disable an answer again and again.                                  *)
FairSpec ==
    /\ Spec
    /\ WF_vars(TimerFires) /\ SF_vars(Polled \/ PollFails) /\ WF_vars(Loaded \/ LoadFails)

-----------------------------------------------------------------------------
TypeOK ==
    /\ state \in [Cert -> CertState \cup {Unborn}]
    /\ at \in {"issue", "batch", "detail", "away"}
    /\ page \in [id : Cert, of : Cert \cup {None}, status : CertState \cup {None},
                 loading : BOOLEAN, failed : BOOLEAN, poll : CertState \cup {None},
                 polling : BOOLEAN, timedOut : BOOLEAN, ticks : 0..MaxTicks,
                 strayed : BOOLEAN, moved : BOOLEAN]
    /\ tick \in {"off", "timer", "sent"} \cup CertState
    /\ IsCalls(loads) /\ IsCalls(strays)
    /\ dialog \in [open : BOOLEAN, submitting : BOOLEAN]
    /\ revokes \in [Slot -> [of : Cert \cup {None}, id : Cert \cup {None},
                             step : {"unused", "sent", "accepted"}, mine : BOOLEAN]]
    /\ sub \in [New -> [step : {"unused", "asked", "created", "over"},
                        mine : BOOLEAN]]
    /\ batch \in [jobs : [Job -> JobStatus], uploading : BOOLEAN, shown : 0..MaxJobs,
                  status : JobStatus, timer : BOOLEAN, polls : SUBSET Job, error : BOOLEAN]
    /\ batch.timer => batch.shown \in Job /\ batch.status \in Unfinished

(* A page that shows a certificate on its way is still told of it, or      *)
(* offers Refresh, unless a poll outside a chain was on its way: refresh() *)
(* sends one that no other follows, and a chain that was cut leaves one    *)
(* whose late answer still replaces the status (useCertificateStatus.js).  *)
StillFollowed ==
    at = "detail" /\ Panel = "record" /\ Shown \in NonTerminal =>
        \/ tick # "off" \/ OffersRefresh
        \/ loads # EmptyBag \/ strays # EmptyBag
        \/ page.strayed

(* Whatever order the answers arrive in, the document and the revocation   *)
(* are offered only once the certificate was anchored, unless the address  *)
(* changed under a mounted page.                                           *)
OffersOnlyAnchored ==
    at = "detail" /\ ~page.moved /\ (OffersDocument \/ OffersRevoke) =>
        state[page.of] \notin NotPublic

(* The spinner of the hook and the chain of its polls agree. *)
PollingIsReal == at = "detail" => (page.polling <=> tick # "off")

(* A form is disabled only while its request is on its way. *)
DisabledWhileAsked ==
    /\ \A n \in New : sub[n].mine => sub[n].step \in {"asked", "created"}
    /\ dialog.submitting => \E k \in Slot : revokes[k].mine

(* A batch page that shows an unfinished batch polls it or says that it    *)
(* lost track, also when it has uploaded another one and the answers about *)
(* the two overtake each other.                                            *)
BatchFollowed ==
    batch.status \in Unfinished => batch.timer \/ batch.shown \in batch.polls \/ batch.error

(* A user who stays is not left in front of a progress bar that nothing    *)
(* updates: polling ends in an outcome, an error or an offer to refresh.   *)
WatchEnds ==
    (at = "detail" /\ page.polling)
        ~> (at # "detail" \/ ~page.polling)

(* Together: a page on which something is still to come is told of it      *)
(* (useCertificateStatus.js, BatchIssuePage.jsx), *)
StaysInTouch == TypeOK /\ StillFollowed /\ BatchFollowed /\ PollingIsReal

(* and what it offers, or bars, is up to date (CertificateDetailPage.jsx,  *)
(* RevokeDialog.jsx, IssuePage.jsx). *)
ControlsAreHonest == OffersOnlyAnchored /\ DisabledWhileAsked

-----------------------------------------------------------------------------
(* Sentences of the comments. *)

(* "then stops and leaves it to the caller to offer a manual Refresh"      *)
(* (useCertificateStatus.js:12-13), after the second time as well.         *)
RefreshIsOffered ==
    at = "detail" /\ Panel = "record" /\ Shown \in NonTerminal =>
        \/ tick # "off" \/ OffersRefresh
        \/ loads # EmptyBag \/ strays # EmptyBag

(* "Once polling reports a different (further-along) state"                *)
(* (CertificateDetailPage.jsx:52): a reload is never asked for because the *)
(* poll is behind the page.                                                *)
Behind(s, t) == <<s, t>> \in {<<"ACTIVE", "REVOKING">>, <<"ACTIVE", "REVOKED">>,
                              <<"REVOKING", "REVOKED">>}
PollIsFurther == ~Behind(page.poll, page.status)

(* "Disabled until the certificate's anchoring (or revocation) is actually *)
(* confirmed" (CertificateDocumentButton.jsx:11-12).                       *)
DisabledUntilConfirmed ==
    at = "detail" /\ OffersDocument => state[page.of] \notin NotPublic

(* "A credential already exists for this enrolment number and programme."  *)
(* (IssuePage.jsx:122): all submissions here are for the same.             *)
OneCredential == Cardinality({n \in New : state[n] # Unborn}) <= 1
=============================================================================
