----------------------------- MODULE VerifyPages -----------------------------
(***************************************************************************)
(* The public pages of one browser tab: VerifyEntryPage.jsx with its three *)
(* tabs and the camera of QrScanner.jsx, and VerifyOutcomePage.jsx.  The   *)
(* history is what makes them hard: an entry holds a number and perhaps an *)
(* uploaded file, and a jump between two outcome entries changes both      *)
(* under the mounted page.                                                 *)
(*                                                                         *)
(* A render and its effects are one step, and users act on a visible tab;  *)
(* what the browser decides is external.  The verdict itself is            *)
(* Verification.tla's: an answer here is what was asked about.             *)
(***************************************************************************)
EXTENDS Naturals, Sequences, FiniteSets

CONSTANTS Number,       \* certificate numbers that are typed, scanned, uploaded
          File,         \* PDF files of the user
          MaxEntries,   \* bound: entries of the history
          MaxAsked      \* bound: requests, and camera prompts, on their way

None == "none"

ASSUME VerifyPagesAssumption ==
    /\ None \notin File /\ None \notin Number /\ Number # {}
    /\ MaxEntries \in Nat \ {0} /\ MaxAsked \in Nat \ {0}

VARIABLES history,  \* [entries, pos]
          entry,    \* VerifyEntryPage: tab, chosen file
          outcome,  \* VerifyOutcomePage
          asks,     \* its requests on their way: what runVerify closed over
          camera,   \* QrScanner, its stream and its prompts
          hidden    \* document.hidden

tabVars == <<history, entry, outcome, asks, camera, hidden>>

EntryAt(scan)    == [page |-> "entry", scan |-> scan, number |-> None, file |-> None]
OutcomeOf(n, f)  == [page |-> "outcome", scan |-> FALSE, number |-> n, file |-> f]
Here == history.entries[history.pos]

NoEntry   == [tab |-> "scan", file |-> None]
(* run: what the current runVerify closes over; raced: the page went to    *)
(* another entry of the same number, or while a request was on its way.    *)
NoAsk == [number |-> None, file |-> None]
NoOutcome == [run |-> NoAsk, result |-> NoAsk, error |-> FALSE, loading |-> TRUE, raced |-> FALSE]
(* ref: streamRef holds a running stream; prompts, by this scanner and by  *)
(* ones that are gone; lost: running streams that no ref holds; cut: a     *)
(* scanner was closed, hidden or started again while it was prompting.     *)
NoCamera  == [mounted |-> FALSE, ref |-> FALSE, unavailable |-> FALSE, clicked |-> TRUE,
              prompts |-> 0, orphans |-> 0, lost |-> 0, cut |-> FALSE]

-----------------------------------------------------------------------------
(* The scanner. *)

stopStream(c) == [c EXCEPT !.ref = FALSE]
startStream(c) == [c EXCEPT !.prompts = @ + 1, !.cut = @ \/ c.prompts > 0]

(* The effect's clean-up stops the stream; a prompt goes on without it. *)
Unmounts_KeepsStream(c) ==
    [c EXCEPT !.mounted = FALSE, !.unavailable = FALSE, !.prompts = 0,
              !.orphans = @ + c.prompts, !.cut = @ \/ c.prompts > 0]
Unmounts(c) ==
    [stopStream(c) EXCEPT !.mounted = FALSE, !.unavailable = FALSE, !.prompts = 0,
                          !.orphans = @ + c.prompts, !.cut = @ \/ c.prompts > 0]
Mounts(c, click) ==
    startStream([c EXCEPT !.mounted = TRUE, !.clicked = click, !.unavailable = FALSE])

(* The scanner is mounted on the scan tab of an entry with ?scan=1. *)
ScannerOn(e, tab) == e.page = "entry" /\ e.scan /\ tab = "scan"
Follows(e, tab, click) ==
    /\ camera' = IF ScannerOn(e, tab) /\ ~camera.mounted THEN Mounts(camera, click)
                 ELSE IF ~ScannerOn(e, tab) /\ camera.mounted THEN Unmounts(camera)
                 ELSE camera
    /\ camera'.prompts + camera'.orphans <= MaxAsked

-----------------------------------------------------------------------------
(* The router shows an entry of the history. *)

(* The request that runVerify sends, and what it sets at once. *)
Asks_NoUpload(n, f) == [number |-> n, file |-> None]
Asks(n, f) == [number |-> n, file |-> f]
runVerify(p, run) == [p EXCEPT !.run = run, !.error = FALSE, !.loading = TRUE]

(* e replaces the entry that is shown: another page mounts anew; on the    *)
(* outcome page only a new number runs the effect; on the entry page the   *)
(* effect for ?scan=1 turns to the scan tab.                               *)
Shows(e, click) ==
    IF e.page = "entry"
      THEN LET tab == IF Here.page = "outcome" \/ (e.scan /\ ~Here.scan)
                        THEN "scan" ELSE entry.tab
           IN /\ entry' = [tab |-> tab, file |-> IF Here.page = "entry" THEN entry.file ELSE None]
              /\ Follows(e, tab, click)
              /\ outcome' = NoOutcome /\ asks' = {}
      ELSE /\ entry' = NoEntry
           /\ Follows(e, "scan", click)
           /\ IF Here.page = "outcome" /\ Here.number = e.number
                THEN /\ outcome' = [outcome EXCEPT !.raced = @ \/ e # Here]
                     /\ UNCHANGED asks
                ELSE /\ Cardinality(asks) < MaxAsked
                     /\ outcome' = [runVerify(IF Here.page = "entry" THEN NoOutcome ELSE outcome,
                                              Asks(e.number, e.file))
                                      EXCEPT !.raced = Here.page = "outcome" /\ asks # {}]
                     /\ asks' = (IF Here.page = "entry" THEN {} ELSE asks)
                                  \cup {Asks(e.number, e.file)}

(* navigate and setSearchParams: a new entry, or the current one replaced. *)
Pushes(e, click) ==
    /\ ~hidden /\ history.pos < MaxEntries
    /\ history' = [entries |-> Append(SubSeq(history.entries, 1, history.pos), e),
                   pos |-> history.pos + 1]
    /\ Shows(e, click)
    /\ UNCHANGED hidden
Replaces(e) ==
    /\ history' = [history EXCEPT !.entries[history.pos] = e]
    /\ UNCHANGED <<outcome, asks, hidden>>

(* Back, forward, or a choice from the list behind the back button. *)
Jumps ==
    /\ ~hidden
    /\ \E p \in 1..Len(history.entries) \ {history.pos} :
          /\ history' = [history EXCEPT !.pos = p]
          /\ Shows(history.entries[p], FALSE)
    /\ UNCHANGED hidden

(* A full load keeps the history; the file in an entry's state survives it *)
(* or is lost, as the browser has it.                                      *)
Reloads ==
    /\ ~hidden
    /\ \E f \in {Here.file, None} :
       LET e == [Here EXCEPT !.file = f] IN
       /\ history' = [history EXCEPT !.entries[history.pos] = e]
       /\ entry' = NoEntry
       /\ camera' = IF ScannerOn(e, "scan") THEN Mounts(NoCamera, FALSE) ELSE NoCamera
       /\ outcome' = IF e.page = "entry" THEN NoOutcome
                     ELSE runVerify(NoOutcome, Asks(e.number, e.file))
       /\ asks' = IF e.page = "entry" THEN {} ELSE {Asks(e.number, e.file)}
    /\ UNCHANGED hidden

-----------------------------------------------------------------------------
(* The entry page. *)

Tab == {"scan", "enter", "upload"}
OnEntry == Here.page = "entry" /\ ~hidden

openScanner == OnEntry /\ entry.tab = "scan" /\ ~Here.scan /\ Pushes(EntryAt(TRUE), TRUE)

closeScanner ==
    /\ OnEntry /\ camera.mounted
    /\ Replaces(EntryAt(FALSE))
    /\ Follows(EntryAt(FALSE), entry.tab, FALSE)
    /\ UNCHANGED entry
focusManualField ==
    /\ OnEntry /\ camera.mounted
    /\ Replaces(EntryAt(FALSE))
    /\ entry' = [entry EXCEPT !.tab = "enter"]
    /\ Follows(EntryAt(FALSE), "enter", FALSE)

selectTab_KeepsScan(tab) ==
    /\ OnEntry /\ tab # entry.tab
    /\ entry' = [entry EXCEPT !.tab = tab]
    /\ Replaces(Here)
    /\ Follows(Here, tab, FALSE)
selectTab(tab) ==
    /\ OnEntry /\ tab # entry.tab
    /\ entry' = [entry EXCEPT !.tab = tab]
    /\ Replaces(EntryAt(FALSE))
    /\ Follows(EntryAt(FALSE), tab, FALSE)

handleSubmit(n) == OnEntry /\ entry.tab = "enter" /\ Pushes(OutcomeOf(n, None), FALSE)

(* A file that is no PDF is refused and unsets the choice. *)
handleUploadFileChange(f) ==
    /\ OnEntry /\ entry.tab = "upload" /\ f # entry.file
    /\ entry' = [entry EXCEPT !.file = f]
    /\ UNCHANGED <<history, outcome, asks, camera, hidden>>
handleUploadSubmit(n) ==
    /\ OnEntry /\ entry.tab = "upload" /\ entry.file # None
    /\ Pushes(OutcomeOf(n, entry.file), FALSE)

-----------------------------------------------------------------------------
(* The camera. *)

(* A stream that is granted replaces the one streamRef holds; when play()  *)
(* is refused it is held all the same, and the camera called unavailable.  *)
Granted ==
    /\ \/ /\ camera.prompts > 0
          /\ \E refused \in BOOLEAN :
             camera' = [camera EXCEPT !.prompts = @ - 1, !.ref = TRUE, !.unavailable = refused,
                                      !.lost = IF camera.ref /\ @ < MaxAsked THEN @ + 1 ELSE @]
       \/ /\ camera.orphans > 0
          /\ camera' = [camera EXCEPT !.orphans = @ - 1, !.lost = IF @ < MaxAsked THEN @ + 1 ELSE @]
    /\ UNCHANGED <<history, entry, outcome, asks, hidden>>
Denied ==
    /\ \/ camera.prompts > 0
          /\ camera' = [camera EXCEPT !.prompts = @ - 1, !.unavailable = TRUE]
       \/ camera.orphans > 0
          /\ camera' = [camera EXCEPT !.orphans = @ - 1]
    /\ UNCHANGED <<history, entry, outcome, asks, hidden>>

(* tick finds a QR code of a verify link; the video is there only while    *)
(* the camera is not called unavailable.                                   *)
Decodes(n) ==
    /\ camera.mounted /\ camera.ref /\ ~camera.unavailable
    /\ Pushes(OutcomeOf(n, None), FALSE)

handleVisibility_StaysOn ==
    /\ hidden' = ~hidden
    /\ camera' = IF ~camera.mounted \/ ~hidden \/ camera.unavailable THEN camera
                 ELSE startStream(camera)
    /\ camera'.prompts + camera'.orphans <= MaxAsked
    /\ UNCHANGED <<history, entry, outcome, asks>>
handleVisibility ==
    /\ hidden' = ~hidden
    /\ camera' = IF ~camera.mounted THEN camera
                 ELSE IF ~hidden
                   THEN [stopStream(camera) EXCEPT !.cut = @ \/ camera.prompts > 0]
                 ELSE IF camera.unavailable THEN camera
                 ELSE startStream(camera)
    /\ camera'.prompts + camera'.orphans <= MaxAsked
    /\ UNCHANGED <<history, entry, outcome, asks>>

-----------------------------------------------------------------------------
(* The outcome page. *)

Panel == IF outcome.loading THEN "loading" ELSE IF outcome.error THEN "error"
         ELSE IF outcome.result # NoAsk THEN "result" ELSE "nothing"

(* No answer is cancelled. *)
Verified(k) ==
    /\ asks' = asks \ {k}
    /\ outcome' = [outcome EXCEPT !.result = k, !.loading = FALSE]
    /\ UNCHANGED <<history, entry, camera, hidden>>
VerifyFails_Silent(k) ==
    /\ asks' = asks \ {k}
    /\ outcome' = [outcome EXCEPT !.result = NoAsk, !.loading = FALSE]
    /\ UNCHANGED <<history, entry, camera, hidden>>
VerifyFails_StaysLoading(k) ==
    /\ asks' = asks \ {k}
    /\ outcome' = [outcome EXCEPT !.result = NoAsk, !.error = TRUE]
    /\ UNCHANGED <<history, entry, camera, hidden>>
VerifyFails(k) ==
    /\ asks' = asks \ {k}
    /\ outcome' = [outcome EXCEPT !.result = NoAsk, !.error = TRUE, !.loading = FALSE]
    /\ UNCHANGED <<history, entry, camera, hidden>>
TryAgain ==
    /\ ~hidden /\ Here.page = "outcome" /\ Panel = "error" /\ Cardinality(asks) < MaxAsked
    /\ outcome' = runVerify(outcome, outcome.run)
    /\ asks' = asks \cup {outcome.run}
    /\ UNCHANGED <<history, entry, camera, hidden>>
VerifyAnother == Here.page = "outcome" /\ Pushes(EntryAt(FALSE), FALSE)

-----------------------------------------------------------------------------

TabInit ==
    /\ history = [entries |-> <<EntryAt(FALSE)>>, pos |-> 1]
    /\ entry = NoEntry /\ outcome = NoOutcome /\ asks = {}
    /\ camera = NoCamera /\ hidden = FALSE

Answers(k) == Verified(k) \/ VerifyFails(k)
TabNext ==
    \/ Jumps \/ Reloads \/ VerifyAnother \/ TryAgain
    \/ openScanner \/ closeScanner \/ focusManualField
    \/ \E tab \in Tab : selectTab(tab)
    \/ \E n \in Number : handleSubmit(n) \/ handleUploadSubmit(n) \/ Decodes(n)
    \/ \E f \in File \cup {None} : handleUploadFileChange(f)
    \/ Granted \/ Denied \/ handleVisibility
    \/ \E k \in asks : Answers(k)

TabSpec == TabInit /\ [][TabNext]_tabVars

(* fetch answers or fails. *)
FairTabSpec == TabSpec /\ WF_tabVars(\E k \in asks : Answers(k))

-----------------------------------------------------------------------------

(* Types. *)
Ask == [number : Number, file : File \cup {None}]
TabTypeOK ==
    /\ history.pos \in 1..Len(history.entries) /\ Len(history.entries) <= MaxEntries
    /\ entry \in [tab : Tab, file : File \cup {None}]
    /\ asks \subseteq Ask /\ Cardinality(asks) <= MaxAsked
    /\ {outcome.result, outcome.run} \subseteq Ask \cup {NoAsk}
    /\ camera.prompts + camera.orphans \in 0..MaxAsked /\ camera.lost \in 0..MaxAsked
    /\ hidden \in BOOLEAN

(* What the page says it checked is what was checked: the number of its    *)
(* heading, and the uploaded file, tried again, reloaded or jumped away    *)
(* from any number of times - unless a request of another entry is still   *)
(* on its way, or the other entry has the same number.                     *)
ShownIsAsked ==
    Here.page = "outcome" /\ ~outcome.raced =>
        /\ outcome.run = [number |-> Here.number, file |-> Here.file]
        /\ Panel = "result" => outcome.result = outcome.run

(* However requests overlap, the page is never blank once one has come     *)
(* back, and while it loads one is still on its way.                       *)
NeverBlank ==
    Here.page = "outcome" => /\ Panel # "nothing"
                             /\ Panel = "loading" => asks # {}

(* The camera runs only in a scanner that is open and visible, unless it   *)
(* was closed, hidden or started twice while the browser was still asking  *)
(* for permission; and an address with ?scan=1 has its scanner open.       *)
CameraStops ==
    /\ camera.mounted <=> ScannerOn(Here, entry.tab)
    /\ Here.page = "entry" /\ Here.scan => entry.tab = "scan"
    /\ camera.ref => camera.mounted
    /\ ~camera.cut => camera.lost = 0 /\ ~(camera.ref /\ hidden)

(* A verification on the page comes to an end. *)
VerifyEnds == Here.page = "outcome" /\ outcome.loading ~> ~outcome.loading \/ Here.page # "outcome"

(* Together: the outcome page says what it checked, and always something.  *)
OutcomeIsHonest == TabTypeOK /\ ShownIsAsked /\ NeverBlank

(* Said by the code, and refuted: all media tracks are stopped on close,   *)
(* unmount and when the tab is hidden (QrScanner.jsx). *)
TracksStop == camera.lost = 0 /\ (camera.ref => camera.mounted /\ ~hidden)

(* Said by the code, and refuted: the camera is asked for only after a     *)
(* click, never on page load (QrScanner.jsx). *)
AskedByClick == camera.mounted => camera.clicked

(* Said by the page, and refuted: "Checked against your uploaded file"     *)
(* (VerifyOutcomePage.jsx). *)
CheckedIsChecked ==
    Here.page = "outcome" /\ Panel = "result" /\ Here.file # None
        => outcome.result.file = Here.file
=============================================================================
