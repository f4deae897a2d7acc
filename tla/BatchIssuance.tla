--------------------------- MODULE BatchIssuance ---------------------------
(***************************************************************************)
(* A CSV upload: one job, one row per line, and the drivers that issue its *)
(* rows one after the other: the request that created the job, and every   *)
(* sweep of the worker that takes the job for stalled.  Each action is one *)
(* database statement or one leg of issuanceService.issue; a statement may *)
(* fail, with or without having been applied.  A name with a suffix is a   *)
(* plausible mistake, no part of the specification.                        *)
(***************************************************************************)
EXTENDS Naturals, Sequences, FiniteSets

CONSTANTS
  NumRows,    \* lines of the CSV
  Driver,     \* requests and sweeps that can be driving the job at once
  KeyOf,      \* the student, title and date of each row
  Valid,      \* rows that issuanceRequestSchema accepts
  ByEmail,    \* rows whose student is known by e-mail, but not under the
              \* row's enrolment number
  MaxCerts    \* certificates that can be created for the job

Rows == 1..NumRows

ASSUME BatchAssumption ==
  /\ NumRows \in Nat \ {0} /\ MaxCerts \in Nat
  /\ Valid \subseteq Rows /\ ByEmail \subseteq Rows
  /\ DOMAIN KeyOf = Rows

NoCert == 0

VARIABLES
  job,        \* batch_issuance_job.status, none before createJob
  processed,  \* processed_rows; past the total every count is alike
  row,        \* batch_issuance_row.status, none before insertRows
  started,    \* started_at is set
  link,       \* certificate_id, as a position in certs
  certs,      \* the certificates created for the job, by row, oldest first
  driver      \* the drivers

vars == <<job, processed, row, started, link, certs, driver>>

DriverPC == {"idle", "insert", "load", "row", "find", "issue", "issued",
             "save", "count", "fail", "link", "countLinked", "countFailed"}

DriverState == [pc : DriverPC, todo : SUBSET Rows, seen : SUBSET Rows,
                cert : 0..MaxCerts]

TypeOK ==
  /\ job \in {"none", "PENDING", "PROCESSING", "COMPLETED"}
  /\ processed \in 0..(NumRows + 1)
  /\ row \in [Rows -> {"none", "PENDING", "SUCCEEDED", "FAILED"}]
  /\ started \in [Rows -> BOOLEAN]
  /\ link \in [Rows -> 0..MaxCerts]
  /\ certs \in Seq(Rows) /\ Len(certs) <= MaxCerts
  /\ driver \in [Driver -> DriverState]

Idle == [pc |-> "idle", todo |-> {}, seen |-> {}, cert |-> NoCert]

Init ==
  /\ job = "none" /\ processed = 0
  /\ row = [r \in Rows |-> "none"]
  /\ started = [r \in Rows |-> FALSE]
  /\ link = [r \in Rows |-> NoCert]
  /\ certs = <<>>
  /\ driver = [d \in Driver |-> Idle]

-----------------------------------------------------------------------------
At(d, pc)     == driver[d].pc = pc
Goes(d, pc)   == driver' = [driver EXCEPT ![d].pc = pc]
Leaves(d)     == driver' = [driver EXCEPT ![d] = Idle]

(* The row a driver works on: the first of those it still has to do. *)
First(S)   == CHOOSE r \in S : \A q \in S : r <= q
Current(d) == First(driver[d].todo)

(* The driver has recorded and counted its row; on to the next. *)
RowFinished(d) ==
  driver' = [driver EXCEPT ![d].todo = @ \ {Current(d)}, ![d].pc = "row",
                           ![d].cert = NoCert]

(* An exception: the try block around issue catches it, elsewhere it ends the
   driver. *)
Throws(d) ==
  IF driver[d].pc \in {"issue", "issued", "save", "count"}
    THEN Goes(d, "fail") ELSE Leaves(d)

(* createBatch: the job and its rows are two statements. *)
CreateJob(d) ==
  /\ At(d, "idle") /\ job = "none"
  /\ job' = "PENDING"
  /\ Goes(d, "insert")
  /\ UNCHANGED <<processed, row, started, link, certs>>

InsertRows(d) ==
  /\ At(d, "insert")
  /\ row' = [r \in Rows |-> "PENDING"]
  /\ driver' = [driver EXCEPT ![d].pc = "row", ![d].todo = Rows]
  /\ UNCHANGED <<job, processed, started, link, certs>>

Resume_OnlyProcessing(d) ==
  /\ At(d, "idle")
  /\ job = "PROCESSING"
  /\ \A e \in Driver : ~At(e, "insert")
  /\ Goes(d, "load")
  /\ UNCHANGED <<processed, job, row, started, link, certs>>

(* findStalledJobs: a sweep takes the job for stalled.  It resumes the jobs it
   found one after the other, the next sweep starts a minute later whether or
   not it has ended, and both lists may hold the job; nor does a row that
   takes longer than the threshold mean that its driver is dead.  Only the two
   statements of createBatch are sure to be closer than the threshold. *)
Resume(d) ==
  /\ At(d, "idle")
  /\ job \in {"PENDING", "PROCESSING"}
  /\ \A e \in Driver : ~At(e, "insert")
  /\ Goes(d, "load")
  /\ UNCHANGED <<job, processed, row, started, link, certs>>

LoadRows_OnlyStarted(d) ==
  LET pending == {r \in Rows : row[r] = "PENDING" /\ started[r]} IN
  /\ At(d, "load")
  /\ driver' = [driver EXCEPT ![d].pc = "row", ![d].todo = pending,
                              ![d].seen = pending]
  /\ UNCHANGED <<job, processed, row, started, link, certs>>

(* findPendingRowsByJobId: the rows as they are now. *)
LoadRows(d) ==
  LET pending == {r \in Rows : row[r] = "PENDING"} IN
  /\ At(d, "load")
  /\ driver' = [driver EXCEPT ![d].pc = "row", ![d].todo = pending,
                              ![d].seen = {r \in pending : started[r]}]
  /\ UNCHANGED <<job, processed, row, started, link, certs>>

(* processRow: markRowStarted; a row that had been started when it was read
   is an interrupted attempt. *)
StartRow(d) ==
  LET r == Current(d) IN
  /\ At(d, "row") /\ driver[d].todo # {} /\ r \in Valid
  /\ started' = [started EXCEPT ![r] = TRUE]
  /\ Goes(d, IF r \in driver[d].seen THEN "find" ELSE "issue")
  /\ UNCHANGED <<job, processed, row, link, certs>>

(* The certificates findExistingCertificateForRow can find for a row. *)
Existing_AnyKey(r) == IF r \in ByEmail THEN {} ELSE 1..Len(certs)
Existing(r) ==
  IF r \in ByEmail THEN {}
  ELSE {i \in 1..Len(certs) : KeyOf[certs[i]] = KeyOf[r]}

FindExisting_Never(d) ==
  /\ At(d, "find")
  /\ Goes(d, "issue")
  /\ UNCHANGED <<job, processed, row, started, link, certs>>

(* The most recent one is linked to the row instead of issuing again. *)
FindExisting(d) ==
  LET found == Existing(Current(d)) IN
  /\ At(d, "find")
  /\ IF found = {} THEN Goes(d, "issue")
     ELSE \E i \in found :
            /\ \A j \in found : j <= i
            /\ driver' = [driver EXCEPT ![d].pc = "link", ![d].cert = i]
  /\ UNCHANGED <<job, processed, row, started, link, certs>>

(* issuanceService.issue inserts the certificate ... *)
IssueCreates(d) ==
  /\ At(d, "issue") /\ Len(certs) < MaxCerts
  /\ certs' = Append(certs, Current(d))
  /\ driver' = [driver EXCEPT ![d].pc = "issued", ![d].cert = Len(certs) + 1]
  /\ UNCHANGED <<job, processed, row, started, link>>

(* ... and returns, or throws with publicMeta, or throws without it. *)
IssueReturns(d) ==
  /\ At(d, "issued")
  /\ Goes(d, "save") \/ Goes(d, "link") \/ Throws(d)
  /\ UNCHANGED <<job, processed, row, started, link, certs>>

(* It throws before any certificate exists. *)
IssueRefuses(d) ==
  /\ At(d, "issue")
  /\ Throws(d)
  /\ UNCHANGED <<job, processed, row, started, link, certs>>

(* markRowDone: an UPDATE whatever the row's status. *)
MarkRowDone(r, st, c) ==
  /\ row' = [row EXCEPT ![r] = st]
  /\ link' = [link EXCEPT ![r] = c]

SaveSucceeded_OtherCertificate(d) ==
  /\ driver[d].pc \in {"save", "link"}
  /\ MarkRowDone(Current(d), "SUCCEEDED", Len(certs))
  /\ Goes(d, IF At(d, "save") THEN "count" ELSE "countLinked")
  /\ UNCHANGED <<job, processed, started, certs>>

SaveSucceeded(d) ==
  /\ driver[d].pc \in {"save", "link"}
  /\ \/ /\ MarkRowDone(Current(d), "SUCCEEDED", driver[d].cert)
        /\ Goes(d, IF At(d, "save") THEN "count" ELSE "countLinked")
           \/ Throws(d)
     \/ Throws(d) /\ UNCHANGED <<row, link>>
  /\ UNCHANGED <<job, processed, started, certs>>

SaveFailed_Skipped(d) ==
  /\ \/ At(d, "fail")
     \/ At(d, "row") /\ driver[d].todo # {} /\ Current(d) \notin Valid
  /\ MarkRowDone(Current(d), "SKIPPED", NoCert)
  /\ Goes(d, "countFailed")
  /\ UNCHANGED <<job, processed, started, certs>>

(* A row that is invalid, or whose issue threw. *)
SaveFailed(d) ==
  /\ \/ At(d, "fail")
     \/ At(d, "row") /\ driver[d].todo # {} /\ Current(d) \notin Valid
  /\ \/ /\ MarkRowDone(Current(d), "FAILED", NoCert)
        /\ Goes(d, "countFailed") \/ Leaves(d)
     \/ Leaves(d) /\ UNCHANGED <<row, link>>
  /\ UNCHANGED <<job, processed, started, certs>>

(* incrementProgress: one UPDATE, which also sets PROCESSING. *)
Count(d) ==
  /\ driver[d].pc \in {"count", "countLinked", "countFailed"}
  /\ \/ /\ processed' = IF processed > NumRows THEN processed ELSE processed + 1
        /\ job' = "PROCESSING"
        /\ RowFinished(d) \/ Throws(d)
     \/ Throws(d) /\ UNCHANGED <<processed, job>>
  /\ UNCHANGED <<row, started, link, certs>>

(* markJobCompleted. *)
Complete(d) ==
  /\ At(d, "row") /\ driver[d].todo = {}
  /\ job' = "COMPLETED"
  /\ Leaves(d)
  /\ UNCHANGED <<processed, row, started, link, certs>>

(* The process of the driver ends, or a statement fails elsewhere. *)
Dies(d) ==
  /\ ~At(d, "idle")
  /\ Leaves(d)
  /\ UNCHANGED <<job, processed, row, started, link, certs>>

Step(d) ==
  \/ CreateJob(d) \/ InsertRows(d) \/ LoadRows(d)
  \/ StartRow(d) \/ FindExisting(d) \/ IssueCreates(d) \/ IssueReturns(d)
  \/ IssueRefuses(d) \/ SaveSucceeded(d) \/ SaveFailed(d) \/ Count(d)
  \/ Complete(d)

Next == \E d \in Driver : Step(d) \/ Resume(d) \/ Dies(d)

Spec == Init /\ [][Next]_vars

(* The worker sweeps for ever (batchReconciler.js:34-42), and no statement or
   call always fails or is always cut short by the end of its process: each
   is completed in the end if it is tried again and again.  Nobody tries
   insertRows again. *)
GoesOn(d, A) == A /\ driver'[d].pc # "idle"

Fairness ==
  \A d \in Driver :
    /\ WF_vars(InsertRows(d) \/ (At(d, "insert") /\ Dies(d)))
    /\ SF_vars(Resume(d))
    /\ SF_vars(LoadRows(d))
    /\ SF_vars(StartRow(d))
    /\ SF_vars(FindExisting(d))
    /\ SF_vars(IssueCreates(d) \/ GoesOn(d, IssueRefuses(d)))
    /\ SF_vars(GoesOn(d, IssueReturns(d)))
    /\ SF_vars(GoesOn(d, SaveSucceeded(d) \/ SaveFailed(d)))
    /\ SF_vars(Count(d) /\ RowFinished(d))
    /\ SF_vars(Complete(d))

FairSpec == Spec /\ Fairness

-----------------------------------------------------------------------------
(* A job that is COMPLETED has no row left to do, whichever driver completed
   it and whoever else is working on it: markJobCompleted runs after a loop
   over the rows that were pending when the driver read them. *)
CompletedHasNoPending ==
  job = "COMPLETED" => \A r \in Rows : row[r] # "PENDING"

(* The certificate a row shows is one for the row's own student, title and
   date, even when it was found by a retry or saved by a second driver. *)
LinkedIsOwn ==
  \A r \in Rows : row[r] = "SUCCEEDED" =>
    /\ link[r] \in 1..Len(certs)
    /\ KeyOf[certs[link[r]]] = KeyOf[r]

(* A row whose student is known under its enrolment number gets at most one
   certificate.  With one driver at a time a crash between any two
   statements does not break it: this is what started_at and
   findExistingCertificateForRow are for. *)
IssuedOnce ==
  \A i, j \in 1..Len(certs) :
    certs[i] = certs[j] /\ certs[i] \notin ByEmail => i = j

(* A job that exists is completed in the end, however often its drivers
   end. *)
JobEnds == job \in {"PENDING", "PROCESSING"} ~> job = "COMPLETED"
=============================================================================
