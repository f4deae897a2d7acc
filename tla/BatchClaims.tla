---------------------------- MODULE BatchClaims ----------------------------
(***************************************************************************)
(* Sentences of the repository about batches that the code does not keep.  *)
(***************************************************************************)
EXTENDS BatchIssuance

(* 017_batch_issuance_resumability.sql:8: "completed rows are never
   reprocessed".  A driver goes by the rows it read when it started. *)
NeverReprocessed ==
  \A d \in Driver : At(d, "issue") => row[Current(d)] = "PENDING"

(* 017_batch_issuance_resumability.sql:18-20: a retry must check "so a crash
   at that exact moment can never double-issue".  The check goes by the
   enrolment number, while issue also finds a student by e-mail. *)
NeverDoubleIssues == \A i, j \in 1..Len(certs) : certs[i] = certs[j] => i = j

(* batchIssuanceService.js:173-175: a row "reflects real, ongoing progress
   instead of a false dead-end that would hide a certificate that's actually
   still on its way".  An error while saving the success ends in the same
   catch block without publicMeta. *)
NoFalseDeadEnd ==
  \A r \in Rows : row[r] = "FAILED" =>
    \A i \in 1..Len(certs) : certs[i] # r

(* batchIssuanceService.js:210: no pending row means "Every row already
   reached a terminal status".  It may also mean that insertRows never ran. *)
CompletedIsWhole ==
  job = "COMPLETED" => \A r \in Rows : row[r] \in {"SUCCEEDED", "FAILED"}

(* BatchIssuePage.jsx:150: "Each row becomes one certificate".  Two rows for
   the same student, title and date may end with the same one. *)
EachRowItsCertificate ==
  \A r, q \in Rows :
    row[r] = "SUCCEEDED" /\ row[q] = "SUCCEEDED" /\ link[r] = link[q] => r = q

(* BatchIssuePage.jsx:211: "{processedRows} of {totalRows} rows processed".
   A count that was made but whose answer was lost is made again. *)
ProcessedWithinTotal == processed <= NumRows
=============================================================================
