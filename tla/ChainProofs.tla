---------------------------- MODULE ChainProofs ----------------------------
(***************************************************************************)
(* Proofs about what is written to the chain and read from it, for any     *)
(* accounts, hashes, chain, windows, refusals, processes, writes, restarts *)
(* and bounds.                                                             *)
(*                                                                         *)
(* The contract alone: its counter, its log and its records agree, only    *)
(* issuers write, and a record is written once.                            *)
(*                                                                         *)
(* The listener over it: what it writes, handles and skips is right, and   *)
(* it settles a row only on an event that is deep enough.                  *)
(*                                                                         *)
(* The adapters that write to it: the nonces of a process, however many    *)
(* processes share the account.                                            *)
(***************************************************************************)
EXTENDS ChainWriter, EventReplay, FiniteSetTheorems, TLAPS

(* LogTellsRecords, for one hash. *)
Tells(h) ==
  LET anchors == Entries("CertificateAnchored", h)
      revokes == Entries("CertificateRevoked", h) IN
  /\ records[h].exists <=> anchors # {}
  /\ records[h].revoked <=> revokes # {}
  /\ \A i, j \in anchors : i = j
  /\ \A i, j \in revokes : i = j
  /\ \A i \in anchors : /\ log[i].block = records[h].issuedAt
                        /\ log[i].by = records[h].issuer
  /\ \A i \in revokes : log[i].block = records[h].revokedAt
  /\ \A i \in anchors, j \in revokes : i < j

(* The last word of the log before entry i makes the account an issuer. *)
IsLast(account, i, j) ==
  /\ j \in Standing(account, i)
  /\ log[j].event = "IssuerRegistered"
  /\ \A k \in Standing(account, i) : k <= j
RegisteredBefore(account, i) == \E j \in Nat : IsLast(account, i, j)

(* ActedAsIssuer speaks of the past.  It holds because an account that is an
   issuer now is one by the last word of the log. *)
IssuersByLog == \A a \in issuers : RegisteredBefore(a, Len(log) + 1)
RevokedExist == \A h \in Hash : records[h].revoked => records[h].exists
Acted(i) ==
  log[i].event \in {"CertificateAnchored", "CertificateRevoked"}
    => RegisteredBefore(log[i].by, i)

IInv ==
  /\ RegistryTypeOK /\ CountsAnchored /\ RevokedExist /\ IssuersByLog
  /\ \A h \in Hash : Tells(h)
  /\ \A i \in DOMAIN log : Acted(i)

LEMMA InvImplies == IInv => RegistryHonest
<1> SUFFICES ASSUME IInv PROVE LogTellsRecords /\ ActedAsIssuer
  BY DEF IInv, RegistryHonest
<1>1. LogTellsRecords
  BY DEF IInv, Tells, LogTellsRecords
<1>2. ActedAsIssuer
  BY DEF IInv, Acted, RegisteredBefore, IsLast, ActedAsIssuer
<1> QED
  BY <1>1, <1>2

LEMMA Initially == RegistryInit => IInv
<1> SUFFICES ASSUME RegistryInit PROVE IInv
  OBVIOUS
<1>1. RegistryTypeOK
  BY RegistryAssumption DEF RegistryInit, RegistryTypeOK, NoRecord, Record
<1>2. CountsAnchored
  <2>1. Anchored = {}
    BY DEF RegistryInit, NoRecord, Anchored
  <2> QED
    BY <2>1, FS_EmptySet DEF RegistryInit, CountsAnchored
<1>3. RevokedExist /\ IssuersByLog /\ \A i \in DOMAIN log : Acted(i)
  BY DEF RegistryInit, NoRecord, RevokedExist, IssuersByLog
<1>4. \A h \in Hash : Tells(h)
  BY DEF RegistryInit, NoRecord, Tells, Entries
<1> QED
  BY <1>1, <1>2, <1>3, <1>4 DEF IInv

-----------------------------------------------------------------------------
(* What one more entry does to the log. *)
Logs(e) == e \in Event /\ log' = Append(log, e)

LEMMA Appended ==
  ASSUME RegistryTypeOK, NEW e, Logs(e)
  PROVE  /\ log' \in Seq(Event) /\ Len(log) \in Nat /\ Len(log') = Len(log) + 1
         /\ DOMAIN log = 1..Len(log) /\ DOMAIN log' = 1..(Len(log) + 1)
         /\ \A i \in 1..Len(log) : log'[i] = log[i]
         /\ log'[Len(log) + 1] = e
BY DEF RegistryTypeOK, Logs

(* An entry is found where it was, and the new one in the last place. *)
LEMMA EntriesMove ==
  ASSUME RegistryTypeOK, NEW e, Logs(e), NEW kind, NEW h
  PROVE  \A i : i \in Entries(kind, h)' <=>
           \/ i \in Entries(kind, h)
           \/ i = Len(log) + 1 /\ e.event = kind /\ e.hash = h
BY Appended DEF Entries

LEMMA EntriesPlace ==
  ASSUME RegistryTypeOK, NEW kind, NEW h
  PROVE  Entries(kind, h) \subseteq 1..Len(log) /\ Len(log) \in Nat
BY DEF Entries, RegistryTypeOK

LEMMA StandingMove ==
  ASSUME RegistryTypeOK, NEW e, Logs(e), NEW a, NEW n, n = Len(log)
  PROVE  /\ \A i \in 1..(n + 1) : Standing(a, i)' = Standing(a, i)
         /\ \A j : j \in Standing(a, n + 2)' <=>
              \/ j \in Standing(a, n + 1)
              \/ /\ j = n + 1 /\ e.account = a
                 /\ e.event \in {"IssuerRegistered", "IssuerDeregistered"}
<1>1. n \in Nat /\ log'[n + 1] = e /\ \A i \in 1..n : log'[i] = log[i]
  BY Appended
<1>2. ASSUME NEW i \in 1..(n + 1) PROVE Standing(a, i)' = Standing(a, i)
  <2>1. \A j \in 1..(i - 1) : j \in 1..n
    BY <1>1
  <2> QED
    BY <1>1, <2>1 DEF Standing
<1>3. 1..((n + 2) - 1) = 1..((n + 1) - 1) \cup {n + 1} /\ (n + 1) - 1 = n
  BY <1>1
<1> QED
  BY <1>1, <1>2, <1>3 DEF Standing

(* The log only grows, so what was so before an entry stays so. *)
LEMMA BeforeStays ==
  ASSUME RegistryTypeOK, NEW e, Logs(e), NEW a, NEW i \in 1..(Len(log) + 1),
         RegisteredBefore(a, i)
  PROVE  RegisteredBefore(a, i)'
<1>1. PICK j \in Nat : IsLast(a, i, j)
  BY DEF RegisteredBefore
<1>2. Standing(a, i)' = Standing(a, i)
  BY StandingMove
<1>3. j \in 1..Len(log)
  BY <1>1, Appended DEF IsLast, Standing
<1>4. IsLast(a, i, j)'
  BY <1>1, <1>2, <1>3, Appended DEF IsLast
<1> QED
  BY <1>4 DEF RegisteredBefore

(* A certificate's entry leaves every account what it was, and its sender
   must have been an issuer. *)
LEMMA CertificateEntry ==
  ASSUME IInv, NEW e, Logs(e), e.event \in {"CertificateAnchored", "CertificateRevoked"},
         e.by \in issuers, issuers' = issuers
  PROVE  IssuersByLog' /\ \A i \in DOMAIN log' : Acted(i)'
<1>1. PICK n \in Nat : n = Len(log)
  BY Appended DEF IInv
<1>2. ASSUME NEW a \in issuers PROVE RegisteredBefore(a, n + 2)'
  <2>1. PICK j \in Nat : IsLast(a, n + 1, j)
    BY <1>1 DEF IInv, IssuersByLog, RegisteredBefore
  <2>2. \A k : k \in Standing(a, n + 2)' <=> k \in Standing(a, n + 1)
    BY <1>1, StandingMove DEF IInv
  <2>3. j \in 1..n
    BY <1>1, <2>1 DEF IsLast, Standing
  <2>4. IsLast(a, n + 2, j)'
    BY <1>1, <2>1, <2>2, <2>3, Appended DEF IsLast, IInv
  <2> QED
    BY <2>4 DEF RegisteredBefore
<1>3. IssuersByLog'
  <2>1. Len(log') + 1 = n + 2
    BY <1>1, Appended DEF IInv
  <2> QED
    BY <1>2, <2>1 DEF IssuersByLog
<1>4. ASSUME NEW i \in 1..(n + 1) PROVE Acted(i)'
  <2>1. CASE i \in 1..n
    <3>1. Acted(i) /\ log'[i] = log[i]
      BY <1>1, <2>1, Appended DEF IInv
    <3> QED
      BY <1>1, <3>1, BeforeStays DEF Acted, IInv
  <2>2. CASE i = n + 1
    <3>1. RegisteredBefore(e.by, i) /\ log'[i] = e
      BY <1>1, <2>2, Appended DEF IssuersByLog, IInv
    <3> QED
      BY <1>1, <3>1, BeforeStays DEF Acted, IInv
  <2> QED
    BY <1>1, <2>1, <2>2
<1> QED
  BY <1>1, <1>3, <1>4, Appended DEF IInv

(* An issuer's entry settles what its account is from now on. *)
LEMMA IssuerEntry ==
  ASSUME IInv, NEW e, Logs(e), e.event \in {"IssuerRegistered", "IssuerDeregistered"},
         issuers' = IF e.event = "IssuerRegistered" THEN issuers \cup {e.account}
                    ELSE issuers \ {e.account}
  PROVE  IssuersByLog' /\ \A i \in DOMAIN log' : Acted(i)'
<1>1. PICK n \in Nat : n = Len(log)
  BY Appended DEF IInv
<1>2. \A a : \A k \in Standing(a, n + 1) : k <= n + 1
  BY <1>1 DEF Standing
<1>3. log'[n + 1] = e /\ \A i \in 1..n : log'[i] = log[i]
  BY <1>1, Appended DEF IInv
<1>4. ASSUME NEW a \in issuers' PROVE RegisteredBefore(a, n + 2)'
  <2>1. CASE a = e.account
    <3>1. e.event = "IssuerRegistered"
      BY <2>1
    <3>2. Standing(a, n + 2)' = Standing(a, n + 1) \cup {n + 1}
      BY <1>1, <2>1, StandingMove DEF IInv
    <3>3. IsLast(a, n + 2, n + 1)'
      BY <1>2, <1>3, <3>1, <3>2 DEF IsLast
    <3> QED
      BY <3>3 DEF RegisteredBefore
  <2>2. CASE a # e.account
    <3>1. a \in issuers
      BY <2>2
    <3>2. PICK j \in Nat : IsLast(a, n + 1, j)
      BY <1>1, <3>1 DEF IInv, IssuersByLog, RegisteredBefore
    <3>3. \A k : k \in Standing(a, n + 2)' <=> k \in Standing(a, n + 1)
      BY <1>1, <2>2, StandingMove DEF IInv
    <3>4. j \in 1..n
      BY <1>1, <3>2 DEF IsLast, Standing
    <3>5. IsLast(a, n + 2, j)'
      BY <1>3, <3>2, <3>3, <3>4 DEF IsLast
    <3> QED
      BY <3>5 DEF RegisteredBefore
  <2> QED
    BY <2>1, <2>2
<1>5. IssuersByLog'
  <2>1. Len(log') + 1 = n + 2
    BY <1>1, Appended DEF IInv
  <2> QED
    BY <1>4, <2>1 DEF IssuersByLog
<1>6. ASSUME NEW i \in 1..(n + 1) PROVE Acted(i)'
  <2>1. CASE i \in 1..n
    <3>1. Acted(i) /\ log'[i] = log[i]
      BY <1>1, <2>1, Appended DEF IInv
    <3> QED
      BY <1>1, <3>1, BeforeStays DEF Acted, IInv
  <2>2. CASE i = n + 1
    BY <1>3, <2>2 DEF Acted
  <2> QED
    BY <1>1, <2>1, <2>2
<1> QED
  BY <1>1, <1>5, <1>6, Appended DEF IInv

(* The hashes of which nothing is written read in the log as before. *)
LEMMA OthersTell ==
  ASSUME IInv, NEW e, Logs(e), NEW h \in Hash, records'[h] = records[h],
         e.event \in {"CertificateAnchored", "CertificateRevoked"} => e.hash # h
  PROVE  Tells(h)'
<1>1. ASSUME NEW kind \in {"CertificateAnchored", "CertificateRevoked"}
      PROVE  Entries(kind, h)' = Entries(kind, h)
  <2>1. e.event = kind => e.hash # h
    OBVIOUS
  <2>2. \A i : i \in Entries(kind, h)' <=> i \in Entries(kind, h)
    BY <2>1, EntriesMove DEF IInv
  <2> QED
    BY <2>2, Zenon
<1>2. /\ \A i \in Entries("CertificateAnchored", h) : log'[i] = log[i]
      /\ \A i \in Entries("CertificateRevoked", h) : log'[i] = log[i]
  BY Appended, EntriesPlace DEF IInv
<1>3. Tells(h)
  BY DEF IInv
<1> QED
  BY <1>1, <1>2, <1>3 DEF Tells

(* The contract counts the certificates that exist. *)
LEMMA AnchoredFinite == Anchored \in SUBSET Hash /\ IsFiniteSet(Anchored)
  BY FS_Subset, RegistryAssumption DEF Anchored

-----------------------------------------------------------------------------
LEMMA AnchorKeeps ==
  ASSUME IInv, NEW s \in Account, NEW h \in Hash, anchorCertificate(s, h)
  PROVE  IInv'
<1> DEFINE e == [event |-> "CertificateAnchored", hash |-> h, by |-> s, block |-> height]
           r == [issuer |-> s, issuedAt |-> height, revokedAt |-> 0,
                 exists |-> TRUE, revoked |-> FALSE]
<1>1. e \in Event /\ r \in Record
  BY DEF Event, Record, IInv, RegistryTypeOK
<1>2. Logs(e)
  BY <1>1 DEF Logs, anchorCertificate
<1>3. records' = [records EXCEPT ![h] = r]
  BY DEF anchorCertificate
<1>4. records'[h] = r /\ \A g \in Hash : g # h => records'[g] = records[g]
  BY <1>3 DEF IInv, RegistryTypeOK
<1>5. /\ e.event = "CertificateAnchored" /\ e.hash = h /\ e.by = s /\ e.block = height
      /\ r.issuer = s /\ r.issuedAt = height /\ r.exists /\ ~r.revoked
  OBVIOUS
<1> HIDE DEF e, r
<1>6. RegistryTypeOK'
  <2>1. records' \in [Hash -> Record] /\ log' \in Seq(Event)
    BY <1>1, <1>2, <1>3, Appended DEF IInv, RegistryTypeOK
  <2> QED
    BY <2>1 DEF IInv, RegistryTypeOK, anchorCertificate
<1>7. CountsAnchored'
  <2>1. Anchored' = Anchored \cup {h} /\ h \notin Anchored
    BY <1>4, <1>5 DEF Anchored, anchorCertificate
  <2> QED
    BY <2>1, AnchoredFinite, FS_AddElement
       DEF CountsAnchored, IInv, anchorCertificate
<1>8. RevokedExist'
  BY <1>4, <1>5 DEF RevokedExist, IInv
<1>9. IssuersByLog' /\ \A i \in DOMAIN log' : Acted(i)'
  BY <1>2, <1>5, CertificateEntry DEF anchorCertificate, onlyIssuer
<1>10. ASSUME NEW g \in Hash PROVE Tells(g)'
  <2>1. CASE g # h
    BY <1>2, <1>4, <1>5, <2>1, OthersTell
  <2>2. CASE g = h
    <3>1. PICK n \in Nat : n = Len(log)
      BY Appended, <1>2 DEF IInv
    <3>2. ~records[h].exists /\ ~records[h].revoked
      BY DEF anchorCertificate, IInv, RevokedExist
    <3>3. Entries("CertificateAnchored", h) = {} /\ Entries("CertificateRevoked", h) = {}
      BY <3>2 DEF IInv, Tells
    <3>4. \A i : /\ i \in Entries("CertificateAnchored", h)' <=> i = n + 1
                 /\ i \notin Entries("CertificateRevoked", h)'
      BY <1>2, <1>5, <3>1, <3>3, EntriesMove DEF IInv
    <3>5. log'[n + 1] = e
      BY <1>2, <3>1, Appended DEF IInv
    <3> QED
      BY <1>4, <1>5, <2>2, <3>4, <3>5 DEF Tells
  <2> QED
    BY <2>1, <2>2
<1> QED
  BY <1>6, <1>7, <1>8, <1>9, <1>10 DEF IInv

LEMMA RevokeKeeps ==
  ASSUME IInv, NEW s \in Account, NEW h \in Hash, revokeCertificate(s, h)
  PROVE  IInv'
<1> DEFINE e == [event |-> "CertificateRevoked", hash |-> h, by |-> s, block |-> height]
           r == [records[h] EXCEPT !.revoked = TRUE, !.revokedAt = height]
<1>1. e \in Event /\ r \in Record
  <2>1. records[h] \in Record /\ height \in Nat
    BY DEF IInv, RegistryTypeOK
  <2>2. r \in Record
    BY <2>1 DEF Record
  <2> QED
    BY <2>1, <2>2 DEF Event
<1>2. Logs(e)
  BY <1>1 DEF Logs, revokeCertificate
<1>3. records' = [records EXCEPT ![h] = r]
  BY DEF revokeCertificate, IInv, RegistryTypeOK
<1>4. records'[h] = r /\ \A g \in Hash : g # h => records'[g] = records[g]
  BY <1>3 DEF IInv, RegistryTypeOK
<1>5. /\ e.event = "CertificateRevoked" /\ e.hash = h /\ e.by = s /\ e.block = height
      /\ r.issuer = records[h].issuer /\ r.issuedAt = records[h].issuedAt
      /\ r.exists = records[h].exists /\ r.revoked /\ r.revokedAt = height
  BY DEF IInv, RegistryTypeOK, Record
<1> HIDE DEF e, r
<1>6. RegistryTypeOK'
  <2>1. records' \in [Hash -> Record] /\ log' \in Seq(Event)
    BY <1>1, <1>2, <1>3, Appended DEF IInv, RegistryTypeOK
  <2> QED
    BY <2>1 DEF IInv, RegistryTypeOK, revokeCertificate
<1>7. CountsAnchored'
  <2>1. Anchored' = Anchored
    BY <1>4, <1>5 DEF Anchored
  <2> QED
    BY <2>1 DEF CountsAnchored, IInv, revokeCertificate
<1>8. RevokedExist'
  BY <1>4, <1>5 DEF RevokedExist, IInv, revokeCertificate
<1>9. IssuersByLog' /\ \A i \in DOMAIN log' : Acted(i)'
  BY <1>2, <1>5, CertificateEntry DEF revokeCertificate, onlyIssuer
<1>10. ASSUME NEW g \in Hash PROVE Tells(g)'
  <2>1. CASE g # h
    BY <1>2, <1>4, <1>5, <2>1, OthersTell
  <2>2. CASE g = h
    <3>1. PICK n \in Nat : n = Len(log)
      BY Appended, <1>2 DEF IInv
    <3>2. records[h].exists /\ ~records[h].revoked /\ Tells(h)
      BY DEF revokeCertificate, IInv
    <3>3. Entries("CertificateRevoked", h) = {}
      BY <3>2 DEF Tells
    <3>4. \A i : /\ i \in Entries("CertificateAnchored", h)' <=>
                      i \in Entries("CertificateAnchored", h)
                 /\ i \in Entries("CertificateRevoked", h)' <=> i = n + 1
      BY <1>2, <1>5, <3>1, <3>3, EntriesMove DEF IInv
    <3>5. log'[n + 1] = e
      BY <1>2, <3>1, Appended DEF IInv
    <3>6. \A i \in Entries("CertificateAnchored", h) : i \in 1..n /\ log'[i] = log[i]
      BY <1>2, <3>1, Appended, EntriesPlace DEF IInv
    <3>7. Entries("CertificateAnchored", h)' = Entries("CertificateAnchored", h)
      BY <3>4, Zenon
    <3>8. Entries("CertificateRevoked", h)' = {n + 1}
      BY <3>4
    <3>9. PICK A : A = Entries("CertificateAnchored", h)
      OBVIOUS
    <3>10. /\ records[h].exists <=> A # {}
           /\ \A i, j \in A : i = j
           /\ \A i \in A : /\ log[i].block = records[h].issuedAt
                            /\ log[i].by = records[h].issuer
      BY <3>2, <3>9 DEF Tells
    <3>11. /\ \A i \in A : i \in 1..n /\ log'[i] = log[i]
           /\ Entries("CertificateAnchored", h)' = A
      BY <3>6, <3>7, <3>9
    <3>12. /\ records'[h].exists <=> A # {}
           /\ \A i \in A : /\ log'[i].block = records'[h].issuedAt
                            /\ log'[i].by = records'[h].issuer
      BY <1>4, <1>5, <3>10, <3>11
    <3>13. records'[h].revoked /\ log'[n + 1].block = records'[h].revokedAt
      BY <1>4, <1>5, <3>5
    <3>14. \A i \in A : i < n + 1
      BY <3>1, <3>11
    <3>15. Tells(h)'
      BY <3>8, <3>10, <3>11, <3>12, <3>13, <3>14 DEF Tells
    <3> QED
      BY <2>2, <3>15
  <2> QED
    BY <2>1, <2>2
<1> QED
  BY <1>6, <1>7, <1>8, <1>9, <1>10 DEF IInv

(* Registration and its end, by the owner or by deploy.js. *)
LEMMA IssuersKeep ==
  ASSUME IInv, NEW a \in Account \cup {NoAccount},
         NEW kind \in {"IssuerRegistered", "IssuerDeregistered"},
         log' = Append(log, [event |-> kind, account |-> a, block |-> height]),
         kind = "IssuerRegistered" => a # NoAccount,
         issuers' = IF kind = "IssuerRegistered" THEN issuers \cup {a} ELSE issuers \ {a},
         UNCHANGED <<records, totalAnchored, height>>,
         deployment' \in {"none", "deployed", "registered", "recorded"}
  PROVE  IInv'
<1> DEFINE e == [event |-> kind, account |-> a, block |-> height]
<1>1. e \in Event /\ e.event = kind /\ e.account = a
  BY DEF Event, IInv, RegistryTypeOK
<1>2. Logs(e)
  BY <1>1 DEF Logs
<1> HIDE DEF e
<1>3. RegistryTypeOK'
  BY <1>1, <1>2, Appended DEF IInv, RegistryTypeOK
<1>4. CountsAnchored' /\ RevokedExist'
  BY DEF IInv, CountsAnchored, Anchored, RevokedExist
<1>5. IssuersByLog' /\ \A i \in DOMAIN log' : Acted(i)'
  BY <1>1, <1>2, IssuerEntry
<1>6. \A h \in Hash : Tells(h)'
  BY <1>1, <1>2, OthersTell
<1> QED
  BY <1>3, <1>4, <1>5, <1>6 DEF IInv

(* The steps that leave the log and the records alone. *)
LEMMA QuietKeeps ==
  ASSUME IInv, UNCHANGED <<issuers, records, totalAnchored, log>>,
         deployment' \in {"none", "deployed", "registered", "recorded"},
         height' \in 0..MaxBlock
  PROVE  IInv'
BY DEF IInv, RegistryTypeOK, CountsAnchored, Anchored, RevokedExist, IssuersByLog,
       RegisteredBefore, IsLast, Standing, Tells, Entries, Acted

-----------------------------------------------------------------------------
LEMMA NextKeeps == IInv /\ [RegistryNext]_registryVars => IInv'
<1> SUFFICES ASSUME IInv, [RegistryNext]_registryVars PROVE IInv'
  OBVIOUS
<1>1. CASE Deploy \/ WriteDeployment \/ SealBlock \/ UNCHANGED registryVars
  BY <1>1, QuietKeeps, RegistryAssumption
     DEF Deploy, WriteDeployment, SealBlock, registryVars, IInv, RegistryTypeOK
<1>2. CASE RegisterCustodian
  BY <1>2, IssuersKeep, RegistryAssumption DEF RegisterCustodian
<1>3. ASSUME NEW s \in Account, NEW a \in Account \cup {NoAccount},
             registerIssuer(s, a) \/ deregisterIssuer(s, a)
      PROVE  IInv'
  BY <1>3, IssuersKeep DEF registerIssuer, deregisterIssuer, IInv, RegistryTypeOK
<1> QED
  BY <1>1, <1>2, <1>3, AnchorKeeps, RevokeKeeps DEF RegistryNext

(* In every reachable state of the contract its counter, its records and its
   log agree, and whoever wrote was an issuer by the log. *)
THEOREM RegistryInvariance == RegistrySpec => []RegistryHonest
<1>1. RegistrySpec => []IInv
  BY Initially, NextKeeps, PTL DEF RegistrySpec
<1> QED
  BY <1>1, InvImplies, PTL

(* What every step keeps of the records. *)
Kept ==
  \A h \in Hash :
     /\ records[h].exists =>
           /\ records'[h].exists
           /\ records'[h].issuer = records[h].issuer
           /\ records'[h].issuedAt = records[h].issuedAt
     /\ records[h].revoked => records'[h] = records[h]

LEMMA StepsKeepRecords == IInv /\ [RegistryNext]_registryVars => Kept
<1> SUFFICES ASSUME IInv, [RegistryNext]_registryVars, NEW h \in Hash
             PROVE  /\ records[h].exists =>
                          /\ records'[h].exists
                          /\ records'[h].issuer = records[h].issuer
                          /\ records'[h].issuedAt = records[h].issuedAt
                    /\ records[h].revoked => records'[h] = records[h]
  BY DEF Kept
<1>1. CASE records' = records
  BY <1>1
<1>2. ASSUME NEW s \in Account, NEW g \in Hash, anchorCertificate(s, g)
      PROVE  records[h].exists \/ records[h].revoked => records'[h] = records[h]
  BY <1>2 DEF anchorCertificate, IInv, RegistryTypeOK, RevokedExist
<1>3. ASSUME NEW s \in Account, NEW g \in Hash, revokeCertificate(s, g)
      PROVE  /\ records[h].revoked => records'[h] = records[h]
             /\ records'[h].exists = records[h].exists
             /\ records'[h].issuer = records[h].issuer
             /\ records'[h].issuedAt = records[h].issuedAt
  BY <1>3 DEF revokeCertificate, IInv, RegistryTypeOK, Record
<1> QED
  BY <1>1, <1>2, <1>3 DEF RegistryNext, Deploy, RegisterCustodian, WriteDeployment,
     SealBlock, registerIssuer, deregisterIssuer, registryVars

(* A record is written once and revoked once: no later transaction of anybody
   changes who anchored it, when, or that it was revoked. *)
THEOREM RecordedForGood == RegistrySpec => RecordsAreKept
<1>1. RegistrySpec => []IInv
  BY Initially, NextKeeps, PTL DEF RegistrySpec
<1>2. IInv /\ [RegistryNext]_registryVars => [Kept]_registryVars
  BY StepsKeepRecords
<1> QED
  BY <1>1, <1>2, PTL DEF RegistrySpec, RecordsAreKept, Kept

-----------------------------------------------------------------------------
(* The listener. *)

(* The log is written in the order of the blocks, none of them later than
   the one being built. *)
BlocksGrow ==
  /\ \A i \in DOMAIN log : log[i].block \in Nat /\ log[i].block <= height
  /\ \A i, j \in DOMAIN log : i < j => log[i].block <= log[j].block

(* Every block number the worker holds is one of a sealed block. *)
KnowsSealed ==
  /\ worker.pc \in {"querying", "handling", "saving"} =>
       worker.from <= ChainHead /\ worker.to <= ChainHead
  /\ \A b \in worker.moved : b <= ChainHead

CertEvent(i) == log[i].event \in {"CertificateAnchored", "CertificateRevoked"}

(* Every event of the range is to be handled, has been, or was lost. *)
Accounted ==
  worker.pc \in {"handling", "saving"} =>
    /\ \A i \in DOMAIN log :
         CertEvent(i) /\ log[i].block \in worker.from .. worker.to =>
           i \in worker.todo \cup worker.seen \cup worker.lost
    /\ \A i \in worker.todo : CertEvent(i)
    /\ worker.pc = "saving" => worker.todo = {}

Worker == [pc : {"down", "querying", "handling", "saving", "subscribing", "live", "failed"},
           from : Nat, to : Nat, todo : SUBSET DOMAIN log, seen : SUBSET DOMAIN log,
           lost : SUBSET DOMAIN log, since : Nat, moved : SUBSET Nat]
Status == {"PENDING_ANCHOR", "ANCHORING", "ACTIVE", "REVOKING", "REVOKED"}
Types ==
  /\ row \in [Hash -> Status]
  /\ asked \subseteq Hash
  /\ cursor \in Nat \cup {NoCursor}
  /\ worker \in Worker
  /\ restarts \in 0 .. MaxRestarts

LInv ==
  /\ IInv /\ Types /\ BlocksGrow /\ KnowsSealed /\ Accounted
  /\ RowsFollowChain /\ CursorIsSealed

(* A certificate is anchored in a block before, or in, that of its
   revocation; so the anchor is the earlier of the two in the sorted list. *)
LEMMA LInvImplies == LInv => ReplaySafe
<1> SUFFICES ASSUME LInv PROVE ReplaySafe
  OBVIOUS
<1>1. TypeOK
  BY DEF LInv, IInv, Types, Worker, Status, TypeOK
<1>2. ReplayComplete
  BY DEF LInv, Accounted, CertEvent, ReplayComplete
<1>3. AnchorBeforeRevoke
  <2> SUFFICES ASSUME NEW i \in worker.todo, NEW j \in worker.todo, First(i),
                      log[i].event = "CertificateRevoked", log[j].hash = log[i].hash,
                      log[j].event = "CertificateAnchored"
               PROVE  FALSE
    BY DEF AnchorBeforeRevoke
  <2>1. i \in DOMAIN log /\ j \in DOMAIN log
    BY DEF LInv, Types, Worker
  <2>2. PICK h \in Hash : log[i].hash = h
    BY <2>1 DEF LInv, IInv, RegistryTypeOK, Event
  <2>3. j < i
    BY <2>1, <2>2 DEF LInv, IInv, Tells, Entries
  <2>4. log[j].block <= log[i].block /\ log[i].block \in Nat /\ log[j].block \in Nat
    BY <2>1, <2>3 DEF LInv, BlocksGrow
  <2>5. Earlier(i, j)
    BY DEF First
  <2> QED
    BY <2>4, <2>5 DEF Earlier
<1> QED
  BY <1>1, <1>2, <1>3 DEF LInv, ReplaySafe

-----------------------------------------------------------------------------
(* The worker only reads the chain. *)
LEMMA StartsEmpty == Init => RegistryInit
BY DEF Init

LEMMA StepsAreTheContracts == IInv /\ [Next]_vars => [RegistryNext]_registryVars
<1> SUFFICES ASSUME IInv, [Next]_vars PROVE [RegistryNext]_registryVars
  OBVIOUS
<1>1. CASE Chain \/ Administer
  BY <1>1 DEF Chain, Administer, RegistryNext
<1>2. ASSUME NEW h \in Hash, MineAnchor(h) \/ MineRevoke(h) PROVE RegistryNext
  <2>1. Custodian \in Account
    BY <1>2 DEF MineAnchor, MineRevoke, anchorCertificate, revokeCertificate, onlyIssuer,
       IInv, RegistryTypeOK
  <2> QED
    BY <1>2, <2>1 DEF MineAnchor, MineRevoke, RegistryNext
<1>3. ASSUME NEW h \in Hash,
             RecordAnchor(h) \/ BroadcastRevoke(h) \/ RecordRevoke(h) \/ Sweep(h)
      PROVE  UNCHANGED registryVars
  BY <1>3 DEF RecordAnchor, BroadcastRevoke, RecordRevoke, Sweep
<1>4. CASE Boot \/ Query \/ Replay \/ ReplayThrows \/ ReplayDone \/ SaveCursor \/ Subscribe
           \/ Restart
  BY <1>4 DEF Boot, Query, Replay, ReplayThrows, ReplayDone, SaveCursor, Subscribe, Restart
<1>5. ASSUME NEW i \in DOMAIN log, Live(i) PROVE UNCHANGED registryVars
  BY <1>5 DEF Live
<1>6. ASSUME NEW b \in worker.moved, SaveLive(b) PROVE UNCHANGED registryVars
  BY <1>6 DEF SaveLive
<1>7. CASE UNCHANGED vars
  BY <1>7 DEF vars
<1> QED
  BY <1>1, <1>2, <1>3, <1>4, <1>5, <1>6, <1>7 DEF Next

(* The contract inside this system is the contract: whatever holds of it
   under RegistrySpec holds here (SecureCredRegistry.sol). *)
THEOREM ListensToTheContract == Spec => RegistrySpec
<1>1. Spec => []IInv
  <2>1. IInv /\ [Next]_vars => IInv'
    BY StepsAreTheContracts, NextKeeps
  <2> QED
    BY <2>1, StartsEmpty, Initially, PTL DEF Spec
<1> QED
  BY <1>1, StartsEmpty, StepsAreTheContracts, PTL DEF Spec, RegistrySpec

-----------------------------------------------------------------------------
(* What a step of the chain does to the log and to its head. *)
LEMMA LogMoves ==
  ASSUME IInv, [RegistryNext]_registryVars
  PROVE  \/ log' = log /\ height' \in {height, height + 1}
         \/ \E e \in Event : Logs(e) /\ e.block = height /\ height' = height
<1>1. CASE Deploy \/ WriteDeployment \/ SealBlock \/ UNCHANGED registryVars
  BY <1>1 DEF Deploy, WriteDeployment, SealBlock, registryVars
<1>2. ASSUME NEW kind \in {"IssuerRegistered", "IssuerDeregistered"},
             NEW a \in Account \cup {NoAccount},
             log' = Append(log, [event |-> kind, account |-> a, block |-> height]),
             height' = height
      PROVE  \E e \in Event : Logs(e) /\ e.block = height /\ height' = height
  <2>1. [event |-> kind, account |-> a, block |-> height] \in Event
    BY DEF Event, IInv, RegistryTypeOK
  <2> QED
    BY <1>2, <2>1 DEF Logs
<1>3. ASSUME NEW kind \in {"CertificateAnchored", "CertificateRevoked"},
             NEW s \in Account, NEW h \in Hash,
             log' = Append(log, [event |-> kind, hash |-> h, by |-> s, block |-> height]),
             height' = height
      PROVE  \E e \in Event : Logs(e) /\ e.block = height /\ height' = height
  <2>1. [event |-> kind, hash |-> h, by |-> s, block |-> height] \in Event
    BY DEF Event, IInv, RegistryTypeOK
  <2> QED
    BY <1>3, <2>1 DEF Logs
<1>4. CASE RegisterCustodian
  BY <1>2, <1>4, RegistryAssumption DEF RegisterCustodian
<1>5. ASSUME NEW s \in Account, NEW a \in Account \cup {NoAccount},
             registerIssuer(s, a) \/ deregisterIssuer(s, a)
      PROVE  \E e \in Event : Logs(e) /\ e.block = height /\ height' = height
  BY <1>2, <1>5 DEF registerIssuer, deregisterIssuer
<1>6. ASSUME NEW s \in Account, NEW h \in Hash,
             anchorCertificate(s, h) \/ revokeCertificate(s, h)
      PROVE  \E e \in Event : Logs(e) /\ e.block = height /\ height' = height
  BY <1>3, <1>6 DEF anchorCertificate, revokeCertificate
<1> QED
  BY <1>1, <1>4, <1>5, <1>6 DEF RegistryNext

(* So entries stay where they are, the head never falls, and a new entry is
   in a block that nobody can have seen. *)
LEMMA LogStays ==
  ASSUME LInv, [RegistryNext]_registryVars
  PROVE  /\ height \in Nat /\ height' \in Nat /\ height <= height'
         /\ DOMAIN log \subseteq DOMAIN log'
         /\ \A i \in DOMAIN log : log'[i] = log[i]
         /\ \A i \in DOMAIN log' \ DOMAIN log : log'[i].block = height
         /\ BlocksGrow'
<1>1. height \in Nat
  BY DEF LInv, IInv, RegistryTypeOK
<1>2. CASE log' = log /\ height' \in {height, height + 1}
  BY <1>1, <1>2 DEF LInv, BlocksGrow
<1>3. ASSUME NEW e \in Event, Logs(e), e.block = height, height' = height
      PROVE  /\ DOMAIN log \subseteq DOMAIN log'
             /\ \A i \in DOMAIN log : log'[i] = log[i]
             /\ \A i \in DOMAIN log' \ DOMAIN log : log'[i].block = height
             /\ BlocksGrow'
  <2>1. PICK n \in Nat : n = Len(log)
    BY <1>3, Appended DEF LInv, IInv
  <2>2. /\ DOMAIN log = 1..n /\ DOMAIN log' = 1..(n + 1)
        /\ \A i \in 1..n : log'[i] = log[i]
        /\ log'[n + 1] = e
    BY <1>3, <2>1, Appended DEF LInv, IInv
  <2>3. \A i \in 1..(n + 1) : i \in 1..n \/ i = n + 1
    BY <2>1
  <2>4. BlocksGrow'
    BY <1>1, <1>3, <2>1, <2>2, <2>3 DEF LInv, BlocksGrow
  <2> QED
    BY <1>3, <2>1, <2>2, <2>3, <2>4
<1> QED
  BY <1>1, <1>2, <1>3, LogMoves DEF LInv

LEMMA SealedStays ==
  ASSUME LInv, [RegistryNext]_registryVars, NEW h \in Hash
  PROVE  /\ Sealed(h).issued => Sealed(h).issued'
         /\ Sealed(h).revoked => Sealed(h).revoked'
<1>1. Kept
  BY StepsKeepRecords DEF LInv
<1>2. records[h] \in Record /\ height \in Nat /\ height' \in Nat /\ height <= height'
  BY LogStays DEF LInv, IInv, RegistryTypeOK
<1> QED
  BY <1>1, <1>2 DEF Kept, Sealed, checkCertificate, ChainHead, Record

(* A step of the chain leaves the worker with what it knew. *)
LEMMA ChainKeeps ==
  ASSUME LInv, [RegistryNext]_registryVars, UNCHANGED workerVars
  PROVE  LInv'
<1>1. IInv'
  BY NextKeeps DEF LInv
<1>2. Types'
  <2>1. worker' \in Worker'
    BY LogStays DEF LInv, Types, Worker, workerVars
  <2> QED
    BY <2>1 DEF LInv, Types, workerVars
<1>3. KnowsSealed' /\ CursorIsSealed'
  BY LogStays DEF LInv, Types, Worker, KnowsSealed, CursorIsSealed, ChainHead, workerVars,
     ReplayAssumption
<1>4. Accounted'
  <2> SUFFICES ASSUME worker.pc \in {"handling", "saving"}
               PROVE  /\ \A i \in DOMAIN log' :
                           CertEvent(i)' /\ log'[i].block \in worker.from .. worker.to =>
                             i \in worker.todo \cup worker.seen \cup worker.lost
                      /\ \A i \in worker.todo : CertEvent(i)'
    BY DEF LInv, Accounted, workerVars
  <2>1. height \in Nat /\ worker.to \in Nat /\ worker.to <= height - 1
    BY LogStays DEF LInv, KnowsSealed, ChainHead, Types, Worker
  <2>2. \A i \in DOMAIN log' \ DOMAIN log : log'[i].block \notin worker.from .. worker.to
    BY <2>1, LogStays
  <2>3. worker.todo \subseteq DOMAIN log
    BY DEF LInv, Types, Worker
  <2> QED
    BY <2>2, <2>3, LogStays DEF LInv, Accounted, CertEvent
<1>5. RowsFollowChain'
  BY SealedStays DEF LInv, RowsFollowChain, workerVars
<1> QED
  BY <1>1, <1>2, <1>3, <1>4, <1>5, LogStays DEF LInv

-----------------------------------------------------------------------------
(* A handler, or the sweep, settles a row only on what the chain says. *)
LEMMA HandledRight ==
  ASSUME LInv, NEW i \in DOMAIN log, CertEvent(i), UNCHANGED registryVars, row' = Handled(i)
  PROVE  /\ row' \in [Hash -> Status]
         /\ RowsFollowChain'
         /\ row' # row => height - log[i].block >= Depth
<1>1. PICK h \in Hash : log[i].hash = h
  BY DEF LInv, IInv, RegistryTypeOK, Event, CertEvent
<1>2. height \in Nat /\ log[i].block \in Nat /\ records[h] \in Record
  BY DEF LInv, IInv, RegistryTypeOK, BlocksGrow
<1>3. CASE ~(Awaits(i) /\ Confirmations(i) >= Depth)
  BY <1>3 DEF Handled, LInv, Types, RowsFollowChain, Sealed, checkCertificate, ChainHead,
     registryVars
<1>4. CASE Awaits(i) /\ Confirmations(i) >= Depth
  <2>1. log[i].block <= height - 1 /\ height - log[i].block >= Depth
    BY <1>2, <1>4, ReplayAssumption DEF Confirmations, ChainHead
  <2>2. CASE log[i].event = "CertificateAnchored"
    <3>1. row' = [row EXCEPT ![h] = "ACTIVE"]
      BY <1>1, <1>4, <2>2 DEF Handled
    <3>2. Sealed(h).issued
      <4>1. Tells(h) /\ i \in Entries("CertificateAnchored", h)
        BY <1>1, <2>2 DEF LInv, IInv, Entries
      <4>2. records[h].exists /\ log[i].block = records[h].issuedAt
        BY <4>1 DEF Tells
      <4> QED
        BY <2>1, <4>2 DEF Sealed, checkCertificate, ChainHead
    <3> QED
      BY <2>1, <3>1, <3>2 DEF LInv, Types, Status, RowsFollowChain, Sealed,
         checkCertificate, ChainHead, registryVars
  <2>3. CASE log[i].event = "CertificateRevoked"
    <3>1. row' = [row EXCEPT ![h] = "REVOKED"] /\ row[h] = "REVOKING"
      BY <1>1, <1>4, <2>3 DEF Handled, Awaits
    <3>2. Sealed(h).revoked
      <4>1. Tells(h) /\ i \in Entries("CertificateRevoked", h)
        BY <1>1, <2>3 DEF LInv, IInv, Entries
      <4>2. records[h].revoked /\ log[i].block = records[h].revokedAt
        BY <4>1 DEF Tells
      <4> QED
        BY <2>1, <4>2 DEF Sealed, checkCertificate, ChainHead
    <3> QED
      BY <2>1, <3>1, <3>2 DEF LInv, Types, Status, RowsFollowChain, Sealed,
         checkCertificate, ChainHead, registryVars
  <2> QED
    BY <2>2, <2>3 DEF CertEvent
<1> QED
  BY <1>3, <1>4

(* The API's steps and the sweep's. *)
LEMMA RowsKeep ==
  ASSUME LInv, NEW h \in Hash,
         RecordAnchor(h) \/ BroadcastRevoke(h) \/ RecordRevoke(h) \/ Sweep(h)
  PROVE  LInv'
<1>1. UNCHANGED <<registryVars, cursor, worker, restarts>>
  BY DEF RecordAnchor, BroadcastRevoke, RecordRevoke, Sweep
<1>2. row' \in [Hash -> Status] /\ asked' \subseteq Hash /\ RowsFollowChain'
  BY DEF RecordAnchor, BroadcastRevoke, RecordRevoke, Sweep, LInv, Types, Status,
     RowsFollowChain, Sealed, checkCertificate, ChainHead, registryVars
<1>3. IInv' /\ BlocksGrow' /\ KnowsSealed' /\ Accounted' /\ CursorIsSealed'
  <2>1. IInv'
    BY <1>1, NextKeeps DEF LInv
  <2> QED
    BY <1>1, <2>1 DEF LInv, BlocksGrow, KnowsSealed, Accounted, CertEvent, CursorIsSealed,
       ChainHead, registryVars
<1>4. Types'
  BY <1>1, <1>2 DEF LInv, Types, Worker, registryVars
<1> QED
  BY <1>2, <1>3, <1>4 DEF LInv

-----------------------------------------------------------------------------
(* The worker's own steps leave the chain alone; what is left to show is the
   worker's part of the invariant. *)
LEMMA WorkerStep ==
  ASSUME LInv, UNCHANGED <<registryVars, asked>>,
         worker' \in Worker, cursor' \in Nat \cup {NoCursor}, restarts' \in 0 .. MaxRestarts,
         row' \in [Hash -> Status], RowsFollowChain',
         KnowsSealed', Accounted', CursorIsSealed'
  PROVE  LInv'
<1>1. IInv'
  BY NextKeeps DEF LInv
<1>2. BlocksGrow' /\ Types'
  BY DEF LInv, BlocksGrow, Types, Worker, registryVars
<1> QED
  BY <1>1, <1>2 DEF LInv

(* Rows that stay as they are are right as before. *)
LEMMA RowsStay ==
  ASSUME LInv, UNCHANGED <<registryVars, row>>
  PROVE  row' \in [Hash -> Status] /\ RowsFollowChain'
BY DEF LInv, Types, RowsFollowChain, Sealed, checkCertificate, ChainHead, registryVars

(* The windows leave no block out between them. *)
LEMMA WindowsCover ==
  ASSUME NEW from \in Nat, NEW to \in Nat, NEW b \in from .. to
  PROVE  \E w \in Windows(from, to) : b \in w
<1> DEFINE k == (b - from) \div MaxRange
           start == from + k * MaxRange
<1>1. /\ k \in Nat /\ k * MaxRange <= b - from /\ b - from < k * MaxRange + MaxRange
      /\ k * MaxRange \in Nat
  BY ReplayAssumption, Z3
<1>2. k \in 0 .. to
  <2>1. k <= k * MaxRange
    BY <1>1, ReplayAssumption, Z3
  <2> QED
    BY <1>1, <2>1
<1>3. start \in {from + j * MaxRange : j \in 0 .. to} \cap (from .. to)
  BY <1>1, <1>2
<1>4. start <= b /\ b < start + MaxRange
  BY <1>1, ReplayAssumption
<1> DEFINE w == {c \in from .. to : start <= c /\ c < start + MaxRange}
<1>5. b \in w
  BY <1>4
<1>6. w \in Windows(from, to)
  BY <1>3, Zenon DEF Windows
<1> QED
  BY <1>5, <1>6

(* start() reads a head that is sealed, and a cursor that is. *)
LEMMA BootKeeps == LInv /\ Boot => LInv'
<1> SUFFICES ASSUME LInv, Boot PROVE LInv'
  OBVIOUS
<1>1. PICK to \in (IF ChainHead > Lag THEN ChainHead - Lag ELSE 0) .. ChainHead :
        worker' = [worker EXCEPT
                     !.pc = "querying",
                     !.from = IF cursor = NoCursor THEN FirstBoot(to) ELSE cursor,
                     !.to = to]
  BY DEF Boot
<1>2. height \in Nat \ {0} /\ ChainHead \in Nat /\ to \in Nat /\ to <= ChainHead
  BY <1>1, ReplayAssumption DEF Boot, LInv, IInv, RegistryTypeOK, ChainHead
<1>3. FirstBoot(to) \in Nat /\ FirstBoot(to) <= to
  BY <1>2, ReplayAssumption DEF FirstBoot
<1> DEFINE from == IF cursor = NoCursor THEN FirstBoot(to) ELSE cursor
<1>4. from \in Nat /\ from <= ChainHead
  BY <1>2, <1>3 DEF LInv, Types, CursorIsSealed
<1>5. worker' = [worker EXCEPT !.pc = "querying", !.from = from, !.to = to]
  BY <1>1
<1> HIDE DEF from
<1>6. /\ worker' \in Worker /\ worker'.pc = "querying"
      /\ worker'.from = from /\ worker'.to = to /\ worker'.moved = worker.moved
  BY <1>2, <1>4, <1>5 DEF LInv, Types, Worker
<1>7. KnowsSealed' /\ Accounted' /\ CursorIsSealed'
  BY <1>2, <1>4, <1>6 DEF LInv, KnowsSealed, Accounted, CursorIsSealed, ChainHead, Boot,
     registryVars
<1> QED
  BY <1>6, <1>7, WorkerStep, RowsStay DEF Boot, LInv, Types

(* What the two queries do not return is what the refused windows hold. *)
LEMMA QueryKeeps == LInv /\ Query => LInv'
<1> SUFFICES ASSUME LInv, Query PROVE LInv'
  OBVIOUS
<1>1. PICK okA \in SUBSET Asked, okR \in SUBSET Asked :
        worker' = [worker EXCEPT
                     !.pc = "handling",
                     !.todo = Found("CertificateAnchored", okA)
                              \cup Found("CertificateRevoked", okR),
                     !.lost = Found("CertificateAnchored", Asked \ okA)
                              \cup Found("CertificateRevoked", Asked \ okR)]
  BY DEF Query
<1> DEFINE todo == Found("CertificateAnchored", okA) \cup Found("CertificateRevoked", okR)
           lost == Found("CertificateAnchored", Asked \ okA)
                   \cup Found("CertificateRevoked", Asked \ okR)
<1>2. /\ todo \in SUBSET DOMAIN log /\ lost \in SUBSET DOMAIN log
      /\ \A i \in todo : CertEvent(i)
  BY DEF Found, CertEvent
<1>3. ASSUME NEW i \in DOMAIN log, CertEvent(i), log[i].block \in worker.from .. worker.to
      PROVE  i \in todo \cup lost
  <2>1. PICK w \in Asked : log[i].block \in w
    BY <1>3, WindowsCover DEF Asked, LInv, Types, Worker
  <2>2. CASE log[i].event = "CertificateAnchored"
    BY <2>1, <2>2 DEF Found
  <2>3. CASE log[i].event = "CertificateRevoked"
    BY <2>1, <2>3 DEF Found
  <2> QED
    BY <1>3, <2>2, <2>3 DEF CertEvent
<1>4. worker' = [worker EXCEPT !.pc = "handling", !.todo = todo, !.lost = lost]
  BY <1>1
<1> HIDE DEF todo, lost
<1>5. /\ worker' \in Worker /\ worker'.pc = "handling" /\ worker'.todo = todo
      /\ worker'.lost = lost /\ worker'.seen = worker.seen /\ worker'.from = worker.from
      /\ worker'.to = worker.to /\ worker'.moved = worker.moved
  BY <1>2, <1>4 DEF LInv, Types, Worker
<1>6. KnowsSealed' /\ CursorIsSealed'
  BY <1>5 DEF LInv, KnowsSealed, CursorIsSealed, ChainHead, Query, registryVars
<1>7. Accounted'
  BY <1>2, <1>3, <1>5 DEF Accounted, CertEvent, Query, registryVars
<1> QED
  BY <1>5, <1>6, <1>7, WorkerStep, RowsStay DEF Query, LInv, Types

(* A replayed event is about a certificate: it was found under its kind. *)
LEMMA ReplayKeeps == LInv /\ Replay => LInv'
<1> SUFFICES ASSUME LInv, Replay PROVE LInv'
  OBVIOUS
<1>1. PICK i \in worker.todo :
        /\ row' = Handled(i)
        /\ worker' = [worker EXCEPT !.todo = @ \ {i}, !.seen = @ \cup {i}]
  BY DEF Replay
<1>2. i \in DOMAIN log /\ CertEvent(i)
  BY DEF Replay, LInv, Types, Worker, Accounted
<1>3. row' \in [Hash -> Status] /\ RowsFollowChain'
  BY <1>1, <1>2, HandledRight DEF Replay
<1>4. /\ worker' \in Worker /\ worker'.pc = worker.pc /\ worker.pc = "handling"
      /\ worker'.todo = worker.todo \ {i} /\ worker'.seen = worker.seen \cup {i}
      /\ worker'.lost = worker.lost /\ worker'.from = worker.from
      /\ worker'.to = worker.to /\ worker'.moved = worker.moved
  BY <1>1, <1>2 DEF LInv, Types, Worker, Replay
<1>5. KnowsSealed' /\ Accounted' /\ CursorIsSealed'
  BY <1>4 DEF LInv, KnowsSealed, Accounted, CertEvent, CursorIsSealed, ChainHead, Replay,
     registryVars
<1> QED
  BY <1>3, <1>4, <1>5, WorkerStep DEF Replay, LInv, Types

(* The steps of start() that only move it on. *)
LEMMA StartKeeps ==
  LInv /\ (ReplayThrows \/ ReplayDone \/ SaveCursor \/ Subscribe) => LInv'
<1> SUFFICES ASSUME LInv, ReplayThrows \/ ReplayDone \/ SaveCursor \/ Subscribe PROVE LInv'
  OBVIOUS
<1>1. height \in Nat /\ worker \in Worker
  BY DEF LInv, IInv, Types, RegistryTypeOK
<1>2. CASE ReplayThrows
  <2>1. worker' \in Worker /\ worker'.pc = "failed" /\ worker'.moved = {}
    BY <1>2 DEF ReplayThrows, Stopped, Worker
  <2>2. KnowsSealed' /\ Accounted' /\ CursorIsSealed'
    BY <1>2, <2>1 DEF ReplayThrows, LInv, KnowsSealed, Accounted, CursorIsSealed, ChainHead,
       registryVars
  <2> QED
    BY <1>2, <2>1, <2>2, WorkerStep, RowsStay DEF ReplayThrows, LInv, Types
<1>3. CASE ReplayDone
  <2>1. /\ worker' \in Worker /\ worker'.pc = "saving" /\ worker.pc = "handling"
        /\ worker'.todo = {} /\ worker.todo = {}
        /\ worker'.seen = worker.seen /\ worker'.lost = worker.lost
        /\ worker'.from = worker.from /\ worker'.to = worker.to
        /\ worker'.moved = worker.moved
    BY <1>1, <1>3 DEF ReplayDone, Worker
  <2>2. KnowsSealed' /\ Accounted' /\ CursorIsSealed'
    BY <1>3, <2>1 DEF ReplayDone, LInv, KnowsSealed, Accounted, CertEvent, CursorIsSealed,
       ChainHead, registryVars
  <2> QED
    BY <1>3, <2>1, <2>2, WorkerStep, RowsStay DEF ReplayDone, LInv, Types
<1>4. CASE SaveCursor
  <2>1. worker' \in Worker /\ worker'.pc = "subscribing" /\ worker'.moved = worker.moved
    BY <1>1, <1>4 DEF SaveCursor, Worker
  <2>2. cursor' \in Nat /\ cursor' <= ChainHead
    BY <1>1, <1>4 DEF SaveCursor, Worker, LInv, KnowsSealed
  <2>3. KnowsSealed' /\ Accounted' /\ CursorIsSealed'
    BY <1>4, <2>1, <2>2 DEF SaveCursor, LInv, KnowsSealed, Accounted, CursorIsSealed,
       ChainHead, registryVars
  <2> QED
    BY <1>4, <2>1, <2>2, <2>3, WorkerStep, RowsStay DEF SaveCursor, LInv, Types
<1>5. CASE Subscribe
  <2>1. worker' \in Worker /\ worker'.pc = "live" /\ worker'.moved = {}
    BY <1>1, <1>5 DEF Subscribe, Stopped, Worker
  <2>2. KnowsSealed' /\ Accounted' /\ CursorIsSealed'
    BY <1>5, <2>1 DEF Subscribe, LInv, KnowsSealed, Accounted, CursorIsSealed, ChainHead,
       registryVars
  <2> QED
    BY <1>5, <2>1, <2>2, WorkerStep, RowsStay DEF Subscribe, LInv, Types
<1> QED
  BY <1>2, <1>3, <1>4, <1>5

(* Live events, their cursors, and the end of the process. *)
LEMMA LiveKeeps ==
  ASSUME LInv, NEW i \in DOMAIN log, Live(i)
  PROVE  LInv'
<1>1. row' \in [Hash -> Status] /\ RowsFollowChain'
  BY HandledRight DEF Live, CertEvent
<1>2. log[i].block \in Nat /\ log[i].block <= ChainHead
  BY DEF Live, LInv, BlocksGrow, IInv, RegistryTypeOK, ChainHead, Types, Worker
<1>3. /\ worker' \in Worker /\ worker'.pc = "live"
      /\ worker'.moved = worker.moved \cup {log[i].block}
  BY <1>2 DEF LInv, Types, Worker, Live
<1>4. KnowsSealed' /\ Accounted' /\ CursorIsSealed'
  BY <1>2, <1>3 DEF LInv, KnowsSealed, Accounted, CursorIsSealed, ChainHead, Live, registryVars
<1> QED
  BY <1>1, <1>3, <1>4, WorkerStep DEF Live, LInv, Types

LEMMA SaveLiveKeeps ==
  ASSUME LInv, NEW b \in worker.moved, SaveLive(b)
  PROVE  LInv'
<1>1. b \in Nat /\ b <= ChainHead
  BY DEF LInv, Types, Worker, KnowsSealed
<1>2. worker' \in Worker /\ worker'.pc = "live" /\ worker'.moved = worker.moved \ {b}
  BY DEF LInv, Types, Worker, SaveLive
<1>3. KnowsSealed' /\ Accounted' /\ CursorIsSealed'
  BY <1>1, <1>2 DEF LInv, KnowsSealed, Accounted, CursorIsSealed, ChainHead, SaveLive,
     registryVars
<1> QED
  BY <1>1, <1>2, <1>3, WorkerStep, RowsStay DEF SaveLive, LInv, Types

LEMMA RestartKeeps == LInv /\ Restart => LInv'
<1> SUFFICES ASSUME LInv, Restart PROVE LInv'
  OBVIOUS
<1>1. worker' \in Worker /\ worker'.pc = "down" /\ worker'.moved = {}
  BY DEF Restart, Stopped, Worker
<1>2. restarts' \in 0 .. MaxRestarts
  BY ReplayAssumption DEF Restart, LInv, Types
<1>3. KnowsSealed' /\ Accounted' /\ CursorIsSealed'
  BY <1>1 DEF Restart, LInv, KnowsSealed, Accounted, CursorIsSealed, ChainHead, registryVars
<1> QED
  BY <1>1, <1>2, <1>3, WorkerStep, RowsStay DEF Restart, LInv, Types

-----------------------------------------------------------------------------
LEMMA LInitially == Init => LInv
<1> SUFFICES ASSUME Init PROVE LInv
  OBVIOUS
<1>1. IInv
  BY StartsEmpty, Initially
<1>2. Types
  BY ReplayAssumption DEF Init, Types, Worker, Status, Stopped
<1>3. BlocksGrow /\ KnowsSealed /\ Accounted /\ RowsFollowChain /\ CursorIsSealed
  BY DEF Init, RegistryInit, Stopped, BlocksGrow, KnowsSealed, Accounted, RowsFollowChain,
     CursorIsSealed
<1> QED
  BY <1>1, <1>2, <1>3 DEF LInv

LEMMA LStep == LInv /\ [Next]_vars => LInv'
<1> SUFFICES ASSUME LInv, [Next]_vars PROVE LInv'
  OBVIOUS
<1>1. [RegistryNext]_registryVars
  BY StepsAreTheContracts DEF LInv
<1>2. CASE Chain \/ Administer \/ UNCHANGED vars
  BY <1>1, <1>2, ChainKeeps DEF Chain, Administer, vars
<1>3. ASSUME NEW h \in Hash, MineAnchor(h) \/ MineRevoke(h) PROVE LInv'
  BY <1>1, <1>3, ChainKeeps DEF MineAnchor, MineRevoke
<1> QED
  BY <1>2, <1>3, RowsKeep, BootKeeps, QueryKeeps, ReplayKeeps, StartKeeps, LiveKeeps,
     SaveLiveKeeps, RestartKeeps DEF Next

(* However the worker crashes, whatever windows the node refuses and in
   whatever order events come: the rows follow the chain, a replay leaves out
   only what was refused, it hands on anchors before revocations, and the
   cursor stays on sealed blocks (startEventListener). *)
THEOREM ReplayInvariance == Spec => []ReplaySafe
<1> QED
  BY LInitially, LStep, LInvImplies, PTL DEF Spec

(* The worker and the API never disturb what the contract promises of itself
   (SecureCredRegistry.sol). *)
THEOREM ContractStaysHonest == Spec => []RegistryHonest
<1> QED
  BY ListensToTheContract, RegistryInvariance, PTL

(* No handler of the listener settles a row on an event that is not Depth
   blocks deep (awaitConfirmations). *)
THEOREM SettlesDeep == Spec => SettledDeep
<1>1. LInv /\ [Next]_vars =>
        [\A i \in DOMAIN log :
           i \in worker'.seen \ worker.seen /\ row' # row =>
             height - log[i].block >= Depth]_vars
  <2> SUFFICES ASSUME LInv, Next, NEW i \in DOMAIN log, i \in worker'.seen \ worker.seen,
                      row' # row
               PROVE  height - log[i].block >= Depth
    OBVIOUS
  <2>1. CASE Replay
    <3>1. PICK j \in worker.todo :
            row' = Handled(j) /\ worker' = [worker EXCEPT !.todo = @ \ {j},
                                                         !.seen = @ \cup {j}]
      BY <2>1 DEF Replay
    <3>2. i = j
      BY <3>1 DEF LInv, Types, Worker
    <3>3. CertEvent(i) /\ UNCHANGED registryVars
      BY <2>1, <3>2 DEF Replay, LInv, Accounted
    <3> QED
      BY <3>1, <3>2, <3>3, HandledRight
  <2>2. ASSUME NEW j \in DOMAIN log, Live(j) PROVE height - log[i].block >= Depth
    <3>1. i = j
      BY <2>2 DEF LInv, Types, Worker, Live
    <3> QED
      BY <2>2, <3>1, HandledRight DEF Live, CertEvent
  <2>3. CASE UNCHANGED worker
    BY <2>3
  <2>4. CASE UNCHANGED row
    BY <2>4
  <2> QED
    BY <2>1, <2>2, <2>3, <2>4 DEF Next, Chain, Administer, MineAnchor, RecordAnchor,
       BroadcastRevoke, MineRevoke, RecordRevoke, Sweep, Boot, Query, ReplayThrows,
       ReplayDone, SaveCursor, Subscribe, SaveLive, Restart, workerVars
<1> QED
  BY <1>1, LInitially, LStep, PTL DEF Spec, SettledDeep

-----------------------------------------------------------------------------
(* The contract and its listener keep the promise of CertificateTrust. *)

(* A revocation leaves the API for a public certificate only, and no row stops
   being public. *)
AskedArePublic == \A h \in asked : row[h] \in Trust!Public

Issued == {h \in Hash : records[h].exists}
Revoked == {h \in Hash : records[h].revoked}

(* How a row moves, whoever moves it. *)
RowMoves(h, to) ==
  /\ row' = [row EXCEPT ![h] = to] /\ <<row[h], to>> \in Trust!LegalEdge
  /\ to = "ACTIVE" => h \in Issued
  /\ to = "REVOKED" => h \in Revoked

LEMMA EdgesStayPublic ==
  ASSUME NEW s, NEW z, <<s, z>> \in Trust!LegalEdge
  PROVE  z \in Trust!CertState /\ (s \in Trust!Public => z \in Trust!Public)
  BY DEF Trust!LegalEdge, Trust!CertState, Trust!Public

LEMMA HandledMoves ==
  ASSUME LInv, NEW i \in DOMAIN log, CertEvent(i), UNCHANGED registryVars, row' = Handled(i)
  PROVE  row' = row \/ \E h \in Hash, to \in Status : RowMoves(h, to)
<1>1. PICK h \in Hash : log[i].hash = h
  BY DEF LInv, IInv, RegistryTypeOK, Event, CertEvent
<1>2. CASE ~(Awaits(i) /\ Confirmations(i) >= Depth)
  BY <1>2 DEF Handled
<1>3. CASE Awaits(i) /\ Confirmations(i) >= Depth
  <2>1. RowsFollowChain' /\ row \in [Hash -> Status]
    BY HandledRight DEF LInv, Types
  <2>2. CASE log[i].event = "CertificateAnchored"
    <3>1. row' = [row EXCEPT ![h] = "ACTIVE"] /\ row[h] = "ANCHORING"
      BY <1>1, <1>3, <2>2 DEF Handled, Awaits
    <3>2. h \in Issued
      BY <2>1, <3>1 DEF RowsFollowChain, Sealed, checkCertificate, Issued, registryVars
    <3> QED
      BY <3>1, <3>2 DEF RowMoves, Trust!LegalEdge, Status
  <2>3. CASE log[i].event = "CertificateRevoked"
    <3>1. row' = [row EXCEPT ![h] = "REVOKED"] /\ row[h] = "REVOKING"
      BY <1>1, <1>3, <2>3 DEF Handled, Awaits
    <3>2. h \in Revoked
      BY <2>1, <3>1 DEF RowsFollowChain, Sealed, checkCertificate, Revoked, registryVars
    <3> QED
      BY <3>1, <3>2 DEF RowMoves, Trust!LegalEdge, Status
  <2> QED
    BY <2>2, <2>3 DEF CertEvent
<1> QED
  BY <1>2, <1>3

LEMMA RowsMove ==
  ASSUME LInv, [Next]_vars
  PROVE  \/ row' = row
         \/ UNCHANGED <<registryVars, asked>> /\ \E h \in Hash, to \in Status : RowMoves(h, to)
<1>1. ASSUME NEW h \in Hash, RecordAnchor(h) \/ RecordRevoke(h) \/ Sweep(h)
      PROVE  UNCHANGED <<registryVars, asked>> /\ \E to \in Status : RowMoves(h, to)
  <2>1. CASE RecordAnchor(h)
    BY <2>1 DEF RecordAnchor, RowMoves, Trust!LegalEdge, Status
  <2>2. CASE RecordRevoke(h)
    BY <2>2 DEF RecordRevoke, RowMoves, Trust!LegalEdge, Status
  <2>3. CASE Sweep(h)
    BY <2>3 DEF Sweep, RowMoves, Trust!LegalEdge, Status, Sealed, checkCertificate, Issued,
       Revoked
  <2> QED
    BY <1>1, <2>1, <2>2, <2>3
<1>2. CASE Replay
  <2>1. PICK i \in worker.todo : First(i) /\ row' = Handled(i)
    BY <1>2 DEF Replay
  <2>2. i \in DOMAIN log /\ CertEvent(i) /\ UNCHANGED <<registryVars, asked>>
    BY <1>2, <2>1 DEF Replay, LInv, Types, Worker, Accounted
  <2> QED
    BY <2>1, <2>2, HandledMoves
<1>3. ASSUME NEW i \in DOMAIN log, Live(i)
      PROVE  \/ row' = row
             \/ UNCHANGED <<registryVars, asked>> /\ \E h \in Hash, to \in Status : RowMoves(h, to)
  BY <1>3, HandledMoves DEF Live, CertEvent
<1>4. CASE Chain \/ Administer \/ Boot \/ Query \/ ReplayThrows \/ ReplayDone \/ SaveCursor
           \/ Subscribe \/ Restart \/ UNCHANGED vars
  BY <1>4 DEF Chain, Administer, Boot, Query, ReplayThrows, ReplayDone, SaveCursor,
     Subscribe, Restart, vars, workerVars
<1>5. ASSUME NEW h \in Hash, MineAnchor(h) \/ BroadcastRevoke(h) \/ MineRevoke(h)
      PROVE  row' = row
  BY <1>5 DEF MineAnchor, BroadcastRevoke, MineRevoke, workerVars
<1>6. ASSUME NEW b \in worker.moved, SaveLive(b) PROVE row' = row
  BY <1>6 DEF SaveLive
<1> QED
  BY <1>1, <1>2, <1>3, <1>4, <1>5, <1>6 DEF Next

LEMMA AskedStayPublic == LInv /\ AskedArePublic /\ [Next]_vars => AskedArePublic'
<1> SUFFICES ASSUME LInv, AskedArePublic, [Next]_vars, NEW h \in asked'
             PROVE  row'[h] \in Trust!Public
  BY DEF AskedArePublic
<1>1. CASE h \in asked
  <2>1. CASE row' = row
    BY <1>1, <2>1 DEF AskedArePublic
  <2>2. ASSUME NEW g \in Hash, NEW to, RowMoves(g, to) PROVE row'[h] \in Trust!Public
    <3>1. row[h] \in Trust!Public /\ row \in [Hash -> Status] /\ h \in Hash
      BY <1>1 DEF AskedArePublic, LInv, Types
    <3>2. row'[h] = IF h = g THEN to ELSE row[h]
      BY <2>2, <3>1 DEF RowMoves
    <3> QED
      BY <2>2, <3>1, <3>2, EdgesStayPublic DEF RowMoves
  <2> QED
    BY <2>1, <2>2, RowsMove
<1>2. CASE h \notin asked
  <2>1. row[h] = "ACTIVE" /\ row' = row
    BY <1>2 DEF Next, vars, workerVars, Chain, Administer, MineAnchor, RecordAnchor,
       BroadcastRevoke, MineRevoke, RecordRevoke, Sweep, Boot, Query, Replay, ReplayThrows,
       ReplayDone, SaveCursor, Subscribe, Live, SaveLive, Restart
  <2> QED
    BY <2>1 DEF Trust!Public
<1> QED
  BY <1>1, <1>2

(* A transaction that the contract accepts is one of the promise's facts. *)
LEMMA FactsMove ==
  ASSUME LInv, AskedArePublic, [Next]_vars, row' = row
  PROVE  [Trust!Next]_(Trust!vars)
<1>1. row \in [Hash -> Status] /\ records \in [Hash -> Record] /\ RevokedExist
  BY DEF LInv, Types, IInv, RegistryTypeOK
<1>2. ASSUME NEW h \in Hash, MineAnchor(h) PROVE Trust!Anchor(h)
  <2> DEFINE r == [issuer |-> Custodian, issuedAt |-> height, revokedAt |-> 0,
                   exists |-> TRUE, revoked |-> FALSE]
  <2>1. ~records[h].exists /\ ~records[h].revoked /\ records' = [records EXCEPT ![h] = r]
    BY <1>1, <1>2 DEF MineAnchor, anchorCertificate, RevokedExist
  <2>2. \A g \in Hash : records'[g] = IF g = h THEN r ELSE records[g]
    BY <1>1, <2>1
  <2>3. h \notin Issued /\ Issued' = Issued \cup {h} /\ Revoked' = Revoked
    BY <2>1, <2>2 DEF Issued, Revoked
  <2>4. row[h] \notin {"ABSENT", "PENDING_STORAGE"}
    BY <1>1 DEF Status
  <2> QED
    BY <2>3, <2>4 DEF Trust!Anchor, Issued, Revoked
<1>3. ASSUME NEW h \in Hash, MineRevoke(h) PROVE Trust!Revoke(h)
  <2>1. /\ records[h].exists /\ ~records[h].revoked /\ h \in asked
        /\ records' = [records EXCEPT ![h].revoked = TRUE, ![h].revokedAt = height]
    BY <1>3 DEF MineRevoke, revokeCertificate
  <2>2. \A g \in Hash : /\ records'[g].exists = records[g].exists
                        /\ records'[g].revoked = IF g = h THEN TRUE ELSE records[g].revoked
    BY <1>1, <2>1 DEF Record
  <2>3. h \in Issued \ Revoked /\ Issued' = Issued /\ Revoked' = Revoked \cup {h}
    BY <2>1, <2>2 DEF Issued, Revoked
  <2>4. row[h] \in Trust!Public
    BY <2>1 DEF AskedArePublic
  <2> QED
    BY <2>3, <2>4 DEF Trust!Revoke, Issued, Revoked
<1>4. CASE records' = records
  BY <1>4 DEF Trust!vars
<1>5. CASE Chain \/ Administer
  BY <1>4, <1>5 DEF Chain, Administer, Deploy, RegisterCustodian, WriteDeployment, SealBlock,
     registerIssuer, deregisterIssuer
<1> QED
  BY <1>2, <1>3, <1>4, <1>5 DEF Next, vars, registryVars, RecordAnchor, BroadcastRevoke,
     RecordRevoke, Sweep, Boot, Query, Replay, ReplayThrows, ReplayDone, SaveCursor, Subscribe,
     Live, SaveLive, Restart, Trust!Next

LEMMA StepsKeep == LInv /\ AskedArePublic /\ [Next]_vars => [Trust!Next]_(Trust!vars)
<1> SUFFICES ASSUME LInv, AskedArePublic, [Next]_vars PROVE [Trust!Next]_(Trust!vars)
  OBVIOUS
<1>1. CASE row' = row
  BY <1>1, FactsMove
<1>2. ASSUME UNCHANGED registryVars, NEW h \in Hash, NEW to, RowMoves(h, to)
      PROVE  Trust!Next
  <2>1. Trust!Advance(h, to)
    BY <1>2 DEF RowMoves, Issued, Revoked, Trust!Advance, registryVars
  <2>2. to \in Trust!CertState
    BY <1>2, EdgesStayPublic DEF RowMoves
  <2> QED
    BY <2>1, <2>2 DEF Trust!Next
<1> QED
  BY <1>1, <1>2, RowsMove

(* The worker's handlers and its sweep, the API's two records and the contract,
   with whatever of the log the worker misses, move certificates as
   CertificateTrust allows (eventListener.js, reconciler.js,
   SecureCredRegistry.sol): for any hashes, chain, windows and restarts. *)
THEOREM ListenerKeepsTrust == Spec => StepsKeepTrust
<1>1. Init => AskedArePublic
  BY DEF Init, AskedArePublic
<1>2. Spec => [](LInv /\ AskedArePublic)
  BY <1>1, LInitially, LStep, AskedStayPublic, PTL DEF Spec
<1> QED
  BY <1>2, StepsKeep, PTL DEF Spec, StepsKeepTrust

(* What the contract records stays recorded, beside any listener. *)
THEOREM RecordsStay == Spec => RecordsAreKept
  BY ListensToTheContract, RecordedForGood, PTL

-----------------------------------------------------------------------------
(* The write queues of the adapters. *)
USE WriterAssumption

(* What a process knows of its own nonces: the counter is past every nonce it
   has returned, and so is the one in hand. *)
Past(p) ==
  /\ counter[p] = None => answered[p] = <<>> /\ at[p] # "send"
  /\ at[p] = "count" => counter[p] = None
  /\ counter[p] # None =>
       \A i \in 1..Len(answered[p]) : answered[p][i] < counter[p]
  /\ at[p] = "send" => /\ counter[p] = hand[p] + 1
                       /\ \A i \in 1..Len(answered[p]) :
                            answered[p][i] < hand[p]

Ordered(p) ==
  \A i, j \in 1..Len(answered[p]) :
    i < j => answered[p][i] < answered[p][j]

Busy(p) == at[p] # "idle" => queue[p] # <<>>

WriterInv == WriterTypeOK /\ \A p \in Process : Past(p) /\ Ordered(p) /\ Busy(p)

-----------------------------------------------------------------------------
LEMMA WriterInitially == WriterInit => WriterInv
  BY DEF WriterInit, WriterInv, WriterTypeOK, Past, Ordered, Busy, Nonce

(* An action moves the records of one process only. *)
Alone(p) ==
  \A q \in Process : q # p =>
    /\ counter'[q] = counter[q] /\ queue'[q] = queue[q] /\ at'[q] = at[q]
    /\ hand'[q] = hand[q] /\ answered'[q] = answered[q]

LEMMA AloneKeeps ==
  ASSUME WriterInv, WriterTypeOK', NEW p \in Process, Alone(p),
         Past(p)', Ordered(p)', Busy(p)'
  PROVE  WriterInv'
<1> SUFFICES ASSUME NEW q \in Process PROVE (Past(q) /\ Ordered(q) /\ Busy(q))'
  BY DEF WriterInv
<1>1. CASE q = p
  BY <1>1
<1>2. CASE q # p
  BY <1>2 DEF WriterInv, Alone, Past, Ordered, Busy
<1> QED
  BY <1>1, <1>2

(* What the end of a write does to its process. *)
LEMMA EndsType ==
  ASSUME WriterTypeOK, NEW p \in Process, queue[p] # <<>>,
         NEW how \in {"returned", "failed"}, Ends(p, how)
  PROVE  /\ state' \in [Write -> {"new", "queued", "returned", "failed"}]
         /\ queue' \in [Process -> Seq(Write)]
         /\ at' \in [Process -> {"idle", "count", "send"}]
         /\ at'[p] = "idle"
         /\ \A q \in Process : q # p => /\ queue'[q] = queue[q]
                                        /\ at'[q] = at[q]
<1>1. Tail(queue[p]) \in Seq(Write)
  BY DEF WriterTypeOK
<1> QED
  BY <1>1 DEF WriterTypeOK, Ends

LEMMA EnqueueKeeps ==
  ASSUME WriterInv, NEW p \in Process, NEW w \in Write, Enqueue(p, w)
  PROVE  WriterInv'
<1>1. WriterTypeOK'
  BY DEF WriterInv, Enqueue, WriterTypeOK
<1>2. Alone(p) /\ queue'[p] = Append(queue[p], w)
  BY DEF WriterInv, Enqueue, WriterTypeOK, Alone
<1>3. Past(p)' /\ Ordered(p)'
  BY DEF WriterInv, Enqueue, Past, Ordered
<1>4. Busy(p)'
  <2>1. queue[p] \in Seq(Write)
    BY DEF WriterInv, WriterTypeOK
  <2>2. Append(queue[p], w) # <<>>
    BY <2>1
  <2> QED
    BY <1>2, <2>2 DEF Busy
<1> QED
  BY <1>1, <1>2, <1>3, <1>4, AloneKeeps

LEMMA TakesKeeps ==
  ASSUME WriterInv, NEW p \in Process, NEW n \in Nat, Takes(p, n), queue[p] # <<>>,
         \A i \in 1..Len(answered[p]) : answered[p][i] < n,
         UNCHANGED <<mined, slot, queue, answered, state, writerRestarts>>
  PROVE  WriterInv'
<1>1. WriterTypeOK'
  BY DEF WriterInv, Takes, WriterTypeOK, Nonce
<1>2. /\ Alone(p) /\ at'[p] = "send" /\ hand'[p] = n /\ counter'[p] = n + 1
      /\ answered' = answered
  BY DEF WriterInv, Takes, WriterTypeOK, Alone
<1>3. Ordered(p)' /\ Busy(p)'
  BY <1>2 DEF WriterInv, Ordered, Busy
<1>4. Past(p)'
  <2>1. \A i \in 1..Len(answered[p]) : answered[p][i] \in Nat
    BY DEF WriterInv, WriterTypeOK, Nonce
  <2> QED
    BY <1>2, <2>1 DEF Past
<1> QED
  BY <1>1, <1>2, <1>3, <1>4, AloneKeeps

LEMMA BeginKeeps ==
  ASSUME WriterInv, NEW p \in Process, Begin(p)
  PROVE  WriterInv'
<1>1. CASE counter[p] # None /\ Takes(p, counter[p])
  <2>1. counter[p] \in Nat
    BY <1>1 DEF WriterInv, WriterTypeOK
  <2> QED
    BY <1>1, <2>1, TakesKeeps DEF Begin, WriterInv, Past
<1>2. CASE /\ counter[p] = None /\ at' = [at EXCEPT ![p] = "count"]
           /\ UNCHANGED <<hand, counter>>
  BY <1>2, AloneKeeps DEF Begin, WriterInv, WriterTypeOK, Alone, Past, Ordered, Busy
<1> QED
  BY <1>1, <1>2 DEF Begin

LEMMA ReadKeeps ==
  ASSUME WriterInv, NEW p \in Process, ReadCount(p)
  PROVE  WriterInv'
<1>1. mined \in Nat /\ answered[p] = <<>> /\ queue[p] # <<>>
  BY DEF ReadCount, WriterInv, WriterTypeOK, Past, Busy
<1> QED
  BY <1>1, TakesKeeps DEF ReadCount

(* A write that ends without a nonce, or whose nonce is kept or given back. *)
LEMMA OverKeeps ==
  ASSUME WriterInv, NEW p \in Process, queue[p] # <<>>, Ends(p, "failed"),
         slot' \in [Nonce -> Write \cup {None}],
         \/ counter' = counter
         \/ at[p] = "send" /\ counter' = [counter EXCEPT ![p] = hand[p]],
         UNCHANGED <<mined, hand, answered, writerRestarts>>
  PROVE  WriterInv'
<1>1. WriterTypeOK /\ (at[p] = "send" => hand[p] \in Nonce)
  BY DEF WriterInv, WriterTypeOK
<1>2. WriterTypeOK'
  <2>1. counter' \in [Process -> 0..(MaxNonce + 1) \cup {None}]
    <3>1. CASE counter' = counter
      BY <1>1, <3>1 DEF WriterTypeOK
    <3>2. CASE at[p] = "send" /\ counter' = [counter EXCEPT ![p] = hand[p]]
      <4>1. hand[p] \in 0..(MaxNonce + 1) \cup {None}
        BY <1>1, <3>2 DEF Nonce
      <4> QED
        BY <1>1, <3>2, <4>1 DEF WriterTypeOK
    <3> QED
      BY <3>1, <3>2
  <2> QED
    BY <1>1, <2>1, EndsType DEF WriterTypeOK
<1>3. Alone(p) /\ at'[p] = "idle"
  BY <1>1, EndsType DEF Alone, WriterTypeOK
<1>4. Past(p)' /\ Ordered(p)' /\ Busy(p)'
  BY <1>1, <1>3 DEF WriterInv, WriterTypeOK, Past, Ordered, Busy, Nonce
<1> QED
  BY <1>2, <1>3, <1>4, AloneKeeps

LEMMA AcceptedType ==
  ASSUME WriterInv, NEW p \in Process, Accepted(p), queue[p] # <<>>
  PROVE  /\ slot' \in [Nonce -> Write \cup {None}]
         /\ \A n \in Nonce : n # hand[p] => slot'[n] = slot[n]
<1>1. Current(p) \in Write
  BY DEF WriterInv, WriterTypeOK, Current
<1> QED
  BY <1>1 DEF WriterInv, WriterTypeOK, Accepted

LEMMA FailureKeeps ==
  ASSUME WriterInv, NEW p \in Process,
         \/ BeginFails(p) \/ ReadCountFails(p)
         \/ SendLost(p) \/ SendFails(p) \/ SendRefused(p)
  PROVE  WriterInv'
<1>1. queue[p] # <<>> /\ slot \in [Nonce -> Write \cup {None}]
  BY DEF WriterInv, WriterTypeOK, Busy, BeginFails, ReadCountFails, SendLost, SendFails,
     SendRefused
<1>2. CASE SendLost(p)
  BY <1>1, <1>2, AcceptedType, OverKeeps DEF SendLost
<1>3. CASE \/ BeginFails(p) \/ ReadCountFails(p)
           \/ SendFails(p) \/ SendRefused(p)
  BY <1>1, <1>3, OverKeeps DEF BeginFails, ReadCountFails, SendFails, SendRefused
<1> QED
  BY <1>2, <1>3

LEMMA ReturnKeeps ==
  ASSUME WriterInv, NEW p \in Process, SendReturns(p)
  PROVE  WriterInv'
<1>1. /\ WriterTypeOK /\ queue[p] # <<>> /\ at[p] = "send"
      /\ answered[p] \in Seq(Nonce) /\ hand[p] \in Nonce
      /\ counter[p] = hand[p] + 1 /\ counter[p] # None
      /\ \A i \in 1..Len(answered[p]) : answered[p][i] < hand[p]
  BY DEF WriterInv, WriterTypeOK, Past, Busy, SendReturns
<1> DEFINE new == Append(answered[p], hand[p])
<1>2. /\ new \in Seq(Nonce) /\ Len(new) = Len(answered[p]) + 1
      /\ Len(answered[p]) \in Nat /\ new[Len(new)] = hand[p]
      /\ \A i \in 1..Len(answered[p]) : new[i] = answered[p][i]
  BY <1>1
<1>3. /\ answered' \in [Process -> Seq(Nonce)] /\ answered'[p] = new
      /\ \A q \in Process : q # p => answered'[q] = answered[q]
  BY <1>1, <1>2 DEF SendReturns, WriterTypeOK
<1> HIDE DEF new
<1>4. WriterTypeOK'
  BY <1>1, <1>3, EndsType, AcceptedType DEF SendReturns, WriterTypeOK
<1>5. Alone(p) /\ at'[p] = "idle"
  BY <1>1, <1>3, EndsType DEF SendReturns, Alone
<1>6. \A i \in 1..Len(new) : new[i] < counter[p]
  BY <1>1, <1>2 DEF Nonce
<1>7. Past(p)' /\ Busy(p)'
  BY <1>1, <1>3, <1>5, <1>6 DEF SendReturns, Past, Busy
<1>8. Ordered(p)'
  <2> SUFFICES ASSUME NEW i \in 1..Len(new), NEW j \in 1..Len(new), i < j
               PROVE  new[i] < new[j]
    BY <1>3 DEF Ordered
  <2>1. i \in 1..Len(answered[p])
    BY <1>2
  <2>2. CASE j = Len(new)
    BY <1>1, <1>2, <2>1, <2>2
  <2>3. CASE j # Len(new)
    <3>1. j \in 1..Len(answered[p])
      BY <1>2, <2>3
    <3> QED
      BY <1>2, <2>1, <3>1 DEF WriterInv, Ordered
  <2> QED
    BY <2>2, <2>3
<1> QED
  BY <1>4, <1>5, <1>7, <1>8, AloneKeeps

LEMMA WriterRestartKeeps ==
  ASSUME WriterInv, NEW p \in Process, RestartWriter(p)
  PROVE  WriterInv'
<1>1. WriterTypeOK'
  BY DEF WriterInv, WriterTypeOK, RestartWriter
<1>2. /\ Alone(p) /\ at'[p] = "idle" /\ counter'[p] = None
      /\ answered'[p] = <<>>
  BY DEF WriterInv, WriterTypeOK, RestartWriter, Alone
<1>3. Past(p)' /\ Ordered(p)' /\ Busy(p)'
  BY <1>2 DEF Past, Ordered, Busy
<1> QED
  BY <1>1, <1>2, <1>3, AloneKeeps

LEMMA StillKeeps ==
  ASSUME WriterInv, Mine \/ UNCHANGED writerVars
  PROVE  WriterInv'
<1>1. WriterTypeOK'
  BY DEF WriterInv, WriterTypeOK, Mine, writerVars
<1>2. UNCHANGED <<counter, queue, at, hand, answered>>
  BY DEF Mine, writerVars
<1> QED
  BY <1>1, <1>2 DEF WriterInv, Past, Ordered, Busy

-----------------------------------------------------------------------------
(* The invariant holds from the first state on. *)
THEOREM WriterInvariance == WriterSpec => []WriterInv
<1>1. WriterInv /\ [WriterNext]_writerVars => WriterInv'
  <2> SUFFICES ASSUME WriterInv, [WriterNext]_writerVars PROVE WriterInv'
    OBVIOUS
  <2>1. CASE Mine \/ UNCHANGED writerVars
    BY <2>1, StillKeeps
  <2>2. ASSUME NEW p \in Process,
               Works(p) \/ RestartWriter(p) \/ \E w \in Write : Enqueue(p, w)
        PROVE  WriterInv'
    BY <2>2, EnqueueKeeps, BeginKeeps, ReadKeeps, FailureKeeps, ReturnKeeps,
       WriterRestartKeeps DEF Works, Sends
  <2> QED
    BY <2>1, <2>2 DEF WriterNext
<1> QED
  BY <1>1, WriterInitially, PTL DEF WriterSpec

(* No two writes of a process get the same nonce, and none overtakes
   another. *)
THEOREM NoncesInOrder == WriterSpec => []QueueOrder
<1>1. WriterInv => QueueOrder
  BY DEF WriterInv, Ordered, QueueOrder
<1> QED
  BY <1>1, WriterInvariance, PTL

(* No process replaces a transaction it has returned, however many write for
   the same account. *)
THEOREM ReturnedIsKept == WriterSpec => ReturnedStays
<1>1. ASSUME WriterInv, NEW p \in Process, Sends(p),
             NEW i \in 1..Len(answered[p])
      PROVE  slot'[answered[p][i]] = slot[answered[p][i]]
  <2>1. /\ answered[p][i] \in Nonce /\ hand[p] \in Nonce
        /\ answered[p][i] < hand[p] /\ queue[p] # <<>>
    BY <1>1 DEF WriterInv, WriterTypeOK, Past, Busy, Sends, SendReturns, SendLost,
       SendFails, SendRefused
  <2>2. CASE Accepted(p)
    BY <1>1, <2>1, <2>2, AcceptedType DEF Nonce
  <2>3. CASE UNCHANGED slot
    BY <2>3
  <2> QED
    BY <1>1, <2>2, <2>3 DEF Sends, SendReturns, SendLost, SendFails,
       SendRefused
<1>2. WriterInv => [\A p \in Process : Sends(p) =>
                 \A i \in 1..Len(answered[p]) :
                   slot'[answered[p][i]] = slot[answered[p][i]]]_writerVars
  BY <1>1
<1> QED
  BY <1>2, WriterInvariance, PTL DEF ReturnedStays

(* Every variable of the write queues keeps its type. *)
THEOREM WriterTypes == WriterSpec => []WriterTypeOK
<1>1. WriterInv => WriterTypeOK
  BY DEF WriterInv
<1> QED
  BY <1>1, WriterInvariance, PTL
=============================================================================
