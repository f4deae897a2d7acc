------------------------------ MODULE Registry ------------------------------
(***************************************************************************)
(* The contract SecureCredRegistry.sol on its chain, and the script that   *)
(* deploys it (contracts/scripts/deploy.js).  A transaction whose require  *)
(* fails reverts and changes nothing, so a revert is a disabled action.    *)
(* height is the block being built: a call is stamped with it, SealBlock   *)
(* closes it, and the chain head that a node reports is height - 1.  The   *)
(* log is the contract's event log, in order; a string argument is only    *)
(* empty or not, so an empty CID or reason is the guard that refuses it.   *)
(***************************************************************************)
EXTENDS Naturals, FiniteSets, Sequences

CONSTANTS Account,       \* addresses that send transactions
          NoAccount,     \* address(0)
          Deployer,      \* the account deploy.js signs with
          Custodian,     \* CUSTODIAN_ADDRESS, NoAccount when it is not set
          Hash,          \* certificate fingerprints
          MaxBlock,      \* bound: the last block the model builds
          MaxEvents      \* bound: the length of the event log

ASSUME RegistryAssumption ==
    /\ Deployer \in Account
    /\ Custodian \in Account \cup {NoAccount}
    /\ NoAccount \notin Account
    /\ IsFiniteSet(Hash)
    /\ MaxBlock \in Nat
    /\ MaxEvents \in Nat

VARIABLES deployment,     \* how far deploy.js has come
          issuers,        \* isIssuer
          records,        \* the private mapping records
          totalAnchored,
          log,            \* the events emitted so far
          height          \* the block being built

registryVars == <<deployment, issuers, records, totalAnchored, log, height>>

Record == [issuer : Account \cup {NoAccount}, issuedAt : Nat, revokedAt : Nat,
           exists : BOOLEAN, revoked : BOOLEAN]
NoRecord == [issuer |-> NoAccount, issuedAt |-> 0, revokedAt |-> 0,
             exists |-> FALSE, revoked |-> FALSE]

Event == [event : {"CertificateAnchored", "CertificateRevoked"}, hash : Hash,
          by : Account, block : Nat]
         \cup [event : {"IssuerRegistered", "IssuerDeregistered"},
               account : Account \cup {NoAccount}, block : Nat]

(* The bound on the log; a real log has none. *)
Room == Len(log) < MaxEvents

RegistryInit ==
    /\ deployment = "none"
    /\ issuers = {}
    /\ records = [h \in Hash |-> NoRecord]
    /\ totalAnchored = 0
    /\ log = <<>>
    /\ height = 0
-----------------------------------------------------------------------------
(* deploy.js: deploy, register the custodian if one is configured, write   *)
(* the deployment record.  It waits for each transaction, and may end      *)
(* between two of them.                                                    *)
owner == IF deployment = "none" THEN NoAccount ELSE Deployer

Deploy ==
    /\ deployment = "none"
    /\ deployment' = "deployed"
    /\ UNCHANGED <<issuers, records, totalAnchored, log, height>>

RegisterCustodian ==
    /\ deployment = "deployed"
    /\ Custodian # NoAccount
    /\ Room
    /\ deployment' = "registered"
    /\ issuers' = issuers \cup {Custodian}
    /\ log' = Append(log, [event |-> "IssuerRegistered", account |-> Custodian,
                           block |-> height])
    /\ UNCHANGED <<records, totalAnchored, height>>

WriteDeployment ==
    /\ \/ deployment = "registered"
       \/ deployment = "deployed" /\ Custodian = NoAccount
    /\ deployment' = "recorded"
    /\ UNCHANGED <<issuers, records, totalAnchored, log, height>>
-----------------------------------------------------------------------------
onlyOwner(sender) == deployment # "none" /\ sender = owner
onlyIssuer(sender) == sender \in issuers

registerIssuer(sender, account) ==
    /\ onlyOwner(sender)
    /\ Room
    /\ account # NoAccount
    /\ issuers' = issuers \cup {account}
    /\ log' = Append(log, [event |-> "IssuerRegistered", account |-> account,
                           block |-> height])
    /\ UNCHANGED <<deployment, records, totalAnchored, height>>

deregisterIssuer(sender, account) ==
    /\ onlyOwner(sender)
    /\ Room
    /\ issuers' = issuers \ {account}
    /\ log' = Append(log, [event |-> "IssuerDeregistered", account |-> account,
                           block |-> height])
    /\ UNCHANGED <<deployment, records, totalAnchored, height>>

anchorCertificate_Overwrites(sender, h) ==
    /\ onlyIssuer(sender)
    /\ Room
    /\ records' = [records EXCEPT ![h] =
                     [issuer |-> sender, issuedAt |-> height, revokedAt |-> 0,
                      exists |-> TRUE, revoked |-> FALSE]]
    /\ totalAnchored' = totalAnchored + 1
    /\ log' = Append(log, [event |-> "CertificateAnchored", hash |-> h,
                           by |-> sender, block |-> height])
    /\ UNCHANGED <<deployment, issuers, height>>

anchorCertificate(sender, h) ==
    /\ onlyIssuer(sender)
    /\ Room
    /\ ~records[h].exists
    /\ records' = [records EXCEPT ![h] =
                     [issuer |-> sender, issuedAt |-> height, revokedAt |-> 0,
                      exists |-> TRUE, revoked |-> FALSE]]
    /\ totalAnchored' = totalAnchored + 1
    /\ log' = Append(log, [event |-> "CertificateAnchored", hash |-> h,
                           by |-> sender, block |-> height])
    /\ UNCHANGED <<deployment, issuers, height>>

revokeCertificate_Anyone(sender, h) ==
    /\ Room
    /\ records[h].exists
    /\ ~records[h].revoked
    /\ records' = [records EXCEPT ![h].revoked = TRUE, ![h].revokedAt = height]
    /\ log' = Append(log, [event |-> "CertificateRevoked", hash |-> h,
                           by |-> sender, block |-> height])
    /\ UNCHANGED <<deployment, issuers, totalAnchored, height>>

revokeCertificate_Again(sender, h) ==
    /\ onlyIssuer(sender)
    /\ Room
    /\ records[h].exists
    /\ records' = [records EXCEPT ![h].revoked = TRUE, ![h].revokedAt = height]
    /\ log' = Append(log, [event |-> "CertificateRevoked", hash |-> h,
                           by |-> sender, block |-> height])
    /\ UNCHANGED <<deployment, issuers, totalAnchored, height>>

(* Any issuer may revoke, not only the one that anchored. *)
revokeCertificate(sender, h) ==
    /\ onlyIssuer(sender)
    /\ Room
    /\ records[h].exists
    /\ ~records[h].revoked
    /\ records' = [records EXCEPT ![h].revoked = TRUE, ![h].revokedAt = height]
    /\ log' = Append(log, [event |-> "CertificateRevoked", hash |-> h,
                           by |-> sender, block |-> height])
    /\ UNCHANGED <<deployment, issuers, totalAnchored, height>>

(* The view function: an unknown hash is simply not issued. *)
checkCertificate(h) ==
    [isIssued |-> records[h].exists, isRevoked |-> records[h].revoked]

(* A node reports the last sealed block as the chain head. *)
ChainHead == height - 1
SealBlock ==
    /\ height < MaxBlock
    /\ height' = height + 1
    /\ UNCHANGED <<deployment, issuers, records, totalAnchored, log>>

RegistryNext ==
    \/ Deploy
    \/ RegisterCustodian
    \/ WriteDeployment
    \/ SealBlock
    \/ \E sender \in Account, account \in Account \cup {NoAccount} :
           registerIssuer(sender, account)
    \/ \E sender \in Account, account \in Account \cup {NoAccount} :
           deregisterIssuer(sender, account)
    \/ \E sender \in Account, h \in Hash : anchorCertificate(sender, h)
    \/ \E sender \in Account, h \in Hash : revokeCertificate(sender, h)

RegistrySpec == RegistryInit /\ [][RegistryNext]_registryVars
-----------------------------------------------------------------------------
RegistryTypeOK ==
    /\ deployment \in {"none", "deployed", "registered", "recorded"}
    /\ issuers \subseteq Account
    /\ records \in [Hash -> Record]
    /\ totalAnchored \in Nat
    /\ log \in Seq(Event)
    /\ height \in 0 .. MaxBlock

(* totalAnchored is the number of certificates that exist: it is counted   *)
(* beside the records (anchorCertificate) and never recomputed.            *)
Anchored == {h \in Hash : records[h].exists}
CountsAnchored == totalAnchored = Cardinality(Anchored)

(* The event log, which is all the worker ever reads back, says the same   *)
(* as the storage: a certificate exists exactly when one anchor event names *)
(* it, it is revoked exactly when one revocation event does, and the        *)
(* revocation comes after the anchor, in the blocks the record is stamped   *)
(* with.                                                                    *)
Entries(kind, h) ==
    {i \in DOMAIN log : log[i].event = kind /\ log[i].hash = h}
LogTellsRecords ==
    \A h \in Hash :
        LET anchors == Entries("CertificateAnchored", h)
            revokes == Entries("CertificateRevoked", h) IN
        /\ records[h].exists <=> anchors # {}
        /\ records[h].revoked <=> revokes # {}
        /\ \A i, j \in anchors : i = j
        /\ \A i, j \in revokes : i = j
        /\ \A i \in anchors : /\ log[i].block = records[h].issuedAt
                              /\ log[i].by = records[h].issuer
        /\ \A i \in revokes : log[i].block = records[h].revokedAt
        /\ \A i \in anchors, j \in revokes : i < j

(* Whoever anchored or revoked was an issuer at that moment: the last word  *)
(* of the log on that account, before the entry, is its registration.       *)
Standing(account, i) ==
    {j \in 1 .. (i - 1) : log[j].event \in {"IssuerRegistered", "IssuerDeregistered"}
                          /\ log[j].account = account}
ActedAsIssuer ==
    \A i \in DOMAIN log :
        log[i].event \in {"CertificateAnchored", "CertificateRevoked"} =>
            \E j \in Standing(log[i].by, i) :
                /\ log[j].event = "IssuerRegistered"
                /\ \A k \in Standing(log[i].by, i) : k <= j

(* A record is written once: nothing changes who anchored a certificate or *)
(* when, and a revocation is never taken back or stamped again.             *)
RecordsAreKept ==
    [][\A h \in Hash :
          /\ records[h].exists =>
                /\ records'[h].exists
                /\ records'[h].issuer = records[h].issuer
                /\ records'[h].issuedAt = records[h].issuedAt
          /\ records[h].revoked =>
                records'[h] = records[h]]_registryVars
(* The contract is honest about itself: its counter, its log and its       *)
(* records say the same, and only issuers wrote them.                      *)
RegistryHonest == RegistryTypeOK /\ CountsAnchored /\ LogTellsRecords /\ ActedAsIssuer
=============================================================================
