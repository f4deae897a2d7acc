---------------------------- MODULE BatchProofs ----------------------------
(***************************************************************************)
(* Proofs about batches, for every number of rows and drivers: a completed *)
(* job has no pending row, and a row shows a certificate of its own.       *)
(***************************************************************************)
EXTENDS BatchIssuance, WellFoundedInduction, TLAPS

USE DEF NoCert

(* A set of rows that is not empty has a first row, and that is one of its
   own. *)
LEMMA FirstIsOne ==
  ASSUME NEW S, S \subseteq Rows, S # {}
  PROVE  First(S) \in S
<1>1. S \subseteq Nat
  BY BatchAssumption DEF Rows
<1>2. PICK x \in S : \A y \in S : ~(<<y, x>> \in OpToRel(<, Nat))
  BY <1>1, NatLessThanWellFounded, WFMin, Zenon
<1>3. OpToRel(<, Nat) = {ss \in Nat \X Nat : ss[1] < ss[2]}
  BY Zenon DEF OpToRel
<1>4. ASSUME NEW q \in S PROVE x <= q
  <2>1. <<q, x>> \notin {ss \in Nat \X Nat : ss[1] < ss[2]}
    BY <1>2, <1>3
  <2> QED
    BY <1>1, <2>1
<1> QED
  BY <1>4 DEF First

-----------------------------------------------------------------------------
Pending == {r \in Rows : row[r] = "PENDING"}

(* Before the job exists nobody works on it, and while its rows are being
   inserted nobody but its creator does. *)
Creation ==
  /\ job = "none" => \A d \in Driver : At(d, "idle")
  /\ \A d \in Driver : At(d, "insert") =>
       /\ job = "PENDING"
       /\ \A e \in Driver : e # d => At(e, "idle")

(* A driver that has read the rows still has every pending row before it,
   and has recorded its current one before it counts it. *)
Counting == {"count", "countLinked", "countFailed"}
Before   == {"idle", "insert", "load"}

Ahead ==
  \A d \in Driver :
    /\ driver[d].pc \notin Before => Pending \subseteq driver[d].todo
    /\ driver[d].pc \in Counting  => Current(d) \notin Pending
    /\ driver[d].pc \notin Before \cup {"row"} => driver[d].todo # {}

(* The certificate a driver is about to save is one for its row. *)
Holds ==
  \A d \in Driver : driver[d].pc \in {"issued", "save", "link"} =>
    /\ driver[d].cert \in 1..Len(certs)
    /\ KeyOf[certs[driver[d].cert]] = KeyOf[Current(d)]

IInv == TypeOK /\ Creation /\ Ahead /\ Holds
               /\ CompletedHasNoPending /\ LinkedIsOwn

-----------------------------------------------------------------------------
LEMMA Initially == Init => IInv
<1> SUFFICES ASSUME Init PROVE IInv
  OBVIOUS
<1>1. TypeOK
  BY BatchAssumption DEF Init, TypeOK, DriverState, DriverPC, Idle, Rows
<1> QED
  BY <1>1 DEF IInv, Init, Creation, Ahead, Holds, At, Idle, Before, Counting,
     Pending, CompletedHasNoPending, LinkedIsOwn

(* What a driver's record becomes, spelt out. *)
LEMMA GoesType ==
  ASSUME TypeOK, NEW d \in Driver, NEW pc \in DriverPC, Goes(d, pc)
  PROVE  /\ driver' \in [Driver -> DriverState]
         /\ driver'[d].pc = pc
         /\ driver'[d].todo = driver[d].todo
         /\ driver'[d].seen = driver[d].seen
         /\ driver'[d].cert = driver[d].cert
         /\ \A e \in Driver : e # d => driver'[e] = driver[e]
  BY DEF TypeOK, Goes, DriverState

LEMMA LeavesType ==
  ASSUME TypeOK, NEW d \in Driver, Leaves(d)
  PROVE  /\ driver' \in [Driver -> DriverState]
         /\ driver'[d].pc = "idle"
         /\ \A e \in Driver : e # d => driver'[e] = driver[e]
<1>1. Idle \in DriverState
  BY BatchAssumption DEF Idle, DriverState, DriverPC
<1> QED
  BY <1>1 DEF TypeOK, Leaves, Idle

(* An exception takes a driver to the catch block or out. *)
LEMMA ThrowsType ==
  ASSUME TypeOK, NEW d \in Driver, Throws(d)
  PROVE  /\ driver' \in [Driver -> DriverState]
         /\ \/ /\ driver'[d].pc = "fail"
               /\ driver'[d].todo = driver[d].todo
               /\ driver'[d].seen = driver[d].seen
               /\ driver[d].pc \in {"issue", "issued", "save", "count"}
            \/ driver'[d].pc = "idle"
         /\ \A e \in Driver : e # d => driver'[e] = driver[e]
<1>1. CASE driver[d].pc \in {"issue", "issued", "save", "count"}
  <2>1. Goes(d, "fail")
    BY <1>1 DEF Throws
  <2> QED
    BY <1>1, <2>1, GoesType DEF DriverPC
<1>2. CASE driver[d].pc \notin {"issue", "issued", "save", "count"}
  BY <1>2, LeavesType DEF Throws
<1> QED
  BY <1>1, <1>2

-----------------------------------------------------------------------------
(* The actions that only move a driver, or start a row. *)
Moves(d) == /\ UNCHANGED <<job, processed, row, link, certs>>
            /\ started' \in [Rows -> BOOLEAN]

(* What such an action must guarantee of the driver it moves. *)
Sound(d) ==
  /\ driver' \in [Driver -> DriverState]
  /\ \A e \in Driver : e # d => driver'[e] = driver[e]
  /\ driver'[d].pc # "insert"
  /\ driver'[d].pc # "idle" => job # "none"
  /\ driver'[d].pc # "idle" => \A e \in Driver : e # d => ~At(e, "insert")
  /\ driver'[d].pc \notin Before => Pending \subseteq driver'[d].todo
  /\ driver'[d].pc \notin Counting
  /\ driver'[d].pc \notin Before \cup {"row"} => driver'[d].todo # {}
  /\ driver'[d].pc \in {"issued", "save", "link"} =>
       /\ driver'[d].cert \in 1..Len(certs)
       /\ KeyOf[certs[driver'[d].cert]] = KeyOf[First(driver'[d].todo)]

LEMMA MoveKeeps ==
  ASSUME IInv, NEW d \in Driver, Moves(d), Sound(d)
  PROVE  IInv'
<1>1. TypeOK'
  BY DEF IInv, TypeOK, Moves, Sound
<1>2. Creation'
  BY DEF IInv, Creation, Moves, Sound, At
<1>3. Ahead'
  <2> SUFFICES ASSUME NEW e \in Driver
               PROVE  /\ driver'[e].pc \notin Before =>
                           Pending' \subseteq driver'[e].todo
                      /\ driver'[e].pc \in Counting =>
                           First(driver'[e].todo) \notin Pending'
                      /\ driver'[e].pc \notin Before \cup {"row"} =>
                           driver'[e].todo # {}
    BY DEF Ahead, Current
  <2>1. Pending' = Pending
    BY DEF Moves, Pending
  <2>2. CASE e = d
    BY <2>1, <2>2 DEF Sound
  <2>3. CASE e # d
    BY <2>1, <2>3 DEF Sound, IInv, Ahead, Current
  <2> QED
    BY <2>2, <2>3
<1>4. Holds'
  <2> SUFFICES ASSUME NEW e \in Driver,
                      driver'[e].pc \in {"issued", "save", "link"}
               PROVE  /\ driver'[e].cert \in 1..Len(certs)
                      /\ KeyOf[certs[driver'[e].cert]]
                           = KeyOf[First(driver'[e].todo)]
    BY DEF Holds, Current, Moves
  <2>1. CASE e = d
    BY <2>1 DEF Sound
  <2>2. CASE e # d
    BY <2>2 DEF Sound, IInv, Holds, Current
  <2> QED
    BY <2>1, <2>2
<1>5. CompletedHasNoPending' /\ LinkedIsOwn'
  BY DEF IInv, CompletedHasNoPending, LinkedIsOwn, Moves
<1> QED
  BY <1>1, <1>2, <1>3, <1>4, <1>5 DEF IInv

(* A driver at work: the job exists, and nobody is inserting its rows. *)
LEMMA AtWork ==
  ASSUME IInv, NEW d \in Driver, ~At(d, "idle"), ~At(d, "insert")
  PROVE  job # "none" /\ \A e \in Driver : ~At(e, "insert")
  BY DEF IInv, Creation, At

LEMMA ResumeKeeps ==
  ASSUME IInv, NEW d \in Driver, Resume(d)
  PROVE  IInv'
<1>1. Goes(d, "load") /\ Moves(d) /\ job # "none" /\ "load" \in DriverPC
  BY DEF Resume, Moves, DriverPC, IInv, TypeOK
<1>2. Sound(d)
  BY <1>1, GoesType DEF IInv, Resume, Sound, Before, Counting
<1> QED
  BY <1>1, <1>2, MoveKeeps

LEMMA LoadKeeps ==
  ASSUME IInv, NEW d \in Driver, LoadRows(d)
  PROVE  IInv'
<1> DEFINE seen == {r \in Pending : started[r]}
      D1 == [driver EXCEPT ![d].pc = "row"]
      D2 == [D1 EXCEPT ![d].todo = Pending]
      D3 == [D2 EXCEPT ![d].seen = seen]
<1>1. Moves(d) /\ TypeOK /\ driver' = D3
  BY DEF LoadRows, Moves, Pending, IInv, TypeOK
<1> HIDE DEF D1, D2, D3, seen
<1>2. /\ D1 \in [Driver -> DriverState] /\ D1[d].pc = "row"
      /\ \A e \in Driver : e # d => D1[e] = driver[e]
  BY <1>1 DEF TypeOK, DriverState, DriverPC, D1
<1>3. /\ D2 \in [Driver -> DriverState] /\ D2[d].pc = "row"
      /\ D2[d].todo = Pending
      /\ \A e \in Driver : e # d => D2[e] = driver[e]
  BY <1>2 DEF DriverState, D2, Pending
<1>4. /\ D3 \in [Driver -> DriverState] /\ D3[d].pc = "row"
      /\ D3[d].todo = Pending
      /\ \A e \in Driver : e # d => D3[e] = driver[e]
  BY <1>3 DEF DriverState, D3, Pending, seen
<1>5. Sound(d)
  BY <1>1, <1>4, AtWork DEF LoadRows, At, Sound, Before, Counting
<1> QED
  BY <1>1, <1>5, MoveKeeps

LEMMA FindKeeps ==
  ASSUME IInv, NEW d \in Driver, FindExisting(d)
  PROVE  IInv'
<1>1. Moves(d) /\ driver[d] \in DriverState /\ TypeOK
  BY DEF FindExisting, Moves, IInv, TypeOK
<1>2. CASE Existing(Current(d)) = {}
  <2>1. Goes(d, "issue") /\ "issue" \in DriverPC
    BY <1>2 DEF FindExisting, DriverPC
  <2>2. Sound(d)
    BY <1>1, <2>1, GoesType, AtWork DEF IInv, FindExisting, At, Sound, Before,
       Counting, Ahead
  <2> QED
    BY <1>1, <2>2, MoveKeeps
<1>3. CASE Existing(Current(d)) # {}
  <2>1. PICK i \in Existing(Current(d)) :
          driver' = [driver EXCEPT ![d] =
                      [driver[d] EXCEPT !.pc = "link", !.cert = i]]
    BY <1>3 DEF FindExisting
  <2>2. /\ i \in 1..Len(certs) /\ i \in 0..MaxCerts
        /\ KeyOf[certs[i]] = KeyOf[Current(d)]
    <3>1. i \in 1..Len(certs) /\ KeyOf[certs[i]] = KeyOf[Current(d)]
      BY <2>1 DEF Existing
    <3> QED
      BY <1>1, <3>1, BatchAssumption DEF TypeOK
  <2>3. [driver[d] EXCEPT !.pc = "link", !.cert = i] \in DriverState
    BY <1>1, <2>2 DEF DriverState, DriverPC
  <2>4. Sound(d)
    BY <1>1, <2>1, <2>2, <2>3, AtWork DEF IInv, TypeOK, FindExisting, At, Sound,
       Before, Counting, Ahead, DriverState, Current
  <2> QED
    BY <1>1, <2>4, MoveKeeps
<1> QED
  BY <1>2, <1>3

LEMMA ReturnKeeps ==
  ASSUME IInv, NEW d \in Driver, IssueReturns(d) \/ IssueRefuses(d)
  PROVE  IInv'
<1>1. Moves(d) /\ TypeOK /\ {"save", "link"} \subseteq DriverPC
  BY DEF IssueReturns, IssueRefuses, Moves, IInv, TypeOK, DriverPC
<1>2. CASE At(d, "issued") /\ (Goes(d, "save") \/ Goes(d, "link"))
  BY <1>1, <1>2, GoesType, AtWork, MoveKeeps DEF IInv, At, Sound, Before,
     Counting, Ahead, Holds, Current
<1>3. CASE (At(d, "issued") \/ At(d, "issue")) /\ Throws(d)
  BY <1>1, <1>3, ThrowsType, AtWork, MoveKeeps DEF IInv, At, Sound, Before,
     Counting, Ahead
<1> QED
  BY <1>2, <1>3 DEF IssueReturns, IssueRefuses

LEMMA DeathKeeps ==
  ASSUME IInv, NEW d \in Driver, Dies(d)
  PROVE  IInv'
<1>1. Moves(d) /\ TypeOK
  BY DEF Dies, Moves, IInv, TypeOK
<1>2. Sound(d)
  BY <1>1, LeavesType DEF Dies, Sound, Before, Counting
<1> QED
  BY <1>1, <1>2, MoveKeeps

LEMMA StartKeeps ==
  ASSUME IInv, NEW d \in Driver, StartRow(d)
  PROVE  IInv'
<1>1. Moves(d) /\ TypeOK /\ {"find", "issue"} \subseteq DriverPC
  BY DEF StartRow, Moves, IInv, TypeOK, DriverPC
<1>2. Goes(d, "find") \/ Goes(d, "issue")
  BY DEF StartRow
<1>3. Sound(d)
  BY <1>1, <1>2, GoesType, AtWork DEF IInv, StartRow, At, Sound, Before,
     Counting, Ahead
<1> QED
  BY <1>1, <1>3, MoveKeeps

-----------------------------------------------------------------------------
(* The actions that write. *)
LEMMA CreateKeeps ==
  ASSUME IInv, NEW d \in Driver, CreateJob(d)
  PROVE  IInv'
<1>1. /\ TypeOK /\ "insert" \in DriverPC /\ Goes(d, "insert")
      /\ \A e \in Driver : At(e, "idle")
  BY DEF CreateJob, IInv, Creation, DriverPC
<1>2. TypeOK'
  BY <1>1, GoesType DEF CreateJob, TypeOK
<1>3. Creation'
  BY <1>1, GoesType DEF CreateJob, Creation, At
<1>4. Ahead' /\ Holds'
  BY <1>1, GoesType DEF CreateJob, Ahead, Holds, Before, Counting, At
<1>5. CompletedHasNoPending' /\ LinkedIsOwn'
  BY DEF CreateJob, IInv, CompletedHasNoPending, LinkedIsOwn
<1> QED
  BY <1>2, <1>3, <1>4, <1>5 DEF IInv

LEMMA InsertKeeps ==
  ASSUME IInv, NEW d \in Driver, InsertRows(d)
  PROVE  IInv'
<1> DEFINE D1 == [driver EXCEPT ![d].pc = "row"]
           D2 == [D1 EXCEPT ![d].todo = Rows]
<1>1. TypeOK /\ driver' = D2 /\ job = "PENDING" /\ job' = job
  BY DEF InsertRows, IInv, Creation
<1>2. \A e \in Driver : e # d => At(e, "idle")
  BY DEF InsertRows, IInv, Creation
<1> HIDE DEF D1, D2
<1>3. /\ D1 \in [Driver -> DriverState] /\ D1[d].pc = "row"
      /\ \A e \in Driver : e # d => D1[e] = driver[e]
  BY <1>1 DEF TypeOK, DriverState, DriverPC, D1
<1>4. /\ D2 \in [Driver -> DriverState] /\ D2[d].pc = "row"
      /\ D2[d].todo = Rows
      /\ \A e \in Driver : e # d => D2[e] = driver[e]
  BY <1>3 DEF DriverState, D2
<1>5. TypeOK'
  BY <1>1, <1>4 DEF InsertRows, TypeOK
<1>6. Creation'
  BY <1>1, <1>2, <1>4 DEF Creation, At
<1>7. Ahead' /\ Holds'
  BY <1>1, <1>2, <1>4 DEF Ahead, Holds, Before, Counting, At, Pending
<1>8. CompletedHasNoPending' /\ LinkedIsOwn'
  BY <1>1 DEF InsertRows, CompletedHasNoPending, LinkedIsOwn
<1> QED
  BY <1>5, <1>6, <1>7, <1>8 DEF IInv

LEMMA IssueKeeps ==
  ASSUME IInv, NEW d \in Driver, IssueCreates(d)
  PROVE  IInv'
<1> DEFINE n  == Len(certs) + 1
           D1 == [driver EXCEPT ![d].pc = "issued"]
           D2 == [D1 EXCEPT ![d].cert = n]
<1>1. /\ TypeOK /\ driver' = D2 /\ Len(certs) \in Nat /\ n \in 0..MaxCerts
      /\ driver[d] \in DriverState /\ At(d, "issue")
  <2>1. TypeOK /\ driver' = D2 /\ At(d, "issue") /\ Len(certs) < MaxCerts
    BY DEF IssueCreates, IInv
  <2>2. Len(certs) \in Nat
    BY <2>1 DEF TypeOK
  <2> QED
    BY <2>1, <2>2, BatchAssumption DEF TypeOK
<1>2. Current(d) \in Rows
  <2>1. driver[d].todo \subseteq Rows /\ driver[d].todo # {}
    BY <1>1 DEF IInv, Ahead, Before, At, DriverState
  <2> QED
    BY <2>1, FirstIsOne DEF Current
<1>3. /\ certs' \in Seq(Rows) /\ Len(certs') = n /\ certs'[n] = Current(d)
      /\ \A i \in 1..Len(certs) : i \in 1..n /\ certs'[i] = certs[i]
  BY <1>1, <1>2 DEF IssueCreates, TypeOK
<1>n. n \in 1..n
  BY <1>1
<1> HIDE DEF n, D1, D2
<1>4. /\ D1 \in [Driver -> DriverState] /\ D1[d].pc = "issued"
      /\ D1[d].todo = driver[d].todo
      /\ \A e \in Driver : e # d => D1[e] = driver[e]
  BY <1>1 DEF TypeOK, DriverState, DriverPC, D1
<1>5. /\ D2 \in [Driver -> DriverState] /\ D2[d].pc = "issued"
      /\ D2[d].todo = driver[d].todo /\ D2[d].cert = n
      /\ \A e \in Driver : e # d => D2[e] = driver[e]
  BY <1>1, <1>4 DEF DriverState, D2
<1>6. TypeOK'
  <2>1. Len(certs') <= MaxCerts
    BY <1>1, <1>3, BatchAssumption
  <2> QED
    BY <1>1, <1>3, <1>5, <2>1 DEF IssueCreates, TypeOK
<1>7. Creation'
  BY <1>1, <1>5, AtWork DEF IssueCreates, IInv, Creation, At
<1>8. Ahead'
  BY <1>1, <1>5 DEF IssueCreates, IInv, Ahead, Before, Counting, At, Pending,
     Current
<1>9. Holds'
  <2> SUFFICES ASSUME NEW e \in Driver,
                      driver'[e].pc \in {"issued", "save", "link"}
               PROVE  /\ driver'[e].cert \in 1..Len(certs')
                      /\ KeyOf[certs'[driver'[e].cert]]
                           = KeyOf[First(driver'[e].todo)]
    BY DEF Holds, Current
  <2>1. CASE e = d
    BY <1>1, <1>3, <1>5, <1>n, <2>1 DEF Current
  <2>2. CASE e # d
    <3>1. driver'[e] = driver[e]
      BY <1>1, <1>5, <2>2
    <3>2. /\ driver[e].cert \in 1..Len(certs)
          /\ KeyOf[certs[driver[e].cert]] = KeyOf[First(driver[e].todo)]
      BY <3>1 DEF IInv, Holds, Current
    <3> QED
      BY <1>3, <3>1, <3>2
  <2> QED
    BY <2>1, <2>2
<1>10. CompletedHasNoPending' /\ LinkedIsOwn'
  BY <1>3 DEF IssueCreates, IInv, CompletedHasNoPending, LinkedIsOwn
<1> QED
  BY <1>6, <1>7, <1>8, <1>9, <1>10 DEF IInv

(* Saving an outcome for a driver's row, and where the driver goes then. *)
Landing == {"idle", "fail", "count", "countLinked", "countFailed"}

Lands(d) ==
  /\ driver' \in [Driver -> DriverState]
  /\ \A e \in Driver : e # d => driver'[e] = driver[e]
  /\ driver'[d].pc \in Landing
  /\ driver'[d].pc # "idle" => driver'[d].todo = driver[d].todo

LEMMA SaveKeeps ==
  ASSUME IInv, NEW d \in Driver, Lands(d),
         NEW st \in {"SUCCEEDED", "FAILED"}, NEW c \in 0..MaxCerts,
         MarkRowDone(Current(d), st, c),
         ~At(d, "idle"), ~At(d, "insert"), ~At(d, "load"), driver[d].todo # {},
         UNCHANGED <<job, processed, started, certs>>,
         st = "SUCCEEDED" => /\ c \in 1..Len(certs)
                             /\ KeyOf[certs[c]] = KeyOf[Current(d)]
  PROVE  IInv'
<1> DEFINE r == Current(d)
<1>1. TypeOK /\ driver[d].todo \subseteq Rows
  BY DEF IInv, TypeOK, DriverState
<1>2. r \in Rows /\ r = First(driver[d].todo)
  BY <1>1, FirstIsOne DEF Current
<1> HIDE DEF r
<1>3. row' = [row EXCEPT ![r] = st] /\ link' = [link EXCEPT ![r] = c]
  BY DEF MarkRowDone, r
<1>4. TypeOK'
  BY <1>1, <1>3 DEF TypeOK, Lands
<1>5. Creation'
  BY AtWork DEF IInv, Creation, Lands, Landing, At
<1>6. Pending' \subseteq Pending /\ r \notin Pending'
  BY <1>1, <1>2, <1>3 DEF Pending, TypeOK
<1>7. Ahead'
  <2> SUFFICES ASSUME NEW e \in Driver
               PROVE  /\ driver'[e].pc \notin Before =>
                           Pending' \subseteq driver'[e].todo
                      /\ driver'[e].pc \in Counting =>
                           First(driver'[e].todo) \notin Pending'
                      /\ driver'[e].pc \notin Before \cup {"row"} =>
                           driver'[e].todo # {}
    BY DEF Ahead, Current
  <2>1. CASE e = d
    BY <1>2, <1>6, <2>1 DEF Lands, IInv, Ahead, Before, Counting, At
  <2>2. CASE e # d
    BY <1>6, <2>2 DEF Lands, IInv, Ahead, Current
  <2> QED
    BY <2>1, <2>2
<1>8. Holds'
  <2> SUFFICES ASSUME NEW e \in Driver,
                      driver'[e].pc \in {"issued", "save", "link"}
               PROVE  /\ driver'[e].cert \in 1..Len(certs)
                      /\ KeyOf[certs[driver'[e].cert]]
                           = KeyOf[First(driver'[e].todo)]
    BY DEF Holds, Current
  <2>1. e # d
    BY DEF Lands, Landing
  <2> QED
    BY <2>1 DEF Lands, IInv, Holds, Current
<1>9. CompletedHasNoPending'
  BY <1>6 DEF IInv, CompletedHasNoPending, Pending
<1>10. LinkedIsOwn'
  <2> SUFFICES ASSUME NEW q \in Rows, row'[q] = "SUCCEEDED"
               PROVE  /\ link'[q] \in 1..Len(certs)
                      /\ KeyOf[certs[link'[q]]] = KeyOf[q]
    BY DEF LinkedIsOwn
  <2>1. CASE q = r
    BY <1>1, <1>2, <1>3, <2>1 DEF TypeOK, Current
  <2>2. CASE q # r
    BY <1>1, <1>3, <2>2 DEF TypeOK, IInv, LinkedIsOwn
  <2> QED
    BY <2>1, <2>2
<1> QED
  BY <1>4, <1>5, <1>7, <1>8, <1>9, <1>10 DEF IInv

(* A statement that was not applied moves the driver only. *)
LEMMA LandKeeps ==
  ASSUME IInv, NEW d \in Driver, Throws(d) \/ Leaves(d),
         ~At(d, "idle"), ~At(d, "insert"),
         UNCHANGED <<job, processed, row, started, link, certs>>
  PROVE  IInv'
<1>1. Moves(d) /\ TypeOK
  BY DEF Moves, IInv, TypeOK
<1>2. Sound(d)
  BY <1>1, ThrowsType, LeavesType, AtWork DEF IInv, At, Sound, Before,
     Counting, Ahead
<1> QED
  BY <1>1, <1>2, MoveKeeps

LEMMA SucceededKeeps ==
  ASSUME IInv, NEW d \in Driver, SaveSucceeded(d)
  PROVE  IInv'
<1>1. /\ TypeOK /\ {"count", "countLinked"} \subseteq DriverPC
      /\ driver[d].pc \in {"save", "link"}
      /\ UNCHANGED <<job, processed, started, certs>>
  BY DEF SaveSucceeded, IInv, DriverPC
<1>2. /\ ~At(d, "idle") /\ ~At(d, "insert") /\ ~At(d, "load")
      /\ driver[d].todo # {}
      /\ driver[d].cert \in 1..Len(certs) /\ driver[d].cert \in 0..MaxCerts
      /\ KeyOf[certs[driver[d].cert]] = KeyOf[Current(d)]
  BY <1>1 DEF IInv, Ahead, Holds, At, Before, TypeOK, DriverState
<1>3. CASE Throws(d) /\ UNCHANGED <<row, link>>
  BY <1>1, <1>2, <1>3, LandKeeps
<1>4. CASE /\ MarkRowDone(Current(d), "SUCCEEDED", driver[d].cert)
           /\ \/ Goes(d, IF At(d, "save") THEN "count" ELSE "countLinked")
              \/ Throws(d)
  <2>1. Lands(d)
    BY <1>1, <1>4, GoesType, ThrowsType DEF Lands, Landing
  <2> QED
    BY <1>1, <1>2, <1>4, <2>1, SaveKeeps
<1> QED
  BY <1>3, <1>4 DEF SaveSucceeded

LEMMA FailedKeeps ==
  ASSUME IInv, NEW d \in Driver, SaveFailed(d)
  PROVE  IInv'
<1>1. /\ TypeOK /\ "countFailed" \in DriverPC
      /\ NoCert \in 0..MaxCerts
      /\ UNCHANGED <<job, processed, started, certs>>
  BY BatchAssumption DEF SaveFailed, IInv, DriverPC
<1>2. /\ ~At(d, "idle") /\ ~At(d, "insert") /\ ~At(d, "load")
      /\ driver[d].todo # {}
  BY DEF SaveFailed, IInv, Ahead, At, Before
<1>3. CASE Leaves(d) /\ UNCHANGED <<row, link>>
  BY <1>1, <1>2, <1>3, LandKeeps
<1>4. CASE /\ MarkRowDone(Current(d), "FAILED", NoCert)
           /\ Goes(d, "countFailed") \/ Leaves(d)
  <2>1. Lands(d)
    BY <1>1, <1>4, GoesType, LeavesType DEF Lands, Landing
  <2> QED
    BY <1>1, <1>2, <1>4, <2>1, SaveKeeps
<1> QED
  BY <1>3, <1>4 DEF SaveFailed

(* What counting a row does to the driver that counts it. *)
LEMMA FinishedType ==
  ASSUME TypeOK, NEW d \in Driver, RowFinished(d)
  PROVE  /\ driver' \in [Driver -> DriverState]
         /\ driver'[d].pc = "row"
         /\ driver'[d].todo = driver[d].todo \ {Current(d)}
         /\ driver'[d].seen = driver[d].seen
         /\ \A e \in Driver : e # d => driver'[e] = driver[e]
<1> DEFINE left == driver[d].todo \ {Current(d)}
           D1 == [driver EXCEPT ![d].todo = left]
           D2 == [D1 EXCEPT ![d].pc = "row"]
           D3 == [D2 EXCEPT ![d].cert = NoCert]
<1>1. driver' = D3 /\ left \subseteq Rows
  BY DEF RowFinished, TypeOK, DriverState
<1> HIDE DEF D1, D2, D3, left
<1>2. /\ D1 \in [Driver -> DriverState] /\ D1[d].todo = left
      /\ D1[d].seen = driver[d].seen
      /\ \A e \in Driver : e # d => D1[e] = driver[e]
  BY <1>1 DEF D1, TypeOK, DriverState
<1>3. /\ D2 \in [Driver -> DriverState] /\ D2[d].todo = left
      /\ D2[d].seen = driver[d].seen
      /\ D2[d].pc = "row"
      /\ \A e \in Driver : e # d => D2[e] = driver[e]
  BY <1>2 DEF D2, DriverState, DriverPC
<1>4. /\ D3 \in [Driver -> DriverState] /\ D3[d].todo = left
      /\ D3[d].seen = driver[d].seen
      /\ D3[d].pc = "row"
      /\ \A e \in Driver : e # d => D3[e] = driver[e]
  BY <1>3, BatchAssumption DEF D3, DriverState
<1> QED
  BY <1>1, <1>4 DEF left

LEMMA CountKeeps ==
  ASSUME IInv, NEW d \in Driver, Count(d)
  PROVE  IInv'
<1>1. /\ TypeOK /\ driver[d].pc \in Counting
      /\ ~At(d, "idle") /\ ~At(d, "insert")
      /\ UNCHANGED <<row, started, link, certs>>
  BY DEF Count, IInv, Counting, At
<1>2. CASE Throws(d) /\ UNCHANGED <<processed, job>>
  BY <1>1, <1>2, LandKeeps
<1>3. ASSUME /\ processed' = IF processed > NumRows THEN processed
                                                   ELSE processed + 1
             /\ job' = "PROCESSING"
             /\ RowFinished(d) \/ Throws(d)
      PROVE  IInv'
  <2>1. /\ driver' \in [Driver -> DriverState]
        /\ \A e \in Driver : e # d => driver'[e] = driver[e]
        /\ \/ /\ driver'[d].pc = "row"
              /\ driver'[d].todo = driver[d].todo \ {Current(d)}
           \/ /\ driver'[d].pc = "fail"
              /\ driver'[d].todo = driver[d].todo
           \/ driver'[d].pc = "idle"
    BY <1>1, <1>3, FinishedType, ThrowsType
  <2>2. TypeOK'
    BY <1>1, <1>3, <2>1, BatchAssumption DEF TypeOK
  <2>3. Creation'
    BY <1>1, <1>3, <2>1, AtWork DEF IInv, Creation, At
  <2>4. Ahead'
    <3> SUFFICES ASSUME NEW e \in Driver
                 PROVE  /\ driver'[e].pc \notin Before =>
                             Pending \subseteq driver'[e].todo
                        /\ driver'[e].pc \in Counting =>
                             First(driver'[e].todo) \notin Pending
                        /\ driver'[e].pc \notin Before \cup {"row"} =>
                             driver'[e].todo # {}
      BY <1>1 DEF Ahead, Current, Pending
    <3>1. CASE e = d
      BY <1>1, <2>1, <3>1 DEF IInv, Ahead, Before, Counting
    <3>2. CASE e # d
      BY <2>1, <3>2 DEF IInv, Ahead, Current
    <3> QED
      BY <3>1, <3>2
  <2>5. Holds'
    BY <1>1, <2>1 DEF IInv, Holds, Current
  <2>6. CompletedHasNoPending' /\ LinkedIsOwn'
    BY <1>1, <1>3 DEF IInv, CompletedHasNoPending, LinkedIsOwn
  <2> QED
    BY <2>2, <2>3, <2>4, <2>5, <2>6 DEF IInv
<1> QED
  BY <1>2, <1>3 DEF Count

LEMMA CompleteKeeps ==
  ASSUME IInv, NEW d \in Driver, Complete(d)
  PROVE  IInv'
<1>1. TypeOK /\ Leaves(d)
  BY DEF Complete, IInv
<1>2. TypeOK'
  BY <1>1, LeavesType DEF Complete, TypeOK
<1>3. Creation'
  BY <1>1, LeavesType, AtWork DEF Complete, Creation, At
<1>4. Ahead' /\ Holds'
  BY <1>1, LeavesType DEF Complete, IInv, Ahead, Holds, Before, Counting,
     Current, Pending
<1>5. CompletedHasNoPending'
  <2>1. Pending = {}
    BY DEF Complete, IInv, Ahead, Before, At
  <2> QED
    BY <2>1 DEF Complete, CompletedHasNoPending, Pending
<1>6. LinkedIsOwn'
  BY DEF Complete, IInv, LinkedIsOwn
<1> QED
  BY <1>2, <1>3, <1>4, <1>5, <1>6 DEF IInv

-----------------------------------------------------------------------------
(* The invariant holds from the first state on. *)
THEOREM BatchInvariance == Spec => []IInv
<1>1. IInv /\ [Next]_vars => IInv'
  <2> SUFFICES ASSUME IInv, [Next]_vars PROVE IInv'
    OBVIOUS
  <2>1. CASE UNCHANGED vars
    BY <2>1 DEF vars, IInv, TypeOK, Creation, Ahead, Holds, At, Current,
       Pending, CompletedHasNoPending, LinkedIsOwn
  <2>2. ASSUME NEW d \in Driver, Step(d) \/ Resume(d) \/ Dies(d)
        PROVE  IInv'
    BY <2>2, CreateKeeps, InsertKeeps, LoadKeeps, StartKeeps, FindKeeps,
       IssueKeeps, ReturnKeeps, SucceededKeeps, FailedKeeps, CountKeeps,
       CompleteKeeps, ResumeKeeps, DeathKeeps DEF Step
  <2> QED
    BY <2>1, <2>2 DEF Next
<1> QED
  BY <1>1, Initially, PTL DEF Spec

(* A completed job has no pending row, for every number of rows and
   drivers. *)
THEOREM CompletedJob == Spec => []CompletedHasNoPending
<1>1. IInv => CompletedHasNoPending
  BY DEF IInv
<1> QED
  BY <1>1, BatchInvariance, PTL

(* A row shows a certificate of its own, whichever driver saved it. *)
THEOREM OwnCertificate == Spec => []LinkedIsOwn
<1>1. IInv => LinkedIsOwn
  BY DEF IInv
<1> QED
  BY <1>1, BatchInvariance, PTL

(* Every variable of a batch keeps its type: a driver stands at one of its
   statements and holds rows and a certificate that exist. *)
THEOREM BatchTypes == Spec => []TypeOK
<1>1. IInv => TypeOK
  BY DEF IInv
<1> QED
  BY <1>1, BatchInvariance, PTL

-----------------------------------------------------------------------------
(* Nothing is issued twice as long as drivers do not overlap: one ends, in
   whatever state it leaves the job, before the next takes it up. *)
OneAtATime == \A d, e \in Driver : d # e => At(d, "idle") \/ At(e, "idle")

Issued(r) == \E i \in 1..Len(certs) : certs[i] = r

(* Nothing is issued before the rows are inserted, nor for a row that is not
   started. *)
StartedFirst ==
  /\ job = "none" => Len(certs) = 0
  /\ \A d \in Driver : At(d, "insert") => Len(certs) = 0
  /\ \A r \in Rows : Issued(r) => started[r]

(* The rows a driver has not seen started and has not reached yet have no
   certificate, and neither has the one it is about to issue, which is
   started. *)
Untouched(d) == {r \in driver[d].todo \ (driver[d].seen \cup ByEmail) :
                   driver[d].pc = "row" \/ r # Current(d)}

Fresh ==
  \A d \in Driver : driver[d].pc \notin Before =>
    /\ \A r \in Untouched(d) : ~Issued(r)
    /\ At(d, "issue") /\ Current(d) \notin ByEmail => ~Issued(Current(d))
    /\ driver[d].pc \in {"find", "issue"} => started[Current(d)]

OnceInv == StartedFirst /\ Fresh /\ IssuedOnce

LEMMA OnceAtFirst == Init => OnceInv
<1> SUFFICES ASSUME Init PROVE OnceInv
  OBVIOUS
<1>1. Len(certs) = 0 /\ \A d \in Driver : driver[d].pc = "idle"
  BY DEF Init, Idle
<1> QED
  BY <1>1 DEF OnceInv, StartedFirst, Fresh, IssuedOnce, Issued, At, Before

(* A step of a driver that creates no certificate has to answer only for
   itself. *)
Careful(d) ==
  /\ certs' = certs
  /\ \A r \in Rows : started[r] => started'[r]
  /\ job' = "none" => job = "none"
  /\ \A e \in Driver : e # d => driver'[e] = driver[e]
  /\ driver'[d].pc = "insert" => Len(certs) = 0
  /\ driver'[d].pc \notin Before =>
       /\ \A r \in Untouched(d)' : ~Issued(r)
       /\ driver'[d].pc = "issue" /\ First(driver'[d].todo) \notin ByEmail =>
            ~Issued(First(driver'[d].todo))
       /\ driver'[d].pc \in {"find", "issue"} => started'[First(driver'[d].todo)]

LEMMA CarefulKeeps ==
  ASSUME IInv, OnceInv, NEW d \in Driver, Careful(d)
  PROVE  OnceInv'
<1>1. \A r : Issued(r)' <=> Issued(r)
  BY DEF Issued, Careful
<1>2. StartedFirst'
  <2>1. job' = "none" => Len(certs') = 0
    BY DEF Careful, OnceInv, StartedFirst
  <2>2. ASSUME NEW e \in Driver, At(e, "insert")' PROVE Len(certs') = 0
    <3>1. CASE e = d
      BY <2>2, <3>1 DEF Careful, At
    <3>2. CASE e # d
      BY <2>2, <3>2 DEF Careful, At, OnceInv, StartedFirst
    <3> QED
      BY <3>1, <3>2
  <2>3. \A r \in Rows : Issued(r)' => started'[r]
    BY <1>1 DEF Careful, OnceInv, StartedFirst
  <2> QED
    BY <2>1, <2>2, <2>3 DEF StartedFirst
<1>3. ASSUME NEW e \in Driver, driver'[e].pc \notin Before
      PROVE  /\ \A r \in Untouched(e)' : ~Issued(r)
             /\ driver'[e].pc = "issue" /\ First(driver'[e].todo) \notin ByEmail =>
                  ~Issued(First(driver'[e].todo))
             /\ driver'[e].pc \in {"find", "issue"} => started'[First(driver'[e].todo)]
  <2>1. CASE e = d
    BY <1>3, <2>1 DEF Careful
  <2>2. CASE e # d
    <3>1. driver'[e] = driver[e]
      BY <2>2 DEF Careful
    <3>2. Untouched(e)' = Untouched(e)
      BY <3>1 DEF Untouched, Current
    <3>3. /\ \A r \in Untouched(e) : ~Issued(r)
          /\ driver[e].pc = "issue" /\ Current(e) \notin ByEmail => ~Issued(Current(e))
          /\ driver[e].pc \in {"find", "issue"} => started[Current(e)]
      BY <1>3, <3>1 DEF OnceInv, Fresh, At
    <3>4. driver[e].pc \in {"find", "issue"} => started'[Current(e)]
      <4>1. ASSUME driver[e].pc \in {"find", "issue"} PROVE Current(e) \in Rows
        <5>1. driver[e].todo \subseteq Rows /\ driver[e].todo # {}
          BY <4>1 DEF IInv, TypeOK, DriverState, Ahead, Before
        <5> QED
          BY <5>1, FirstIsOne DEF Current
      <4> QED
        BY <3>3, <4>1 DEF Careful
    <3> QED
      BY <3>1, <3>2, <3>3, <3>4 DEF Current
  <2> QED
    BY <2>1, <2>2
<1>4. Fresh'
  BY <1>1, <1>3 DEF Fresh, At, Current
<1>5. IssuedOnce'
  BY DEF Careful, OnceInv, IssuedOnce
<1> QED
  BY <1>2, <1>4, <1>5 DEF OnceInv

(* Most steps leave the list of rows alone and pass the current row by. *)
LEMMA PassingKeeps ==
  ASSUME IInv, OnceInv, NEW d \in Driver,
         certs' = certs, started' = started, job' = "none" => job = "none",
         \A e \in Driver : e # d => driver'[e] = driver[e],
         \/ driver'[d].pc \in {"idle", "load"}
         \/ /\ driver[d].pc \notin Before
            /\ driver'[d].pc \notin {"row", "find", "issue", "insert"}
            /\ driver'[d].todo = driver[d].todo
            /\ driver'[d].seen = driver[d].seen
  PROVE  OnceInv'
<1>1. CASE driver'[d].pc \in {"idle", "load"}
  BY <1>1, CarefulKeeps DEF Careful, Before
<1>2. CASE /\ driver[d].pc \notin Before
           /\ driver'[d].pc \notin {"row", "find", "issue", "insert"}
           /\ driver'[d].todo = driver[d].todo
           /\ driver'[d].seen = driver[d].seen
  <2>1. Untouched(d)' \subseteq Untouched(d)
    BY <1>2 DEF Untouched, Current
  <2> QED
    BY <1>2, <2>1, CarefulKeeps DEF Careful, OnceInv, Fresh
<1> QED
  BY <1>1, <1>2

LEMMA OnceInsert ==
  ASSUME IInv, OnceInv, NEW d \in Driver, InsertRows(d)
  PROVE  OnceInv'
<1>1. Len(certs) = 0 /\ certs' = certs /\ started' = started /\ job' = job
  BY DEF InsertRows, OnceInv, StartedFirst
<1>2. \A r : ~Issued(r)
  BY <1>1 DEF Issued
<1> DEFINE D1 == [driver EXCEPT ![d].pc = "row"]
           D2 == [D1 EXCEPT ![d].todo = Rows]
<1>3. driver \in [Driver -> DriverState] /\ driver' = D2
  BY DEF InsertRows, IInv, TypeOK
<1> HIDE DEF D1, D2
<1>4. /\ D1 \in [Driver -> DriverState] /\ D1[d].pc = "row"
      /\ \A e \in Driver : e # d => D1[e] = driver[e]
  BY <1>3 DEF DriverState, DriverPC, D1
<1>5. /\ D2[d].pc = "row"
      /\ \A e \in Driver : e # d => D2[e] = driver[e]
  BY <1>4 DEF DriverState, D2
<1> QED
  BY <1>1, <1>2, <1>3, <1>5, CarefulKeeps DEF Careful

(* The rows that are read as not started have no certificate. *)
LEMMA OnceLoad ==
  ASSUME IInv, OnceInv, NEW d \in Driver, LoadRows(d)
  PROVE  OnceInv'
<1> DEFINE seen == {r \in Pending : started[r]}
      D1 == [driver EXCEPT ![d].pc = "row"]
      D2 == [D1 EXCEPT ![d].todo = Pending]
      D3 == [D2 EXCEPT ![d].seen = seen]
<1>1. /\ driver \in [Driver -> DriverState] /\ driver' = D3
      /\ certs' = certs /\ started' = started /\ job' = job
  BY DEF LoadRows, Pending, IInv, TypeOK
<1> HIDE DEF D1, D2, D3, seen
<1>2. /\ D1 \in [Driver -> DriverState] /\ D1[d].pc = "row"
      /\ \A e \in Driver : e # d => D1[e] = driver[e]
  BY <1>1 DEF DriverState, DriverPC, D1
<1>3. /\ D2 \in [Driver -> DriverState] /\ D2[d].pc = "row"
      /\ D2[d].todo = Pending
      /\ \A e \in Driver : e # d => D2[e] = driver[e]
  BY <1>2 DEF DriverState, D2, Pending
<1>4. /\ D3[d].pc = "row" /\ D3[d].todo = Pending /\ D3[d].seen = seen
      /\ \A e \in Driver : e # d => D3[e] = driver[e]
  BY <1>3 DEF DriverState, D3, Pending
<1>5. ASSUME NEW r \in Untouched(d)' PROVE ~Issued(r)
  <2>1. r \in Rows /\ r \in Pending \ seen
    BY <1>1, <1>4, <1>5 DEF Untouched, Pending
  <2>2. ~started[r]
    BY <2>1 DEF seen
  <2> QED
    BY <2>1, <2>2 DEF OnceInv, StartedFirst
<1> QED
  BY <1>1, <1>4, <1>5, CarefulKeeps DEF Careful

(* A row is issued at once only if it was read as not started. *)
LEMMA OnceStart ==
  ASSUME IInv, OnceInv, NEW d \in Driver, StartRow(d)
  PROVE  OnceInv'
<1> DEFINE r == Current(d)
<1>1. /\ TypeOK /\ {"find", "issue"} \subseteq DriverPC
      /\ Goes(d, IF r \in driver[d].seen THEN "find" ELSE "issue")
      /\ started' = [started EXCEPT ![r] = TRUE]
      /\ certs' = certs /\ job' = job
      /\ At(d, "row") /\ driver[d].todo # {} /\ driver[d].todo \subseteq Rows
  BY DEF StartRow, IInv, TypeOK, DriverPC, DriverState
<1>2. r \in driver[d].todo
  BY <1>1, FirstIsOne DEF Current
<1> HIDE DEF r
<1>3. \A q \in Rows : started[q] => started'[q]
  BY <1>1 DEF TypeOK
<1>4. /\ driver'[d].pc = IF r \in driver[d].seen THEN "find" ELSE "issue"
      /\ driver'[d].todo = driver[d].todo /\ driver'[d].seen = driver[d].seen
      /\ \A e \in Driver : e # d => driver'[e] = driver[e]
  <2>1. CASE r \in driver[d].seen
    BY <1>1, <2>1, GoesType
  <2>2. CASE r \notin driver[d].seen
    BY <1>1, <2>2, GoesType
  <2> QED
    BY <2>1, <2>2
<1>5. \A q \in Untouched(d) : ~Issued(q)
  BY <1>1 DEF OnceInv, Fresh, At, Before
<1>6. Untouched(d)' \subseteq Untouched(d)
  BY <1>1, <1>4 DEF Untouched, At
<1>7. r \notin driver[d].seen /\ r \notin ByEmail => r \in Untouched(d)
  BY <1>1, <1>2 DEF Untouched, At
<1>8. started'[r]
  BY <1>1, <1>2 DEF TypeOK
<1> QED
  BY <1>1, <1>3, <1>4, <1>5, <1>6, <1>7, <1>8, CarefulKeeps DEF Careful, Current, r

(* A row that was started before is issued again only if no certificate of
   its student, title and date is found. *)
LEMMA OnceFind ==
  ASSUME IInv, OnceInv, NEW d \in Driver, FindExisting(d)
  PROVE  OnceInv'
<1>1. /\ TypeOK /\ "issue" \in DriverPC /\ At(d, "find")
      /\ certs' = certs /\ started' = started /\ job' = job
  BY DEF FindExisting, IInv, DriverPC
<1>2. CASE Existing(Current(d)) = {}
  <2>1. Goes(d, "issue")
    BY <1>2 DEF FindExisting
  <2>2. Current(d) \notin ByEmail => ~Issued(Current(d))
    BY <1>2 DEF Existing, Issued
  <2>3. Untouched(d)' \subseteq Untouched(d)
    BY <1>1, <2>1, GoesType DEF Untouched, Current
  <2> QED
    BY <1>1, <2>1, <2>2, <2>3, GoesType, CarefulKeeps DEF Careful, OnceInv,
       Fresh, At, Before, Current
<1>3. CASE Existing(Current(d)) # {}
  <2>1. PICK i \in Existing(Current(d)) :
          driver' = [driver EXCEPT ![d] =
                      [driver[d] EXCEPT !.pc = "link", !.cert = i]]
    BY <1>3 DEF FindExisting
  <2>2. /\ driver'[d].pc = "link" /\ driver'[d].todo = driver[d].todo
        /\ driver'[d].seen = driver[d].seen
        /\ \A e \in Driver : e # d => driver'[e] = driver[e]
    BY <1>1, <2>1 DEF TypeOK, DriverState
  <2> QED
    BY <1>1, <2>2, PassingKeeps DEF At, Before
<1> QED
  BY <1>2, <1>3

(* The new certificate is its row's first one, and nobody else is at work. *)
LEMMA OnceIssue ==
  ASSUME IInv, OnceInv, OneAtATime, NEW d \in Driver, IssueCreates(d)
  PROVE  OnceInv'
<1> DEFINE n  == Len(certs) + 1
           r  == Current(d)
           D1 == [driver EXCEPT ![d].pc = "issued"]
           D2 == [D1 EXCEPT ![d].cert = n]
<1>1. /\ TypeOK /\ driver' = D2 /\ Len(certs) \in Nat /\ certs \in Seq(Rows)
      /\ driver \in [Driver -> DriverState] /\ At(d, "issue")
      /\ UNCHANGED <<job, started>> /\ job # "none"
      /\ certs' = Append(certs, r)
  <2>1. /\ UNCHANGED <<job, started>> /\ certs' = Append(certs, r)
        /\ driver' = D2 /\ At(d, "issue")
    BY DEF IssueCreates
  <2>2. job # "none"
    BY <2>1, AtWork DEF At
  <2> QED
    BY <2>1, <2>2 DEF IInv, TypeOK
<1>2. r \in Rows /\ r \in driver[d].todo
  <2>1. driver[d].todo \subseteq Rows /\ driver[d].todo # {}
    BY <1>1 DEF IInv, Ahead, Before, At, DriverState
  <2> QED
    BY <2>1, FirstIsOne DEF Current
<1>3. r \notin ByEmail => ~Issued(r)
  BY <1>1 DEF OnceInv, Fresh, At, Before
<1>4. n \in 0..MaxCerts
  BY <1>1, BatchAssumption DEF IssueCreates
<1>5. /\ certs' \in Seq(Rows) /\ Len(certs') = n /\ certs'[n] = r
      /\ \A i \in 1..Len(certs) : certs'[i] = certs[i]
  BY <1>1, <1>2
<1>6. started[r]
  BY <1>1 DEF OnceInv, Fresh, At, Before
<1>7. n \in DOMAIN certs' /\ n \notin 1..Len(certs) /\ 1..n = 1..Len(certs) \cup {n}
  BY <1>1, <1>5
<1> HIDE DEF n, r, D1, D2
<1>8. /\ D1 \in [Driver -> DriverState] /\ D1[d].pc = "issued"
      /\ D1[d].todo = driver[d].todo /\ D1[d].seen = driver[d].seen
      /\ \A e \in Driver : e # d => D1[e] = driver[e]
  BY <1>1 DEF DriverState, DriverPC, D1
<1>9. /\ D2[d].pc = "issued"
      /\ D2[d].todo = driver[d].todo /\ D2[d].seen = driver[d].seen
      /\ \A e \in Driver : e # d => D2[e] = driver[e]
  BY <1>1, <1>4, <1>8 DEF DriverState, D2
<1>10. \A e \in Driver : e # d => driver'[e].pc = "idle"
  BY <1>1, <1>9 DEF OneAtATime, At
<1>11. \A q : Issued(q)' => Issued(q) \/ q = r
  BY <1>5, <1>7 DEF Issued
<1>12. StartedFirst'
  BY <1>1, <1>6, <1>9, <1>10, <1>11 DEF OnceInv, StartedFirst, At
<1>13. Fresh'
  <2>1. Untouched(d)' \subseteq Untouched(d) \ {r}
    BY <1>1, <1>9 DEF Untouched, Current, At, r
  <2>2. \A q \in Untouched(d)' : ~Issued(q)'
    BY <1>1, <1>11, <2>1 DEF OnceInv, Fresh, At, Before
  <2> QED
    BY <1>1, <1>9, <1>10, <2>2 DEF Fresh, At, Before
<1>14. IssuedOnce'
  <2> SUFFICES ASSUME NEW i \in 1..Len(certs'), NEW j \in 1..Len(certs'),
                      certs'[i] = certs'[j], certs'[i] \notin ByEmail
               PROVE  i = j
    BY DEF IssuedOnce
  <2>1. CASE i \in 1..Len(certs) /\ j \in 1..Len(certs)
    BY <1>5, <2>1 DEF OnceInv, IssuedOnce
  <2>2. CASE i = n \/ j = n
    BY <1>3, <1>5, <1>7, <2>2 DEF Issued
  <2> QED
    BY <1>5, <1>7, <2>1, <2>2
<1> QED
  BY <1>12, <1>13, <1>14 DEF OnceInv

(* The other steps: the driver goes on behind its row, or leaves. *)
LEMMA OnceReturn ==
  ASSUME IInv, OnceInv, NEW d \in Driver, IssueReturns(d) \/ IssueRefuses(d)
  PROVE  OnceInv'
<1>1. /\ TypeOK /\ {"save", "link"} \subseteq DriverPC
      /\ certs' = certs /\ started' = started /\ job' = job
      /\ driver[d].pc \in {"issued", "issue"}
      /\ Goes(d, "save") \/ Goes(d, "link") \/ Throws(d)
  BY DEF IssueReturns, IssueRefuses, IInv, DriverPC, At
<1> QED
  BY <1>1, GoesType, ThrowsType, PassingKeeps DEF Before

LEMMA OnceSave ==
  ASSUME IInv, OnceInv, NEW d \in Driver, SaveSucceeded(d) \/ SaveFailed(d)
  PROVE  OnceInv'
<1>1. /\ TypeOK /\ {"count", "countLinked", "countFailed"} \subseteq DriverPC
      /\ certs' = certs /\ started' = started /\ job' = job
      /\ driver[d].pc \in {"save", "link", "fail", "row"}
  BY DEF SaveSucceeded, SaveFailed, IInv, DriverPC, At
<1>2. \/ Goes(d, "count") \/ Goes(d, "countLinked") \/ Goes(d, "countFailed")
      \/ Throws(d) \/ Leaves(d)
  BY DEF SaveSucceeded, SaveFailed
<1> QED
  BY <1>1, <1>2, GoesType, ThrowsType, LeavesType, PassingKeeps DEF Before

LEMMA OnceCount ==
  ASSUME IInv, OnceInv, NEW d \in Driver, Count(d)
  PROVE  OnceInv'
<1>1. /\ TypeOK /\ certs' = certs /\ started' = started
      /\ job' = "none" => job = "none"
      /\ driver[d].pc \in Counting
      /\ RowFinished(d) \/ Throws(d)
  BY DEF Count, IInv, Counting
<1>2. CASE Throws(d)
  BY <1>1, <1>2, ThrowsType, PassingKeeps DEF Before, Counting
<1>3. CASE RowFinished(d)
  <2>1. Untouched(d)' \subseteq Untouched(d)
    BY <1>1, <1>3, FinishedType DEF Untouched
  <2>2. \A r \in Untouched(d) : ~Issued(r)
    BY <1>1 DEF OnceInv, Fresh, Before, Counting
  <2> QED
    BY <1>1, <1>3, <2>1, <2>2, FinishedType, CarefulKeeps DEF Careful
<1> QED
  BY <1>1, <1>2, <1>3

LEMMA OnceMoves ==
  ASSUME IInv, OnceInv, NEW d \in Driver,
         CreateJob(d) \/ Resume(d) \/ Complete(d) \/ Dies(d)
  PROVE  OnceInv'
<1>1. /\ TypeOK /\ {"insert", "load"} \subseteq DriverPC
      /\ certs' = certs /\ started' = started
  BY DEF CreateJob, Resume, Complete, Dies, IInv, DriverPC
<1>2. CASE CreateJob(d)
  <2>1. /\ Goes(d, "insert") /\ job' = "PENDING" /\ Len(certs) = 0
    BY <1>2 DEF CreateJob, OnceInv, StartedFirst
  <2> QED
    BY <1>1, <2>1, GoesType, CarefulKeeps DEF Careful, Before
<1>3. CASE Resume(d)
  <2>1. Goes(d, "load") /\ job' = job
    BY <1>3 DEF Resume
  <2> QED
    BY <1>1, <2>1, GoesType, PassingKeeps
<1>4. CASE Complete(d) \/ Dies(d)
  <2>1. Leaves(d) /\ (job' = "none" => job = "none")
    BY <1>4 DEF Complete, Dies
  <2> QED
    BY <1>1, <2>1, LeavesType, PassingKeeps
<1> QED
  BY <1>2, <1>3, <1>4

LEMMA OnceStep == IInv /\ OnceInv /\ OneAtATime /\ [Next]_vars => OnceInv'
<1> SUFFICES ASSUME IInv, OnceInv, OneAtATime, [Next]_vars PROVE OnceInv'
  OBVIOUS
<1>1. CASE UNCHANGED vars
  BY <1>1 DEF vars, OnceInv, StartedFirst, Fresh, Untouched, Issued, IssuedOnce,
     At, Current
<1>2. ASSUME NEW d \in Driver, Step(d) \/ Resume(d) \/ Dies(d)
      PROVE  OnceInv'
  BY <1>2, OnceInsert, OnceLoad, OnceStart, OnceFind, OnceIssue, OnceReturn,
     OnceSave, OnceCount, OnceMoves DEF Step
<1> QED
  BY <1>1, <1>2 DEF Next

(* However often a driver dies between any two statements of a row, and
   whoever resumes the job, a student known by enrolment number gets one
   certificate per row, as long as no two drivers hold the job at once
   (started_at and findExistingCertificateForRow). *)
THEOREM NeverIssuedTwice == Spec /\ []OneAtATime => []IssuedOnce
<1>1. OnceInv => IssuedOnce
  BY DEF OnceInv
<1> QED
  BY <1>1, OnceAtFirst, OnceStep, BatchInvariance, PTL DEF Spec

(* In particular when there is one driver only, as in the checked instance. *)
THEOREM OneDriverIssuesOnce ==
  ASSUME \A d, e \in Driver : d = e
  PROVE  Spec => []IssuedOnce
<1>1. OneAtATime
  BY DEF OneAtATime
<1> QED
  BY <1>1, NeverIssuedTwice, PTL
=============================================================================
