-------------------------- MODULE MembershipProofs --------------------------
(***************************************************************************)
(* Proofs about membership, for any people, tabs, institutions and         *)
(* requests: whoever acts for an institution was admitted to it, and what  *)
(* was decided or founded stays so.                                        *)
(***************************************************************************)
EXTENDS Membership, FiniteSetTheorems, TLAPS

ScopeRecord == [email : Email \cup {None}, role : Role \cup {None},
                inst : Code \cup {None}, student : Email \cup {None}]
Pc == {"idle", "linkFind", "linkWrite", "upsert", "findCode", "create", "joinFind",
       "joinInsert", "provFind", "provWrite", "decide", "leave", "resolve", "view", "answer"}
Op == {"none", "student", "institution", "webhook", "APPROVED", "REJECTED", "leave", "issue",
       "view"}
Local == [pc : Pc, op : Op, auth : ScopeRecord, code : Code \cup {None},
          request : Request \cup {None}, clerk : Clerk \cup {None},
          email : Email \cup {None}, found : BOOLEAN, shown : Email \cup {None}]

(* The tables: an account's owner signs in with its address, an open or
   decided request has its author's, and nobody is in without a cause. *)
Owned ==
  \A e \in Email : account[e] # None /\ account[e].clerk # None => EmailOf[account[e].clerk] = e
Asked ==
  \A r \in Request : join[r] # None => join[r].email = EmailOf[join[r].clerk]
OneEach ==
  \A r1, r2 \in Request :
     /\ join[r1] # None /\ join[r1].status = "PENDING"
     /\ join[r2] # None /\ join[r2].status = "PENDING"
     /\ join[r1].inst = join[r2].inst /\ join[r1].clerk = join[r2].clerk
     => r1 = r2
Tables ==
  /\ account \in [Email -> Account \cup {None}]
  /\ founder \in [Code -> Email \cup {None, "seed"}]
  /\ join \in [Request -> Join \cup {None}]
  /\ holder \in [Email -> Code \cup {None}]
DataInv == Tables /\ Owned /\ Asked /\ OneEach /\ StaffWereAdmitted /\ ApproversWereAdmitted

(* What requireAuth has read of the caller, however long ago. *)
AuthOk(a) ==
  /\ a.role = "institution" => a.email \in Email /\ account[a.email] # None
  /\ a.inst # None => a.inst \in Code /\ a.email \in Email /\ Admitted(a.email, a.inst)
  /\ a.student # None => a.student = a.email

(* A request between two statements. *)
Personal == {"linkFind", "linkWrite", "upsert", "findCode", "create", "joinFind",
             "joinInsert", "provFind", "provWrite"}
Coded == Personal \ {"linkFind", "linkWrite"}
Fits(q) ==
  /\ AuthOk(q.auth)
  /\ q.pc \in Personal => q.clerk \in Clerk /\ q.email = EmailOf[q.clerk]
  /\ q.pc \in Coded => q.code \in Code
  /\ q.pc \in {"upsert", "provFind", "provWrite"} => Admitted(q.email, q.code)
  /\ q.pc \in {"linkWrite", "provWrite"} /\ q.found => account[q.email] # None
  /\ q.pc = "decide" =>
       /\ q.op \in Decision /\ q.request \in Request /\ join[q.request] # None
       /\ q.auth.role = "institution" /\ q.auth.inst = q.code /\ q.code \in Code
       /\ join[q.request].inst = q.code /\ join[q.request].clerk = q.clerk
       /\ join[q.request].email = q.email
  /\ q.pc = "leave" => q.auth.role = "institution"
  /\ q.pc = "resolve" => q.email \in Email /\ q.auth.inst \in Code
  /\ q.pc = "view" => q.email \in Email
  /\ q.shown # None => /\ q.shown \in Email /\ holder[q.shown] # None
                       /\ \/ q.auth.email = q.shown
                          \/ q.auth.email \in Email /\ Admitted(q.auth.email, holder[q.shown])

MInv ==
  /\ DataInv
  /\ ops \in 0 .. MaxOps
  /\ session \in [Session -> Local]
  /\ \A s \in Session : Fits(session[s])

(* What no statement undoes. *)
Lasts ==
  /\ \A e \in Email : account[e] # None => account'[e] # None
  /\ \A c \in Code : founder[c] # None => founder'[c] = founder[c]
  /\ \A r \in Request : join[r] # None =>
       /\ join'[r] # None /\ join'[r].inst = join[r].inst
       /\ join'[r].clerk = join[r].clerk /\ join'[r].email = join[r].email
       /\ join[r].status # "PENDING" => join'[r] = join[r]
  /\ \A e \in Email : holder[e] # None => holder'[e] = holder[e]

(* A request's locals keep their types when one of them is assigned. *)
LEMMA AssignPc ==
  ASSUME NEW p \in Local, NEW x \in Pc PROVE [p EXCEPT !.pc = x] \in Local
BY DEF Local
LEMMA AssignOp ==
  ASSUME NEW p \in Local, NEW x \in Op PROVE [p EXCEPT !.op = x] \in Local
BY DEF Local
LEMMA AssignAuth ==
  ASSUME NEW p \in Local, NEW x \in ScopeRecord PROVE [p EXCEPT !.auth = x] \in Local
BY DEF Local
LEMMA AssignCode ==
  ASSUME NEW p \in Local, NEW x \in Code \cup {None} PROVE [p EXCEPT !.code = x] \in Local
BY DEF Local
LEMMA AssignRequest ==
  ASSUME NEW p \in Local, NEW x \in Request \cup {None} PROVE [p EXCEPT !.request = x] \in Local
BY DEF Local
LEMMA AssignClerk ==
  ASSUME NEW p \in Local, NEW x \in Clerk \cup {None} PROVE [p EXCEPT !.clerk = x] \in Local
BY DEF Local
LEMMA AssignEmail ==
  ASSUME NEW p \in Local, NEW x \in Email \cup {None} PROVE [p EXCEPT !.email = x] \in Local
BY DEF Local
LEMMA AssignFound ==
  ASSUME NEW p \in Local, NEW x \in BOOLEAN PROVE [p EXCEPT !.found = x] \in Local
BY DEF Local
LEMMA AssignShown ==
  ASSUME NEW p \in Local, NEW x \in Email \cup {None} PROVE [p EXCEPT !.shown = x] \in Local
BY DEF Local

LEMMA MailOf == \A k \in Clerk : EmailOf[k] \in Email
BY MembershipAssumption

LEMMA AdmittedLasts ==
  ASSUME Lasts, NEW e \in Email, NEW c \in Code, Admitted(e, c)
  PROVE  Admitted(e, c)'
BY MembershipAssumption DEF Lasts, Admitted

LEMMA AuthLasts ==
  ASSUME Lasts, NEW a, AuthOk(a)
  PROVE  AuthOk(a)'
<1>1. a.inst # None => a.inst \in Code /\ a.email \in Email /\ Admitted(a.email, a.inst)'
  BY AdmittedLasts DEF AuthOk
<1> QED
  BY <1>1 DEF AuthOk, Lasts

LEMMA FitsLasts ==
  ASSUME Lasts, Tables, NEW q \in Local, Fits(q)
  PROVE  Fits(q)'
<1>1. AuthOk(q.auth)'
  BY AuthLasts DEF Fits
<1>2. q.pc \in {"upsert", "provFind", "provWrite"} => Admitted(q.email, q.code)'
  BY AdmittedLasts, MailOf DEF Fits, Personal, Coded
<1>3. q.pc \in {"linkWrite", "provWrite"} /\ q.found => account'[q.email] # None
  BY MailOf DEF Fits, Lasts, Personal
<1>4. ASSUME q.shown # None
      PROVE  /\ q.shown \in Email /\ holder'[q.shown] # None
             /\ \/ q.auth.email = q.shown
                \/ q.auth.email \in Email /\ Admitted(q.auth.email, holder[q.shown])'
  <2> PICK c : c = holder[q.shown]
    OBVIOUS
  <2>1. q.shown \in Email /\ c \in Code /\ c # None /\ holder'[q.shown] = c
    BY <1>4 DEF Fits, Lasts, Tables
  <2>2. \/ q.auth.email = q.shown
        \/ q.auth.email \in Email /\ Admitted(q.auth.email, c)
    BY <1>4 DEF Fits
  <2>3. \/ q.auth.email = q.shown
        \/ q.auth.email \in Email /\ Admitted(q.auth.email, c)'
    BY <2>1, <2>2, AdmittedLasts
  <2> QED
    BY <2>1, <2>3 DEF Admitted
<1> QED
  BY <1>1, <1>2, <1>3, <1>4 DEF Fits, Lasts

-----------------------------------------------------------------------------
LEMMA DataStays ==
  ASSUME DataInv, UNCHANGED data
  PROVE  DataInv' /\ Lasts
<1>1. UNCHANGED <<account, founder, join, holder>>
  BY DEF data
<1>2. Tables' /\ Owned' /\ Asked' /\ OneEach'
  BY <1>1 DEF DataInv, Tables, Owned, Asked, OneEach
<1>3. StaffWereAdmitted' /\ ApproversWereAdmitted'
  BY <1>1 DEF DataInv, StaffWereAdmitted, ApproversWereAdmitted, Admitted
<1>4. Lasts
  BY <1>1 DEF Lasts
<1> QED
  BY <1>2, <1>3, <1>4 DEF DataInv

LEMMA SessionStep ==
  ASSUME MInv, DataInv', Lasts, ops' \in 0 .. MaxOps,
         NEW s \in Session, NEW q \in Local, session' = [session EXCEPT ![s] = q], Fits(q)'
  PROVE  MInv'
<1>1. session' \in [Session -> Local]
  BY DEF MInv
<1>2. ASSUME NEW t \in Session PROVE Fits(session[t])'
  <2>1. CASE t = s
    <3>1. session'[t] = q
      BY <2>1 DEF MInv
    <3> QED
      BY <3>1
  <2>2. CASE t # s
    <3> PICK p : p = session[t]
      OBVIOUS
    <3>1. session'[t] = p /\ p \in Local
      BY <2>2 DEF MInv
    <3>2. Fits(p)
      BY DEF MInv
    <3>3. Fits(p)'
      BY <3>1, <3>2, FitsLasts DEF MInv, DataInv
    <3> QED
      BY <3>1, <3>3
  <2> QED
    BY <2>1, <2>2
<1> QED
  BY <1>1, <1>2 DEF MInv

LEMMA IdleFits == Idle \in Local /\ Fits(Idle)'
<1>1. NoScope \in ScopeRecord
  BY DEF NoScope, ScopeRecord
<1>2. Idle \in Local
  <2>1. "idle" \in Pc /\ "none" \in Op
    BY DEF Pc, Op
  <2> QED
    BY <1>1, <2>1 DEF Idle, Local
<1>3. AuthOk(NoScope)'
  BY NoneAssumption DEF AuthOk, NoScope, Role
<1>4. Idle.auth = NoScope /\ Idle.pc = "idle" /\ Idle.shown = None
  BY DEF Idle
<1> QED
  BY <1>2, <1>3, <1>4 DEF Fits, Personal, Coded

LEMMA Ended ==
  ASSUME MInv, DataInv', Lasts, NEW s \in Session, End(s)
  PROVE  MInv'
BY IdleFits, SessionStep DEF End, MInv

(* What requireAuth reads is so. *)
LEMMA ScopeOk ==
  ASSUME DataInv, NEW k \in Clerk
  PROVE  Scope(k) \in ScopeRecord /\ AuthOk(Scope(k))
<1>1. CASE Rows(k) = {}
  <2>1. Scope(k) = NoScope
    BY <1>1 DEF Scope
  <2>2. NoScope \in ScopeRecord /\ AuthOk(NoScope)
    BY NoneAssumption DEF AuthOk, NoScope, Role, ScopeRecord
  <2> QED
    BY <2>1, <2>2
<1>2. CASE Rows(k) # {}
  <2> DEFINE e == CHOOSE x \in Rows(k) : TRUE
             a == account[e]
             student == IF holder[e] = None THEN None ELSE e
             q == [email |-> e, role |-> a.role, inst |-> a.inst, student |-> student]
  <2>1. e \in Rows(k)
    BY <1>2
  <2>2. Scope(k) = q
    BY <1>2 DEF Scope
  <2> HIDE DEF e
  <2>3. e \in Email /\ a # None /\ a \in Account
    BY <2>1 DEF Rows, DataInv, Tables
  <2>4. a.role \in Role /\ a.inst \in Code \cup {None}
    BY <2>3 DEF Account
  <2>5. student \in {None, e}
    OBVIOUS
  <2> HIDE DEF student
  <2>6. q \in ScopeRecord
    BY <2>3, <2>4, <2>5 DEF ScopeRecord
  <2>7. a.inst # None => Admitted(e, a.inst)
    BY <2>3 DEF DataInv, StaffWereAdmitted
  <2>8. AuthOk(q)
    BY <2>3, <2>4, <2>5, <2>7 DEF AuthOk
  <2> QED
    BY <2>2, <2>6, <2>8
<1> QED
  BY <1>1, <1>2

(* A new request knows the caller as the tables know it. *)
LEMMA Started ==
  ASSUME MInv, NEW s \in Session, NEW op \in Op, NEW pc \in Pc, NEW args \in Local,
         Start(s, op, pc, args), NEW q, NEW scope, scope = Scope(UserOf[s]),
         q = [args EXCEPT !.pc = pc, !.op = op, !.auth = scope],
         Fits(q)
  PROVE  MInv'
<1>1. scope \in ScopeRecord
  BY ScopeOk, MembershipAssumption DEF MInv
<1>2. q \in Local
  BY <1>1, AssignPc, AssignOp, AssignAuth
<1>3. session' = [session EXCEPT ![s] = q]
  BY DEF Start
<1>4. DataInv' /\ Lasts
  BY DataStays DEF Start, MInv
<1>5. Fits(q)'
  BY <1>2, <1>4, FitsLasts DEF MInv, DataInv
<1>6. ops' \in 0 .. MaxOps
  BY MembershipAssumption DEF Start, MInv
<1> QED
  BY <1>2, <1>3, <1>4, <1>5, <1>6, SessionStep

(* A statement that changes no table moves its request on. *)
LEMMA Moved ==
  ASSUME MInv, NEW s \in Session, NEW q \in Local, DataInv', Lasts, UNCHANGED ops,
         session' = [session EXCEPT ![s] = q], Fits(q)'
  PROVE  MInv'
BY SessionStep DEF MInv

-----------------------------------------------------------------------------
(* New requests. *)
LEMMA SelfOk ==
  ASSUME NEW s \in Session
  PROVE  /\ Self(s) \in Local /\ Self(s).shown = None /\ Self(s).code = None
         /\ Self(s).clerk = UserOf[s] /\ UserOf[s] \in Clerk
         /\ Self(s).email = EmailOf[UserOf[s]] /\ ~Self(s).found
<1>1. Idle \in Local
  BY IdleFits
<1>2. UserOf[s] \in Clerk /\ EmailOf[UserOf[s]] \in Email
  BY MembershipAssumption, MailOf
<1>3. Self(s) \in Local
  BY <1>1, <1>2, AssignClerk, AssignEmail DEF Self
<1>4. /\ Self(s).shown = None /\ Self(s).code = None /\ Self(s).clerk = UserOf[s]
      /\ Self(s).email = EmailOf[UserOf[s]] /\ ~Self(s).found
  BY DEF Self, Idle
<1> QED
  BY <1>2, <1>3, <1>4

LEMMA ChooseStudentKeeps ==
  ASSUME MInv, NEW s \in Session, ChooseStudent(s)
  PROVE  MInv'
<1> PICK scope : scope = Scope(UserOf[s])
  OBVIOUS
<1> PICK args : args = Self(s)
  OBVIOUS
<1> DEFINE q == [args EXCEPT !.pc = "linkFind", !.op = "student", !.auth = scope]
<1>1. args \in Local /\ args.clerk \in Clerk /\ args.email = EmailOf[args.clerk]
      /\ args.shown = None
  BY SelfOk
<1>2. AuthOk(scope)
  BY ScopeOk, MembershipAssumption DEF MInv
<1>3. /\ q.pc = "linkFind" /\ q.auth = scope /\ q.clerk = args.clerk
      /\ q.email = args.email /\ q.shown = args.shown
  BY <1>1 DEF Local
<1>4. Fits(q)
  BY <1>1, <1>2, <1>3 DEF Fits, Personal, Coded
<1>5. Start(s, "student", "linkFind", args)
  BY DEF ChooseStudent
<1>6. "student" \in Op /\ "linkFind" \in Pc
  BY DEF Op, Pc
<1> QED
  BY <1>1, <1>4, <1>5, <1>6, Started

LEMMA ChooseInstitutionKeeps ==
  ASSUME MInv, NEW s \in Session, NEW c \in Code, ChooseInstitution(s, c)
  PROVE  MInv'
<1> PICK scope : scope = Scope(UserOf[s])
  OBVIOUS
<1> PICK args : args = [Self(s) EXCEPT !.code = c]
  OBVIOUS
<1> DEFINE q == [args EXCEPT !.pc = "findCode", !.op = "institution", !.auth = scope]
<1>1. args \in Local
  BY SelfOk, AssignCode
<1>2. args.clerk \in Clerk /\ args.email = EmailOf[args.clerk] /\ args.shown = None
      /\ args.code = c
  BY SelfOk DEF Local
<1>3. AuthOk(scope)
  BY ScopeOk, MembershipAssumption DEF MInv
<1>4. /\ q.pc = "findCode" /\ q.auth = scope /\ q.clerk = args.clerk
      /\ q.email = args.email /\ q.shown = args.shown /\ q.code = args.code
  BY <1>1 DEF Local
<1>5. Fits(q)
  BY <1>2, <1>3, <1>4 DEF Fits, Personal, Coded
<1>6. Start(s, "institution", "findCode", args)
  BY DEF ChooseInstitution
<1>7. "institution" \in Op /\ "findCode" \in Pc
  BY DEF Op, Pc
<1> QED
  BY <1>1, <1>5, <1>6, <1>7, Started

(* A webhook's metadata admits its user. *)
LEMMA WebhookKeeps ==
  ASSUME MInv, NEW s \in Session, Webhook(s)
  PROVE  MInv'
<1> PICK scope : scope = Scope(UserOf[s])
  OBVIOUS
<1> PICK k : k = UserOf[s]
  OBVIOUS
<1> PICK args : args = [Self(s) EXCEPT !.code = Seeded[k]]
  OBVIOUS
<1> PICK pc : pc = IF Seeded[k] = None THEN "linkFind" ELSE "upsert"
  OBVIOUS
<1> DEFINE q == [args EXCEPT !.pc = pc, !.op = "webhook", !.auth = scope]
<1>1. k \in Clerk /\ Seeded[k] \in Code \cup {None}
  BY MembershipAssumption
<1>2. args \in Local
  BY <1>1, SelfOk, AssignCode
<1>3. args.clerk = k /\ args.email = EmailOf[k] /\ args.shown = None /\ args.code = Seeded[k]
  BY SelfOk DEF Local
<1>4. AuthOk(scope)
  BY ScopeOk, MembershipAssumption DEF MInv
<1>5. /\ q.pc = pc /\ q.auth = scope /\ q.clerk = args.clerk
      /\ q.email = args.email /\ q.shown = args.shown /\ q.code = args.code
  BY <1>2 DEF Local
<1>6. pc = "upsert" => q.code \in Code /\ Admitted(q.email, q.code)
  BY <1>1, <1>3, <1>5 DEF Admitted
<1>7. pc \in {"linkFind", "upsert"}
  OBVIOUS
<1>8. Fits(q)
  BY <1>1, <1>3, <1>4, <1>5, <1>6, <1>7 DEF Fits, Personal, Coded
<1>9. Start(s, "webhook", pc, args)
  BY DEF Webhook
<1>10. "webhook" \in Op /\ pc \in Pc
  BY <1>7 DEF Op, Pc
<1> QED
  BY <1>2, <1>8, <1>9, <1>10, Started

LEMMA StartLeaveKeeps ==
  ASSUME MInv, NEW s \in Session, StartLeave(s)
  PROVE  MInv'
<1> PICK scope : scope = Scope(UserOf[s])
  OBVIOUS
<1> DEFINE q == [Idle EXCEPT !.pc = "leave", !.op = "leave", !.auth = scope]
<1>1. AuthOk(scope) /\ scope.role = "institution"
  BY ScopeOk, MembershipAssumption DEF MInv, StartLeave
<1>2. q.pc = "leave" /\ q.auth = scope /\ q.shown = None
  BY DEF Idle
<1>3. Fits(q)
  BY <1>1, <1>2 DEF Fits, Personal, Coded
<1>4. Start(s, "leave", "leave", Idle)
  BY DEF StartLeave
<1>5. "leave" \in Op /\ "leave" \in Pc
  BY DEF Op, Pc
<1> QED
  BY <1>3, <1>4, <1>5, IdleFits, Started

(* The request to decide is one of the caller's institution. *)
LEMMA StartDecisionKeeps ==
  ASSUME MInv, NEW s \in Session, NEW r \in Request, NEW decision \in Decision,
         StartDecision(s, r, decision)
  PROVE  MInv'
<1> PICK scope : scope = Scope(UserOf[s])
  OBVIOUS
<1> PICK j : j = join[r]
  OBVIOUS
<1> PICK args : args = [Idle EXCEPT !.request = r, !.clerk = j.clerk, !.email = j.email,
                                    !.code = scope.inst]
  OBVIOUS
<1> DEFINE q == [args EXCEPT !.pc = "decide", !.op = decision, !.auth = scope]
<1>1. j # None /\ j.inst = scope.inst /\ scope.role = "institution"
  BY DEF StartDecision, Opens
<1>2. j \in Join
  BY <1>1 DEF MInv, DataInv, Tables
<1>3. j.clerk \in Clerk /\ j.email \in Email /\ j.inst \in Code
  BY <1>2 DEF Join
<1>4. args \in Local
  BY <1>1, <1>3, IdleFits, AssignRequest, AssignClerk, AssignEmail, AssignCode
<1>5. /\ args.request = r /\ args.clerk = j.clerk /\ args.email = j.email
      /\ args.code = scope.inst /\ args.shown = None
  BY DEF Idle
<1>6. AuthOk(scope)
  BY ScopeOk, MembershipAssumption DEF MInv
<1>7. /\ q.pc = "decide" /\ q.op = decision /\ q.auth = scope /\ q.clerk = args.clerk
      /\ q.email = args.email /\ q.shown = args.shown /\ q.code = args.code
      /\ q.request = args.request
  BY <1>4 DEF Local
<1>8. Fits(q)
  BY <1>1, <1>3, <1>5, <1>6, <1>7 DEF Fits, Personal, Coded
<1>9. Start(s, decision, "decide", args)
  BY DEF StartDecision
<1>10. decision \in Op /\ "decide" \in Pc
  BY DEF Op, Pc, Decision
<1> QED
  BY <1>4, <1>8, <1>9, <1>10, Started

LEMMA StartIssueKeeps ==
  ASSUME MInv, NEW s \in Session, NEW e \in Email, StartIssue(s, e)
  PROVE  MInv'
<1> PICK scope : scope = Scope(UserOf[s])
  OBVIOUS
<1> PICK args : args = [Idle EXCEPT !.email = e]
  OBVIOUS
<1> DEFINE q == [args EXCEPT !.pc = "resolve", !.op = "issue", !.auth = scope]
<1>1. AuthOk(scope) /\ scope.inst # None
  BY ScopeOk, MembershipAssumption DEF MInv, StartIssue
<1>2. args \in Local /\ args.email = e /\ args.shown = None
  BY IdleFits, AssignEmail DEF Idle
<1>3. q.pc = "resolve" /\ q.auth = scope /\ q.email = e /\ q.shown = None
  BY <1>2 DEF Local
<1>4. Fits(q)
  BY <1>1, <1>3 DEF Fits, Personal, Coded, AuthOk
<1>5. Start(s, "issue", "resolve", args)
  BY DEF StartIssue
<1>6. "issue" \in Op /\ "resolve" \in Pc
  BY DEF Op, Pc
<1> QED
  BY <1>2, <1>4, <1>5, <1>6, Started

LEMMA StartViewKeeps ==
  ASSUME MInv, NEW s \in Session, NEW e \in Email, StartView(s, e)
  PROVE  MInv'
<1> PICK scope : scope = Scope(UserOf[s])
  OBVIOUS
<1> PICK args : args = [Idle EXCEPT !.email = e]
  OBVIOUS
<1> DEFINE q == [args EXCEPT !.pc = "view", !.op = "view", !.auth = scope]
<1>1. AuthOk(scope)
  BY ScopeOk, MembershipAssumption DEF MInv
<1>2. args \in Local /\ args.email = e /\ args.shown = None
  BY IdleFits, AssignEmail DEF Idle
<1>3. q.pc = "view" /\ q.auth = scope /\ q.email = e /\ q.shown = None
  BY <1>2 DEF Local
<1>4. Fits(q)
  BY <1>1, <1>3 DEF Fits, Personal, Coded
<1>5. Start(s, "view", "view", args)
  BY DEF StartView
<1>6. "view" \in Op /\ "view" \in Pc
  BY DEF Op, Pc
<1> QED
  BY <1>2, <1>4, <1>5, <1>6, Started

-----------------------------------------------------------------------------
(* The statements that follow.  A request goes on with the same caller and *)
(* person, having shown nothing. *)
LEMMA GoesOn ==
  ASSUME MInv, DataInv', Lasts, NEW s \in Session, NEW pc \in Personal, Goto(s, pc),
         pc \notin {"upsert", "provWrite", "linkWrite"},
         NEW p, p = session[s], p.clerk \in Clerk, p.email = EmailOf[p.clerk],
         pc \in Coded => p.code \in Code,
         pc = "provFind" => Admitted(p.email, p.code)'
  PROVE  MInv'
<1> DEFINE q == [p EXCEPT !.pc = pc]
<1>1. p \in Local /\ Fits(p)
  BY DEF MInv
<1>2. Fits(p)'
  BY <1>1, FitsLasts DEF MInv, DataInv
<1>3. q \in Local
  BY <1>1, AssignPc DEF Personal, Pc
<1>4. /\ q.pc = pc /\ q.auth = p.auth /\ q.clerk = p.clerk /\ q.email = p.email
      /\ q.code = p.code /\ q.shown = p.shown
  BY <1>1 DEF Local
<1>5. session' = [session EXCEPT ![s] = q] /\ UNCHANGED ops
  BY DEF Goto
<1> HIDE DEF q
<1>6. pc = "provFind" => Admitted(q.email, q.code)'
  BY <1>4
<1>7. Fits(q)'
  BY <1>2, <1>4, <1>6 DEF Fits, Personal
<1> QED
  BY <1>3, <1>5, <1>7, Moved

LEMMA LinkFindKeeps ==
  ASSUME MInv, NEW s \in Session, LinkFind(s)
  PROVE  MInv'
<1> PICK p : p = session[s]
  OBVIOUS
<1> PICK found : found = (account[p.email] # None)
  OBVIOUS
<1> DEFINE q == [p EXCEPT !.pc = "linkWrite", !.found = found]
<1>1. p \in Local /\ Fits(p) /\ p.pc = "linkFind"
  BY DEF MInv, LinkFind, At
<1>2. session' = [session EXCEPT ![s] = q] /\ UNCHANGED data /\ UNCHANGED ops
  BY DEF LinkFind
<1>3. DataInv' /\ Lasts
  BY <1>2, DataStays DEF MInv
<1>4. found \in BOOLEAN
  OBVIOUS
<1>5. q \in Local
  BY <1>1, <1>4, AssignPc, AssignFound DEF Pc
<1>6. /\ q.pc = "linkWrite" /\ q.found = found /\ q.auth = p.auth /\ q.clerk = p.clerk
      /\ q.email = p.email /\ q.code = p.code /\ q.shown = p.shown
  BY <1>1 DEF Local
<1>7. found => account[q.email] # None
  BY <1>6
<1> HIDE DEF q
<1>8. Fits(q)
  BY <1>1, <1>6, <1>7 DEF Fits, Personal, Coded
<1>9. Fits(q)'
  BY <1>3, <1>5, <1>8, FitsLasts DEF MInv, DataInv
<1> QED
  BY <1>2, <1>3, <1>5, <1>9, Moved

LEMMA ProvisionFindKeeps ==
  ASSUME MInv, NEW s \in Session, ProvisionFind(s)
  PROVE  MInv'
<1> PICK p : p = session[s]
  OBVIOUS
<1> PICK found : found = (account[p.email] # None)
  OBVIOUS
<1> DEFINE q == [p EXCEPT !.pc = "provWrite", !.found = found]
<1>1. p \in Local /\ Fits(p) /\ p.pc = "provFind"
  BY DEF MInv, ProvisionFind, At
<1>2. session' = [session EXCEPT ![s] = q] /\ UNCHANGED data /\ UNCHANGED ops
  BY DEF ProvisionFind
<1>3. DataInv' /\ Lasts
  BY <1>2, DataStays DEF MInv
<1>4. found \in BOOLEAN
  OBVIOUS
<1>5. q \in Local
  BY <1>1, <1>4, AssignPc, AssignFound DEF Pc
<1>6. /\ q.pc = "provWrite" /\ q.found = found /\ q.auth = p.auth /\ q.clerk = p.clerk
      /\ q.email = p.email /\ q.code = p.code /\ q.shown = p.shown
  BY <1>1 DEF Local
<1>7. found => account[q.email] # None
  BY <1>6
<1> HIDE DEF q
<1>8. Fits(q)
  BY <1>1, <1>6, <1>7 DEF Fits, Personal, Coded
<1>9. Fits(q)'
  BY <1>3, <1>5, <1>8, FitsLasts DEF MInv, DataInv
<1> QED
  BY <1>2, <1>3, <1>5, <1>9, Moved

(* One account is written: of its owner, and with a cause. *)
LEMMA AccountStep ==
  ASSUME DataInv, UNCHANGED <<founder, join>>, holder' \in [Email -> Code \cup {None}],
         \A d \in Email : holder[d] # None => holder'[d] = holder[d],
         NEW e \in Email, NEW a \in Account,
         account' = [account EXCEPT ![e] = a],
         a.clerk # None => EmailOf[a.clerk] = e,
         a.inst # None => Admitted(e, a.inst)
  PROVE  DataInv' /\ Lasts
<1>1. a # None
  BY NoneAssumption
<1>2. account'[e] = a /\ \A d \in Email \ {e} : account'[d] = account[d]
  BY DEF DataInv, Tables
<1>3. Tables'
  BY DEF DataInv, Tables
<1>4. Owned' /\ Asked' /\ OneEach'
  BY <1>2 DEF DataInv, Owned, Asked, OneEach
<1>5. ASSUME NEW d \in Email, NEW c, Admitted(d, c) PROVE Admitted(d, c)'
  BY <1>5 DEF Admitted
<1>6. StaffWereAdmitted'
  <2> SUFFICES ASSUME NEW d \in Email, account'[d] # None, account'[d].inst # None,
                      NEW c, c = account'[d].inst
               PROVE  Admitted(d, c)'
    BY DEF StaffWereAdmitted, Admitted
  <2>1. Admitted(d, c)
    BY <1>2 DEF DataInv, StaffWereAdmitted
  <2> QED
    BY <1>5, <2>1
<1>7. ApproversWereAdmitted'
  BY DEF DataInv, ApproversWereAdmitted, Admitted
<1>8. Lasts
  BY <1>1, <1>2 DEF Lasts
<1> QED
  BY <1>3, <1>4, <1>6, <1>7, <1>8 DEF DataInv

LEMMA LinkWriteKeeps ==
  ASSUME MInv, NEW s \in Session, LinkWrite(s)
  PROVE  MInv'
<1> PICK p : p = session[s]
  OBVIOUS
<1> PICK e : e = p.email
  OBVIOUS
<1> PICK k : k = p.clerk
  OBVIOUS
<1>1. Fits(p) /\ p.pc = "linkWrite"
  BY DEF MInv, LinkWrite, At
<1>2. k \in Clerk /\ e = EmailOf[k] /\ e \in Email /\ (p.found => account[e] # None)
  BY <1>1, MailOf DEF Fits, Personal
<1>3. UNCHANGED <<founder, join, holder>> /\ End(s) /\ holder \in [Email -> Code \cup {None}]
  BY DEF LinkWrite, MInv, DataInv, Tables
<1>4. CASE account' = account
  BY <1>3, <1>4, DataStays, Ended DEF MInv, data
<1>5. CASE p.found /\ account' = [account EXCEPT ![e].clerk = k]
  <2> PICK a : a = [account[e] EXCEPT !.clerk = k]
    OBVIOUS
  <2>1. account[e] \in Account
    BY <1>2, <1>5 DEF MInv, DataInv, Tables
  <2>2. a \in Account /\ a.clerk = k /\ a.inst = account[e].inst
    BY <1>2, <2>1 DEF Account
  <2>3. account' = [account EXCEPT ![e] = a]
    BY <1>5
  <2>4. a.inst # None => Admitted(e, a.inst)
    BY <1>2, <1>5, <2>2 DEF MInv, DataInv, StaffWereAdmitted
  <2> QED
    BY <1>2, <1>3, <2>2, <2>3, <2>4, AccountStep, Ended DEF MInv
<1>6. CASE account' = [account EXCEPT ![e] = [clerk |-> k, role |-> "student", inst |-> None]]
  <2> PICK a : a = [clerk |-> k, role |-> "student", inst |-> None]
    OBVIOUS
  <2>1. a \in Account /\ a.clerk = k /\ a.inst = None
    BY <1>2 DEF Account, Role
  <2>2. account' = [account EXCEPT ![e] = a]
    BY <1>6
  <2> QED
    BY <1>2, <1>3, <2>1, <2>2, AccountStep, Ended DEF MInv
<1> QED
  BY <1>4, <1>5, <1>6 DEF LinkWrite

(* The webhook writes the row of its user, found by the user or by the     *)
(* address. *)
LEMMA UpsertKeeps ==
  ASSUME MInv, NEW s \in Session, Upsert(s)
  PROVE  MInv'
<1> PICK p : p = session[s]
  OBVIOUS
<1> PICK e : e = p.email
  OBVIOUS
<1> PICK k : k = p.clerk
  OBVIOUS
<1> PICK c : c = p.code
  OBVIOUS
<1>1. Fits(p) /\ p.pc = "upsert"
  BY DEF MInv, Upsert, At
<1>2. k \in Clerk /\ e = EmailOf[k] /\ e \in Email /\ c \in Code
  BY <1>1, MailOf DEF Fits, Personal, Coded
<1>3. UNCHANGED <<founder, join, holder>> /\ End(s) /\ holder \in [Email -> Code \cup {None}]
  BY DEF Upsert, MInv, DataInv, Tables
<1>4. Admitted(e, c)
  BY <1>1 DEF Fits
<1>5. CASE account' = account
  BY <1>3, <1>5, DataStays, Ended DEF MInv, data
<1>6. ASSUME Rows(k) # {}, NEW m, m = CHOOSE x \in Rows(k) : TRUE,
             account' = [account EXCEPT ![m].inst = c]
      PROVE  MInv'
  <2>1. m \in Rows(k)
    BY <1>6
  <2>2. m \in Email /\ account[m] # None /\ account[m].clerk = k
    BY <2>1 DEF Rows
  <2>3. m = e
    BY <1>2, <2>2, MembershipAssumption DEF MInv, DataInv, Owned
  <2>4. account[e] \in Account
    BY <2>2, <2>3 DEF MInv, DataInv, Tables
  <2> PICK a : a = [account[e] EXCEPT !.inst = c]
    OBVIOUS
  <2>5. a \in Account /\ a.clerk = k /\ a.inst = c
    BY <1>2, <2>2, <2>3, <2>4 DEF Account
  <2>6. account' = [account EXCEPT ![e] = a]
    BY <1>6, <2>3
  <2> QED
    BY <1>2, <1>3, <1>4, <2>5, <2>6, AccountStep, Ended DEF MInv
<1>7. CASE account' = [account EXCEPT ![e] = [clerk |-> k, role |-> "institution", inst |-> c]]
  <2> PICK a : a = [clerk |-> k, role |-> "institution", inst |-> c]
    OBVIOUS
  <2>1. a \in Account /\ a.clerk = k /\ a.inst = c
    BY <1>2 DEF Account, Role
  <2>2. account' = [account EXCEPT ![e] = a]
    BY <1>7
  <2> QED
    BY <1>2, <1>3, <1>4, <2>1, <2>2, AccountStep, Ended DEF MInv
<1> QED
  BY <1>5, <1>6, <1>7 DEF Upsert

(* Of the founder, or of the person who was approved. *)
LEMMA ProvisionWriteKeeps ==
  ASSUME MInv, NEW s \in Session, ProvisionWrite(s)
  PROVE  MInv'
<1> PICK p : p = session[s]
  OBVIOUS
<1> PICK e : e = p.email
  OBVIOUS
<1> PICK k : k = p.clerk
  OBVIOUS
<1> PICK c : c = p.code
  OBVIOUS
<1> PICK a : a = [clerk |-> k, role |-> "institution", inst |-> c]
  OBVIOUS
<1>1. Fits(p) /\ p.pc = "provWrite"
  BY DEF MInv, ProvisionWrite, At
<1>2. k \in Clerk /\ e = EmailOf[k] /\ e \in Email /\ c \in Code
  BY <1>1, MailOf DEF Fits, Personal, Coded
<1>3. UNCHANGED <<founder, join, holder>> /\ End(s) /\ holder \in [Email -> Code \cup {None}]
  BY DEF ProvisionWrite, MInv, DataInv, Tables
<1>4. Admitted(e, c)
  BY <1>1 DEF Fits
<1>5. CASE account' = account
  BY <1>3, <1>5, DataStays, Ended DEF MInv, data
<1>6. CASE account' = [account EXCEPT ![e] = a]
  <2>1. a \in Account /\ a.clerk = k /\ a.inst = c
    BY <1>2 DEF Account, Role
  <2> QED
    BY <1>2, <1>3, <1>4, <1>6, <2>1, AccountStep, Ended DEF MInv
<1> QED
  BY <1>5, <1>6 DEF ProvisionWrite

LEMMA LeaveKeeps ==
  ASSUME MInv, NEW s \in Session, Leave(s)
  PROVE  MInv'
<1> PICK p : p = session[s]
  OBVIOUS
<1> PICK e : e = p.auth.email
  OBVIOUS
<1> PICK a : a = [account[e] EXCEPT !.inst = None]
  OBVIOUS
<1>1. Fits(p) /\ p.pc = "leave"
  BY DEF MInv, Leave, At
<1>2. e \in Email /\ account[e] # None
  BY <1>1 DEF Fits, AuthOk
<1>3. UNCHANGED <<founder, join, holder>> /\ End(s) /\ holder \in [Email -> Code \cup {None}]
  BY DEF Leave, MInv, DataInv, Tables
<1>4. account[e] \in Account
  BY <1>2 DEF MInv, DataInv, Tables
<1>5. a \in Account /\ a.clerk = account[e].clerk /\ a.inst = None
  BY <1>4 DEF Account
<1>6. a.clerk # None => EmailOf[a.clerk] = e
  BY <1>2, <1>5 DEF MInv, DataInv, Owned
<1>7. account' = [account EXCEPT ![e] = a]
  BY DEF Leave
<1> QED
  BY <1>2, <1>3, <1>5, <1>6, <1>7, AccountStep, Ended DEF MInv

(* Issuance: the holder's account waits for its owner. *)
LEMMA ResolveKeeps ==
  ASSUME MInv, NEW s \in Session, Resolve(s)
  PROVE  MInv'
<1> PICK p : p = session[s]
  OBVIOUS
<1> PICK e : e = p.email
  OBVIOUS
<1> PICK c : c = p.auth.inst
  OBVIOUS
<1> PICK a : a = [clerk |-> None, role |-> "student", inst |-> None]
  OBVIOUS
<1>1. Fits(p) /\ p.pc = "resolve"
  BY DEF MInv, Resolve, At
<1>2. e \in Email /\ c \in Code
  BY <1>1 DEF Fits
<1>3. UNCHANGED <<founder, join>> /\ End(s) /\ holder \in [Email -> Code \cup {None}]
  BY DEF Resolve, MInv, DataInv, Tables
<1>4. CASE UNCHANGED <<account, holder>>
  BY <1>3, <1>4, DataStays, Ended DEF MInv, data
<1>5. ASSUME holder[e] = None, holder' = [holder EXCEPT ![e] = c] PROVE MInv'
  <2>1. /\ holder' \in [Email -> Code \cup {None}]
        /\ \A d \in Email : holder[d] # None => holder'[d] = holder[d]
    BY <1>2, <1>3, <1>5
  <2>2. CASE account' = account
    <3>1. Tables' /\ Owned' /\ Asked' /\ OneEach' /\ StaffWereAdmitted' /\ ApproversWereAdmitted'
      BY <1>3, <2>1, <2>2 DEF MInv, DataInv, Tables, Owned, Asked, OneEach, StaffWereAdmitted,
         ApproversWereAdmitted, Admitted
    <3>2. Lasts
      BY <1>3, <2>1, <2>2 DEF Lasts
    <3> QED
      BY <1>3, <3>1, <3>2, Ended DEF DataInv
  <2>3. CASE account' = [account EXCEPT ![e] = a]
    <3>1. a \in Account /\ a.clerk = None /\ a.inst = None
      BY DEF Account, Role
    <3> QED
      BY <1>2, <1>3, <2>1, <2>3, <3>1, AccountStep, Ended DEF MInv
  <2> QED
    BY <1>5, <2>2, <2>3 DEF Resolve
<1> QED
  BY <1>4, <1>5 DEF Resolve

LEMMA FindCodeKeeps ==
  ASSUME MInv, NEW s \in Session, FindCode(s)
  PROVE  MInv'
<1> PICK p : p = session[s]
  OBVIOUS
<1>1. Fits(p) /\ p.pc = "findCode"
  BY DEF MInv, FindCode, At
<1>2. p.clerk \in Clerk /\ p.email = EmailOf[p.clerk] /\ p.code \in Code
  BY <1>1 DEF Fits, Personal, Coded
<1>3. DataInv' /\ Lasts
  BY DataStays DEF MInv, FindCode
<1>4. CASE Goto(s, "create")
  BY <1>2, <1>3, <1>4, GoesOn DEF Personal, Coded
<1>5. CASE Goto(s, "joinFind")
  BY <1>2, <1>3, <1>5, GoesOn DEF Personal, Coded
<1>6. CASE End(s)
  BY <1>3, <1>6, Ended
<1> QED
  BY <1>4, <1>5, <1>6 DEF FindCode

(* Founding admits the founder. *)
LEMMA CreateInstitutionKeeps ==
  ASSUME MInv, NEW s \in Session, CreateInstitution(s)
  PROVE  MInv'
<1> PICK p : p = session[s]
  OBVIOUS
<1> PICK e : e = p.email
  OBVIOUS
<1> PICK c : c = p.code
  OBVIOUS
<1>1. Fits(p) /\ p.pc = "create"
  BY DEF MInv, CreateInstitution, At
<1>2. p.clerk \in Clerk /\ e = EmailOf[p.clerk] /\ e \in Email /\ c \in Code
  BY <1>1, MailOf DEF Fits, Personal, Coded
<1>3. UNCHANGED <<account, join, holder>>
  BY DEF CreateInstitution
<1>4. CASE founder[c] = None /\ founder' = [founder EXCEPT ![c] = e] /\ Goto(s, "provFind")
  <2>1. Lasts
    BY <1>2, <1>3, <1>4 DEF Lasts, MInv, DataInv, Tables
  <2>2. Tables' /\ Owned' /\ Asked' /\ OneEach'
    BY <1>2, <1>3, <1>4 DEF MInv, DataInv, Tables, Owned, Asked, OneEach
  <2>3. StaffWereAdmitted'
    <3> SUFFICES ASSUME NEW d \in Email, account[d] # None, NEW i, i = account[d].inst, i # None
                 PROVE  Admitted(d, i)'
      BY <1>3 DEF StaffWereAdmitted, Admitted
    <3>1. account[d] \in Account
      BY DEF MInv, DataInv, Tables
    <3>2. i \in Code /\ Admitted(d, i)
      BY <3>1 DEF MInv, DataInv, StaffWereAdmitted, Account
    <3> QED
      BY <2>1, <3>2, AdmittedLasts
  <2>4. ApproversWereAdmitted'
    <3> SUFFICES ASSUME NEW r \in Request, join[r] # None, join[r].status = "APPROVED",
                        NEW d, d = join[r].by, NEW i, i = join[r].inst
                 PROVE  Admitted(d, i)'
      BY <1>3 DEF ApproversWereAdmitted, Admitted
    <3>1. join[r] \in Join
      BY DEF MInv, DataInv, Tables
    <3>2. d \in Email /\ i \in Code /\ Admitted(d, i)
      BY <3>1 DEF MInv, DataInv, ApproversWereAdmitted, Join
    <3> QED
      BY <2>1, <3>2, AdmittedLasts
  <2>5. Admitted(e, c)'
    BY <1>2, <1>4 DEF Admitted, MInv, DataInv, Tables
  <2> QED
    BY <1>2, <1>4, <2>1, <2>2, <2>3, <2>4, <2>5, GoesOn DEF DataInv, Personal, Coded
<1>5. CASE End(s) /\ UNCHANGED founder
  BY <1>3, <1>5, DataStays, Ended DEF MInv, data
<1> QED
  BY <1>4, <1>5 DEF CreateInstitution

LEMMA JoinFindKeeps ==
  ASSUME MInv, NEW s \in Session, JoinFind(s)
  PROVE  MInv'
<1> PICK p : p = session[s]
  OBVIOUS
<1>1. Fits(p) /\ p.pc = "joinFind"
  BY DEF MInv, JoinFind, At
<1>2. p.clerk \in Clerk /\ p.email = EmailOf[p.clerk] /\ p.code \in Code
  BY <1>1 DEF Fits, Personal, Coded
<1>3. DataInv' /\ Lasts
  BY DataStays DEF MInv, JoinFind
<1>4. CASE Goto(s, "joinInsert")
  BY <1>2, <1>3, <1>4, GoesOn DEF Personal, Coded
<1>5. CASE End(s)
  BY <1>3, <1>5, Ended
<1> QED
  BY <1>4, <1>5 DEF JoinFind

(* One request is filed or decided: of its author still, alone if it is    *)
(* open, and by somebody admitted if it is approved. *)
LEMMA JoinStep ==
  ASSUME DataInv, UNCHANGED <<account, founder, holder>>, NEW r \in Request, NEW j \in Join,
         join' = [join EXCEPT ![r] = j],
         j.email = EmailOf[j.clerk],
         j.status = "PENDING" => join[r] = None /\ Pending(j.inst, j.clerk) = {},
         j.status = "APPROVED" => Admitted(j.by, j.inst),
         join[r] # None => /\ join[r].status = "PENDING" /\ j.inst = join[r].inst
                           /\ j.clerk = join[r].clerk /\ j.email = join[r].email
  PROVE  DataInv' /\ Lasts
<1>1. j # None
  BY NoneAssumption
<1>2. join'[r] = j /\ \A t \in Request \ {r} : join'[t] = join[t]
  BY DEF DataInv, Tables
<1>3. Tables'
  BY DEF DataInv, Tables
<1>4. Owned' /\ Asked'
  BY <1>2 DEF DataInv, Owned, Asked
<1>5. OneEach'
  BY <1>1, <1>2 DEF DataInv, OneEach, Pending
<1>6. Lasts
  BY <1>1, <1>2 DEF Lasts
<1>7. StaffWereAdmitted'
  <2> SUFFICES ASSUME NEW d \in Email, account[d] # None, NEW i, i = account[d].inst, i # None
               PROVE  Admitted(d, i)'
    BY DEF StaffWereAdmitted, Admitted
  <2>1. account[d] \in Account
    BY DEF DataInv, Tables
  <2>2. i \in Code /\ Admitted(d, i)
    BY <2>1 DEF DataInv, StaffWereAdmitted, Account
  <2> QED
    BY <1>6, <2>2, AdmittedLasts
<1>8. ApproversWereAdmitted'
  <2> SUFFICES ASSUME NEW t \in Request, join'[t] # None, join'[t].status = "APPROVED",
                      NEW d, d = join'[t].by, NEW i, i = join'[t].inst
               PROVE  Admitted(d, i)'
    BY DEF ApproversWereAdmitted, Admitted
  <2>1. join'[t] \in Join
    BY <1>3 DEF Tables
  <2>2. d \in Email /\ i \in Code
    BY <2>1 DEF Join
  <2>3. Admitted(d, i)
    BY <1>2 DEF DataInv, ApproversWereAdmitted
  <2> QED
    BY <1>6, <2>2, <2>3, AdmittedLasts
<1> QED
  BY <1>3, <1>4, <1>5, <1>6, <1>7, <1>8 DEF DataInv

LEMMA JoinInsertKeeps ==
  ASSUME MInv, NEW s \in Session, JoinInsert(s)
  PROVE  MInv'
<1> PICK p : p = session[s]
  OBVIOUS
<1> PICK j : j = [inst |-> p.code, clerk |-> p.clerk, email |-> p.email,
                  status |-> "PENDING", by |-> p.email]
  OBVIOUS
<1>1. Fits(p) /\ p.pc = "joinInsert"
  BY DEF MInv, JoinInsert, At
<1>2. p.clerk \in Clerk /\ p.email = EmailOf[p.clerk] /\ p.email \in Email /\ p.code \in Code
  BY <1>1, MailOf DEF Fits, Personal, Coded
<1>3. UNCHANGED <<account, founder, holder>> /\ End(s)
  BY DEF JoinInsert
<1>4. CASE UNCHANGED join
  BY <1>3, <1>4, DataStays, Ended DEF MInv, data
<1>5. ASSUME Pending(p.code, p.clerk) = {}, NEW r \in Request, join[r] = None,
             join' = [join EXCEPT ![r] = j]
      PROVE  MInv'
  <2>1. /\ j \in Join /\ j.email = EmailOf[j.clerk] /\ j.status = "PENDING"
        /\ j.inst = p.code /\ j.clerk = p.clerk
    BY <1>2 DEF Join
  <2> QED
    BY <1>3, <1>5, <2>1, JoinStep, Ended DEF MInv
<1> QED
  BY <1>4, <1>5 DEF JoinInsert

(* Whoever decides had been admitted when requireAuth read the caller. *)
LEMMA DecideKeeps ==
  ASSUME MInv, NEW s \in Session, Decide(s)
  PROVE  MInv'
<1> PICK p : p = session[s]
  OBVIOUS
<1> PICK r : r = p.request
  OBVIOUS
<1> PICK j : j = [join[r] EXCEPT !.status = p.op, !.by = p.auth.email]
  OBVIOUS
<1>1. Fits(p) /\ p.pc = "decide"
  BY DEF MInv, Decide, At
<1>2. /\ p.op \in Decision /\ r \in Request /\ join[r] # None
      /\ p.auth.inst = p.code /\ p.code \in Code /\ AuthOk(p.auth)
      /\ join[r].inst = p.code /\ join[r].clerk = p.clerk /\ join[r].email = p.email
  BY <1>1 DEF Fits
<1>3. UNCHANGED <<account, founder, holder>>
  BY DEF Decide
<1>4. CASE UNCHANGED join /\ End(s)
  BY <1>3, <1>4, DataStays, Ended DEF MInv, data
<1>5. ASSUME join[r].status = "PENDING", join' = [join EXCEPT ![r] = j],
             IF p.op = "APPROVED" THEN Goto(s, "provFind") ELSE End(s)
      PROVE  MInv'
  <2>1. p.auth.email \in Email /\ Admitted(p.auth.email, p.code)
    BY <1>2, MembershipAssumption DEF AuthOk
  <2>2. join[r] \in Join
    BY <1>2 DEF MInv, DataInv, Tables
  <2>3. /\ j \in Join /\ j.status = p.op /\ j.by = p.auth.email
        /\ j.inst = p.code /\ j.clerk = p.clerk /\ j.email = p.email
    BY <1>2, <2>1, <2>2 DEF Join, Decision
  <2>4. j.email = EmailOf[j.clerk]
    BY <1>2, <2>3 DEF MInv, DataInv, Asked
  <2>5. Admitted(j.by, j.inst)
    BY <2>1, <2>3
  <2>6. j.status # "PENDING"
    BY <1>2, <2>3 DEF Decision
  <2>7. DataInv' /\ Lasts
    <3> PICK i : i \in Join /\ i = j
      BY <2>3
    <3>1. /\ join[r].status = "PENDING" /\ i.inst = join[r].inst
          /\ i.clerk = join[r].clerk /\ i.email = join[r].email
      BY <1>2, <1>5, <2>3
    <3>2. i.email = EmailOf[i.clerk] /\ Admitted(i.by, i.inst) /\ i.status # "PENDING"
      BY <2>4, <2>5, <2>6
    <3>3. r \in Request /\ DataInv /\ join' = [join EXCEPT ![r] = i]
      BY <1>2, <1>5 DEF MInv
    <3> QED
      BY <1>3, <3>1, <3>2, <3>3, JoinStep
  <2>8. CASE p.op = "APPROVED" /\ Goto(s, "provFind")
    <3>1. p.clerk \in Clerk /\ p.email = EmailOf[p.clerk]
      BY <2>2, <2>3, <2>4 DEF Join
    <3>2. join'[r] = j /\ j # None
      BY <1>2, <1>5, <2>3, NoneAssumption DEF MInv, DataInv, Tables
    <3>3. /\ r \in Request /\ join'[r] # None /\ join'[r].email = p.email
          /\ join'[r].inst = p.code /\ join'[r].status = "APPROVED"
      BY <1>2, <2>3, <2>8, <3>2
    <3>4. Admitted(p.email, p.code)'
      BY <3>3 DEF Admitted
    <3> QED
      BY <1>2, <2>7, <2>8, <3>1, <3>4, GoesOn DEF Personal, Coded
  <2>9. CASE End(s)
    BY <2>7, <2>9, Ended
  <2> QED
    BY <1>5, <2>8, <2>9
<1> QED
  BY <1>4, <1>5 DEF Decide

LEMMA ViewKeeps ==
  ASSUME MInv, NEW s \in Session, View(s)
  PROVE  MInv'
<1> PICK p : p = session[s]
  OBVIOUS
<1> PICK e : e = p.email
  OBVIOUS
<1> DEFINE q == [p EXCEPT !.pc = "answer", !.shown = e]
<1>1. p \in Local /\ Fits(p) /\ p.pc = "view"
  BY DEF MInv, View, At
<1>2. e \in Email /\ AuthOk(p.auth)
  BY <1>1 DEF Fits
<1>3. DataInv' /\ Lasts /\ UNCHANGED ops
  BY DataStays DEF MInv, View
<1>4. CASE session' = [session EXCEPT ![s] = Idle]
  BY <1>3, <1>4, Ended DEF End
<1>5. CASE holder[e] # None /\ Authorized(p.auth, e) /\ session' = [session EXCEPT ![s] = q]
  <2>1. q \in Local
    BY <1>1, <1>2, AssignPc, AssignShown DEF Pc
  <2>2. q.pc = "answer" /\ q.auth = p.auth /\ q.shown = e
    BY <1>1 DEF Local
  <2>3. p.auth.email = e \/ (p.auth.email \in Email /\ Admitted(p.auth.email, holder[e]))
    <3>1. CASE p.auth.role = "institution" /\ p.auth.inst = holder[e]
      BY <1>2, <1>5, <3>1 DEF AuthOk
    <3>2. CASE p.auth.student = e
      BY <1>2, <3>2, MembershipAssumption DEF AuthOk
    <3> QED
      BY <1>5, <3>1, <3>2 DEF Authorized
  <2> HIDE DEF q
  <2>4. Fits(q)
    BY <1>2, <1>5, <2>2, <2>3 DEF Fits, Personal, Coded
  <2>5. Fits(q)'
    BY <1>3, <2>1, <2>4, FitsLasts DEF MInv, DataInv
  <2> QED
    BY <1>3, <1>5, <2>1, <2>5, Moved
<1> QED
  BY <1>4, <1>5 DEF View

LEMMA FinishKeeps ==
  ASSUME MInv, NEW s \in Session, Finish(s)
  PROVE  MInv'
BY DataStays, Ended DEF MInv, Finish

-----------------------------------------------------------------------------
LEMMA MInit == Init => MInv
<1> SUFFICES ASSUME Init PROVE MInv
  OBVIOUS
<1>1. Tables /\ Owned /\ Asked /\ OneEach /\ StaffWereAdmitted /\ ApproversWereAdmitted
  BY DEF Init, Tables, Owned, Asked, OneEach, StaffWereAdmitted, ApproversWereAdmitted
<1>2. AuthOk(NoScope)
  BY NoneAssumption DEF AuthOk, NoScope, Role
<1>3. Idle.auth = NoScope /\ Idle.pc = "idle" /\ Idle.shown = None
  BY DEF Idle
<1>4. Fits(Idle)
  BY <1>2, <1>3 DEF Fits, Personal, Coded
<1>5. ops \in 0 .. MaxOps
  BY MembershipAssumption DEF Init
<1> QED
  BY <1>1, <1>4, <1>5, IdleFits DEF Init, MInv, DataInv

LEMMA MStep == MInv /\ [Next]_vars => MInv'
<1> SUFFICES ASSUME MInv, [Next]_vars PROVE MInv'
  OBVIOUS
<1>1. ASSUME NEW s \in Session,
             \/ ChooseStudent(s) \/ Webhook(s) \/ StartLeave(s) \/ Finish(s)
             \/ \E c \in Code : ChooseInstitution(s, c)
             \/ \E r \in Request, decision \in Decision : StartDecision(s, r, decision)
             \/ \E e \in Email : StartIssue(s, e) \/ StartView(s, e)
      PROVE  MInv'
  BY <1>1, ChooseStudentKeeps, WebhookKeeps, StartLeaveKeeps, FinishKeeps,
     ChooseInstitutionKeeps, StartDecisionKeeps, StartIssueKeeps, StartViewKeeps
<1>2. ASSUME NEW s \in Session, Continue(s) PROVE MInv'
  BY <1>2, LinkFindKeeps, LinkWriteKeeps, UpsertKeeps, FindCodeKeeps,
     CreateInstitutionKeeps, JoinFindKeeps, JoinInsertKeeps, ProvisionFindKeeps,
     ProvisionWriteKeeps, DecideKeeps, LeaveKeeps, ResolveKeeps, ViewKeeps DEF Continue
<1>3. CASE UNCHANGED vars
  <2>1. UNCHANGED data /\ UNCHANGED <<session, ops>>
    BY <1>3 DEF vars, data
  <2>2. DataInv' /\ Lasts
    BY <2>1, DataStays DEF MInv
  <2>3. ASSUME NEW s \in Session PROVE Fits(session[s])'
    <3> PICK q : q = session[s]
      OBVIOUS
    <3>1. q \in Local /\ Fits(q) /\ session'[s] = q
      BY <2>1 DEF MInv
    <3>2. Fits(q)'
      BY <2>2, <3>1, FitsLasts DEF MInv, DataInv
    <3> QED
      BY <3>1, <3>2
  <2> QED
    BY <2>1, <2>2, <2>3 DEF MInv
<1> QED
  BY <1>1, <1>2, <1>3 DEF Next

(* The inductive invariant: besides what is checked, the scope every       *)
(* session goes on with, read before any of its statements, was true of    *)
(* the tables, and the tables only ever gain causes.                       *)
LEMMA MembershipInvariance == Spec => []MInv
<1> QED
  BY MInit, MStep, PTL DEF Spec

LEMMA AdmittedFollows == MInv => OnlyAdmittedAct
<1> SUFFICES ASSUME MInv PROVE OnlyAdmittedAct
  OBVIOUS
<1>1. TypeOK
  BY DEF MInv, DataInv, Tables, TypeOK, Local
<1>2. OnePending
  <2> SUFFICES ASSUME NEW c \in Code, NEW k \in Clerk PROVE Cardinality(Pending(c, k)) <= 1
    BY DEF OnePending
  <2>1. CASE Pending(c, k) = {}
    BY <2>1, FS_EmptySet
  <2>2. ASSUME NEW r \in Pending(c, k) PROVE Cardinality(Pending(c, k)) <= 1
    <3>1. Pending(c, k) = {r}
      BY <2>2 DEF Pending, MInv, DataInv, OneEach
    <3> QED
      BY <3>1, FS_Singleton
  <2> QED
    BY <2>1, <2>2
<1>3. ShownToEntitled
  BY DEF MInv, Fits, ShownToEntitled
<1> QED
  BY <1>1, <1>2, <1>3 DEF MInv, DataInv, OnlyAdmittedAct

(* Nobody acts for an institution, decides for it or is shown its          *)
(* certificates without having been admitted to it, and nobody waits twice *)
(* (auth.routes.js, institutions.routes.js, authorizedToView): for any     *)
(* number of people, tabs and institutions.                                *)
THEOREM AdmissionRequired == Spec => []OnlyAdmittedAct
<1> QED
  BY MembershipInvariance, AdmittedFollows, PTL

LEMMA Decided ==
  ASSUME MInv, Next
  PROVE  /\ \A r \in Request :
              join[r] # None /\ join[r].status # "PENDING" => join'[r] = join[r]
         /\ \A c \in Code : founder[c] # None => founder'[c] = founder[c]
<1>1. ASSUME NEW s \in Session,
             \/ ChooseStudent(s) \/ Webhook(s) \/ StartLeave(s) \/ Finish(s)
             \/ \E c \in Code : ChooseInstitution(s, c)
             \/ \E r \in Request, decision \in Decision : StartDecision(s, r, decision)
             \/ \E e \in Email : StartIssue(s, e) \/ StartView(s, e)
      PROVE  UNCHANGED <<join, founder>>
  BY <1>1 DEF ChooseStudent, Webhook, StartLeave, Finish, ChooseInstitution, StartDecision,
     StartIssue, StartView, Start, data
<1>2. ASSUME NEW s \in Session,
             \/ LinkFind(s) \/ LinkWrite(s) \/ Upsert(s) \/ FindCode(s) \/ JoinFind(s)
             \/ ProvisionFind(s) \/ ProvisionWrite(s) \/ Leave(s) \/ Resolve(s) \/ View(s)
      PROVE  UNCHANGED <<join, founder>>
  BY <1>2 DEF LinkFind, LinkWrite, Upsert, FindCode, JoinFind, ProvisionFind, ProvisionWrite,
     Leave, Resolve, View, data
<1>3. ASSUME NEW s \in Session, CreateInstitution(s)
      PROVE  /\ UNCHANGED join
             /\ \A c \in Code : founder[c] # None => founder'[c] = founder[c]
  BY <1>3 DEF CreateInstitution, MInv, DataInv, Tables
<1>4. ASSUME NEW s \in Session, JoinInsert(s)
      PROVE  UNCHANGED founder /\ \A r \in Request : join[r] # None => join'[r] = join[r]
  BY <1>4 DEF JoinInsert, MInv, DataInv, Tables
<1>5. ASSUME NEW s \in Session, Decide(s)
      PROVE  /\ UNCHANGED founder
             /\ \A r \in Request :
                  join[r] # None /\ join[r].status # "PENDING" => join'[r] = join[r]
  BY <1>5 DEF Decide, MInv, DataInv, Tables
<1> QED
  BY <1>1, <1>2, <1>3, <1>4, <1>5 DEF Next, Continue

(* Two people who decide one request never change each other's answer, and *)
(* an institution's founder stays the one whose INSERT won.                *)
THEOREM DecisionsAreFinal == Spec => DecisionsStand
<1>1. MInv /\ [Next]_vars =>
        [\A r \in Request :
           join[r] # None /\ join[r].status # "PENDING" => join'[r] = join[r]]_vars
  BY Decided
<1>2. MInv /\ [Next]_vars =>
        [\A c \in Code : founder[c] # None => founder'[c] = founder[c]]_vars
  BY Decided
<1> QED
  BY <1>1, <1>2, MembershipInvariance, PTL DEF Spec, DecisionsStand, DecisionIsFinal,
     FounderIsKept
=============================================================================
