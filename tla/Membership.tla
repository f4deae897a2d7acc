----------------------------- MODULE Membership -----------------------------
(***************************************************************************)
(* Who may act for an institution: sign-up, founding, join requests and    *)
(* their approval, leaving, the identity provider's webhook and the        *)
(* accounts that issuance creates for holders (routes/auth.routes.js,      *)
(* institutions.routes.js, webhooks.routes.js, repositories/user.repo.js,  *)
(* institution.repo.js, institutionJoinRequest.repo.js, auth.mw.js), and   *)
(* whom the certificate routes show a certificate to.                      *)
(*                                                                         *)
(* A session is one HTTP request at a time; two sessions of one user are   *)
(* two tabs.  requireAuth reads the caller's scope once, and every         *)
(* statement after it is a step of its own: nothing here runs in a         *)
(* transaction.  A request may end after any of them.                      *)
(***************************************************************************)
EXTENDS Naturals, FiniteSets

CONSTANTS Clerk,        \* Clerk subject ids
          Email,
          EmailOf,      \* the address each Clerk user signs in with
          Code,         \* institution codes
          Seeded,       \* [Clerk -> Code or None]: public_metadata.institutionId
          Session,
          UserOf,       \* the Clerk user of each session
          Request,      \* ids of join requests
          None,
          MaxOps        \* bound: requests made in all

ASSUME MembershipAssumption ==
    /\ EmailOf \in [Clerk -> Email]
    /\ Seeded \in [Clerk -> Code \cup {None}]
    /\ UserOf \in [Session -> Clerk]
    /\ None \notin Clerk \cup Email \cup Code \cup Session \cup Request
    /\ MaxOps \in Nat

VARIABLES account,      \* user_account by email, which is UNIQUE
          founder,      \* institution: None, "seed", or its creator's email
          join,         \* institution_join_request
          holder,       \* student: the institution of each email's student row
          session,      \* each session's locals
          ops           \* requests made so far

vars == <<account, founder, join, holder, session, ops>>
data == <<account, founder, join, holder>>

Role == {"student", "institution"}
(* clerk is None while the account waits for its owner ("pending:<email>"). *)
Account == [clerk : Clerk \cup {None}, role : Role, inst : Code \cup {None}]
Join == [inst : Code, clerk : Clerk, email : Email,
         status : {"PENDING", "APPROVED", "REJECTED"}, by : Email]

ASSUME NoneAssumption == None \notin Role \cup Account \cup Join

NoScope == [email |-> None, role |-> None, inst |-> None, student |-> None]
Idle == [pc |-> "idle", op |-> "none", auth |-> NoScope, code |-> None, request |-> None,
         clerk |-> None, email |-> None, found |-> FALSE, shown |-> None]

Rows(k) == {e \in Email : account[e] # None /\ account[e].clerk = k}

(* findByClerkId and findScopeForSubject. *)
Scope(k) ==
    IF Rows(k) = {} THEN NoScope
    ELSE LET e == CHOOSE e \in Rows(k) : TRUE IN
         [email |-> e, role |-> account[e].role, inst |-> account[e].inst,
          student |-> IF holder[e] = None THEN None ELSE e]

Init ==
    /\ account = [e \in Email |-> None]
    /\ founder = [c \in Code |-> IF \E k \in Clerk : Seeded[k] = c THEN "seed" ELSE None]
    /\ join = [r \in Request |-> None]
    /\ holder = [e \in Email |-> None]
    /\ session = [s \in Session |-> Idle]
    /\ ops = 0
-----------------------------------------------------------------------------
(* A new request of session s goes to pc with what requireAuth has read.   *)
Start(s, op, pc, args) ==
    /\ session[s].pc = "idle"
    /\ ops < MaxOps
    /\ ops' = ops + 1
    /\ session' = [session EXCEPT ![s] =
                     [args EXCEPT !.pc = pc, !.op = op, !.auth = Scope(UserOf[s])]]
    /\ UNCHANGED data

Goto(s, pc) == session' = [session EXCEPT ![s] = [@ EXCEPT !.pc = pc]] /\ UNCHANGED ops
End(s) == session' = [session EXCEPT ![s] = Idle] /\ UNCHANGED ops
At(s, pc) == session[s].pc = pc

Self(s) == [Idle EXCEPT !.clerk = UserOf[s], !.email = EmailOf[UserOf[s]]]

Detached(scope) == scope.role = "institution" /\ scope.inst = None
MayChoose(scope, role) ==
    \/ scope.role = None
    \/ Detached(scope) /\ role = "institution"

(* POST /choose-role. *)
ChooseStudent(s) ==
    /\ MayChoose(Scope(UserOf[s]), "student")
    /\ Start(s, "student", "linkFind", Self(s))

ChooseInstitution(s, c) ==
    /\ MayChoose(Scope(UserOf[s]), "institution")
    /\ Start(s, "institution", "findCode", [Self(s) EXCEPT !.code = c])

(* A webhook of the user, sent by Clerk, and sent again when it fails. *)
Webhook(s) ==
    Start(s, "webhook",
          IF Seeded[UserOf[s]] = None THEN "linkFind" ELSE "upsert",
          [Self(s) EXCEPT !.code = Seeded[UserOf[s]]])
-----------------------------------------------------------------------------
(* provisionOrLinkSelfServiceUser: by email, in two statements.            *)
LinkFind(s) ==
    /\ At(s, "linkFind")
    /\ session' = [session EXCEPT ![s] =
                     [@ EXCEPT !.pc = "linkWrite", !.found = account[session[s].email] # None]]
    /\ UNCHANGED <<data, ops>>

(* clerk_user_id and email are UNIQUE: a statement that would break one    *)
(* fails, or does nothing where ON CONFLICT says so.                       *)
LinkWrite(s) ==
    /\ At(s, "linkWrite")
    /\ LET e == session[s].email   k == session[s].clerk IN
       account' =
          IF Rows(k) # {} THEN account
          ELSE IF session[s].found
          THEN [account EXCEPT ![e].clerk = k]
          ELSE IF account[e] = None
          THEN [account EXCEPT ![e] = [clerk |-> k, role |-> "student", inst |-> None]]
          ELSE account
    /\ End(s)
    /\ UNCHANGED <<founder, join, holder>>

(* upsertFromClerk: the role of an existing account is left as it is.  (A  *)
(* Clerk user keeps one address here, so its email never changes.)         *)
Upsert(s) ==
    /\ At(s, "upsert")
    /\ LET e == session[s].email   k == session[s].clerk   mine == Rows(k) IN
       account' =
          IF mine # {}
          THEN [account EXCEPT ![CHOOSE m \in mine : TRUE].inst = session[s].code]
          ELSE IF account[e] # None THEN account
          ELSE [account EXCEPT ![e] = [clerk |-> k, role |-> "institution",
                                       inst |-> session[s].code]]
    /\ End(s)
    /\ UNCHANGED <<founder, join, holder>>
-----------------------------------------------------------------------------
FindCode_AdmitsAtOnce(s) ==
    /\ At(s, "findCode")
    /\ \/ founder[session[s].code] = None /\ Goto(s, "create")
       \/ founder[session[s].code] # None /\ Goto(s, "provFind")
       \/ founder[session[s].code] # None /\ End(s)
    /\ UNCHANGED data

(* choose-role for an institution: founding it when the code is unknown,   *)
(* asking to join, with its access code, when it is not.                   *)
FindCode(s) ==
    /\ At(s, "findCode")
    /\ \/ founder[session[s].code] = None /\ Goto(s, "create")
       \/ founder[session[s].code] # None /\ Goto(s, "joinFind")
       \/ founder[session[s].code] # None /\ End(s)     \* wrong access code
    /\ UNCHANGED data

(* institution_code is UNIQUE: of two founders the second one fails. *)
CreateInstitution_Upserts(s) ==
    /\ At(s, "create")
    /\ founder' = [founder EXCEPT ![session[s].code] = session[s].email]
    /\ Goto(s, "provFind")
    /\ UNCHANGED <<account, join, holder>>

CreateInstitution(s) ==
    /\ At(s, "create")
    /\ IF founder[session[s].code] = None
       THEN /\ founder' = [founder EXCEPT ![session[s].code] = session[s].email]
            /\ Goto(s, "provFind")
       ELSE End(s) /\ UNCHANGED founder
    /\ UNCHANGED <<account, join, holder>>

Pending(c, k) ==
    {r \in Request : join[r] # None /\ join[r].status = "PENDING"
                     /\ join[r].inst = c /\ join[r].clerk = k}

(* institutionJoinRequestRepo.create: look for a pending one, then insert; *)
(* the partial unique index refuses a second.                              *)
JoinFind(s) ==
    /\ At(s, "joinFind")
    /\ IF Pending(session[s].code, session[s].clerk) # {} THEN End(s) ELSE Goto(s, "joinInsert")
    /\ UNCHANGED data

JoinInsert_NoIndex(s) ==
    /\ At(s, "joinInsert")
    /\ \E r \in Request :
          /\ join[r] = None
          /\ join' = [join EXCEPT ![r] =
                [inst |-> session[s].code, clerk |-> session[s].clerk,
                 email |-> session[s].email, status |-> "PENDING",
                 by |-> session[s].email]]
    /\ End(s)
    /\ UNCHANGED <<account, founder, holder>>

JoinInsert(s) ==
    /\ At(s, "joinInsert")
    /\ IF Pending(session[s].code, session[s].clerk) # {}
       THEN UNCHANGED join
       ELSE \E r \in Request :
              /\ join[r] = None
              /\ join' = [join EXCEPT ![r] =
                    [inst |-> session[s].code, clerk |-> session[s].clerk,
                     email |-> session[s].email, status |-> "PENDING",
                     by |-> session[s].email]]
    /\ End(s)
    /\ UNCHANGED <<account, founder, holder>>
-----------------------------------------------------------------------------
(* provisionInstitutionSelfService, by email, in two statements: for the   *)
(* founder, or for the person whose request was approved.                  *)
ProvisionFind(s) ==
    /\ At(s, "provFind")
    /\ session' = [session EXCEPT ![s] =
                     [@ EXCEPT !.pc = "provWrite", !.found = account[session[s].email] # None]]
    /\ UNCHANGED <<data, ops>>

ProvisionWrite(s) ==
    /\ At(s, "provWrite")
    /\ LET e == session[s].email   k == session[s].clerk
           staff == [clerk |-> k, role |-> "institution", inst |-> session[s].code] IN
       account' =
          IF Rows(k) \ (IF session[s].found THEN {e} ELSE {}) # {} THEN account
          ELSE IF session[s].found \/ account[e] = None
          THEN [account EXCEPT ![e] = staff]
          ELSE account
    /\ End(s)
    /\ UNCHANGED <<founder, join, holder>>

(* POST /me/join-requests/:id/approve and /reject: the request must be one *)
(* of the caller's institution, as the caller's scope was read.            *)
Decision == {"APPROVED", "REJECTED"}
Opens_AnyInstitution(scope, r) == scope.role = "institution" /\ join[r] # None
Opens(scope, r) ==
    /\ scope.role = "institution"
    /\ join[r] # None
    /\ join[r].inst = scope.inst

StartDecision(s, r, decision) ==
    /\ Opens(Scope(UserOf[s]), r)
    /\ Start(s, decision, "decide",
             [Idle EXCEPT !.request = r, !.clerk = join[r].clerk, !.email = join[r].email,
                          !.code = Scope(UserOf[s]).inst])

Decide_Unconditional(s) ==
    /\ At(s, "decide")
    /\ LET r == session[s].request IN
       join' = [join EXCEPT ![r].status = session[s].op, ![r].by = session[s].auth.email]
    /\ IF session[s].op = "APPROVED" THEN Goto(s, "provFind") ELSE End(s)
    /\ UNCHANGED <<account, founder, holder>>

(* decide: UPDATE ... WHERE status = 'PENDING'. *)
Decide(s) ==
    /\ At(s, "decide")
    /\ LET r == session[s].request IN
       IF join[r].status = "PENDING"
       THEN /\ join' = [join EXCEPT ![r] = [@ EXCEPT !.status = session[s].op,
                                                     !.by = session[s].auth.email]]
            /\ IF session[s].op = "APPROVED" THEN Goto(s, "provFind") ELSE End(s)
       ELSE UNCHANGED join /\ End(s)
    /\ UNCHANGED <<account, founder, holder>>

(* POST /me/leave. *)
StartLeave(s) ==
    /\ Scope(UserOf[s]).role = "institution"
    /\ Start(s, "leave", "leave", Idle)

Leave(s) ==
    /\ At(s, "leave")
    /\ account' = [account EXCEPT ![session[s].auth.email].inst = None]
    /\ End(s)
    /\ UNCHANGED <<founder, join, holder>>
-----------------------------------------------------------------------------
(* resolveOrCreateStudentForIssuance, in issuance's transaction: a holder  *)
(* without an account gets one that waits for its owner, and the student   *)
(* row of an email belongs to one institution.                             *)
StartIssue(s, e) ==
    /\ Scope(UserOf[s]).role = "institution"
    /\ Scope(UserOf[s]).inst # None
    /\ Start(s, "issue", "resolve", [Idle EXCEPT !.email = e])

Resolve(s) ==
    /\ At(s, "resolve")
    /\ LET e == session[s].email IN
       IF holder[e] # None THEN UNCHANGED <<account, holder>>
       ELSE /\ holder' = [holder EXCEPT ![e] = session[s].auth.inst]
            /\ account' = IF account[e] # None THEN account
                          ELSE [account EXCEPT ![e] = [clerk |-> None, role |-> "student",
                                                       inst |-> None]]
    /\ End(s)
    /\ UNCHANGED <<founder, join>>

(* GET /certificates/:id of the certificate issued to e: whoever may not   *)
(* see it is told the same as for one that does not exist.                 *)
Authorized_AnyStaff(scope, e) ==
    \/ scope.role = "institution"
    \/ scope.role = "student" /\ scope.student = e
Authorized(scope, e) ==
    \/ scope.role = "institution" /\ scope.inst = holder[e]
    \/ scope.role = "student" /\ scope.student = e

StartView(s, e) == Start(s, "view", "view", [Idle EXCEPT !.email = e])

View(s) ==
    /\ At(s, "view")
    /\ LET e == session[s].email IN
       session' = [session EXCEPT ![s] =
                     IF holder[e] # None /\ Authorized(session[s].auth, e)
                     THEN [@ EXCEPT !.pc = "answer", !.shown = e] ELSE Idle]
    /\ UNCHANGED <<data, ops>>

(* A request is over: answered, or the process died in between. *)
Finish(s) ==
    /\ ~At(s, "idle")
    /\ End(s)
    /\ UNCHANGED data

Continue(s) ==
    \/ LinkFind(s) \/ LinkWrite(s) \/ Upsert(s)
    \/ FindCode(s) \/ CreateInstitution(s) \/ JoinFind(s) \/ JoinInsert(s)
    \/ ProvisionFind(s) \/ ProvisionWrite(s) \/ Decide(s) \/ Leave(s)
    \/ Resolve(s) \/ View(s)

Next ==
    \E s \in Session :
        \/ ChooseStudent(s) \/ Webhook(s) \/ StartLeave(s)
        \/ \E c \in Code : ChooseInstitution(s, c)
        \/ \E r \in Request, decision \in Decision : StartDecision(s, r, decision)
        \/ \E e \in Email : StartIssue(s, e) \/ StartView(s, e)
        \/ Continue(s)
        \/ Finish(s)

Spec == Init /\ [][Next]_vars
-----------------------------------------------------------------------------
TypeOK ==
    /\ account \in [Email -> Account \cup {None}]
    /\ founder \in [Code -> Email \cup {None, "seed"}]
    /\ join \in [Request -> Join \cup {None}]
    /\ holder \in [Email -> Code \cup {None}]
    /\ ops \in 0 .. MaxOps
    /\ \A s \in Session :
          /\ session[s].clerk \in Clerk \cup {None}
          /\ session[s].email \in Email \cup {None}
          /\ session[s].code \in Code \cup {None}
          /\ session[s].request \in Request \cup {None}

(* The causes the code knows for acting on behalf of an institution: its   *)
(* first staff member, who founded it; a seeded user; a person whose join  *)
(* request someone of the institution approved.                            *)
Admitted(e, c) ==
    \/ founder[c] = e
    \/ \E k \in Clerk : EmailOf[k] = e /\ Seeded[k] = c
    \/ \E r \in Request : /\ join[r] # None /\ join[r].email = e /\ join[r].inst = c
                          /\ join[r].status = "APPROVED"

(* Nobody is staff of an institution without such a cause, however the     *)
(* requests, tabs, webhooks and approvals of several people interleave:    *)
(* the access code alone grants nothing (auth.routes.js 137-141).          *)
StaffWereAdmitted ==
    \A e \in Email :
        account[e] # None /\ account[e].inst # None => Admitted(e, account[e].inst)

(* And an approval was itself given by someone who had been admitted, at   *)
(* the latest when the caller's scope was read.                            *)
ApproversWereAdmitted ==
    \A r \in Request :
        join[r] # None /\ join[r].status = "APPROVED" => Admitted(join[r].by, join[r].inst)

(* A decision is final: two staff members who decide one request never     *)
(* change each other's answer, and a rejected person is not provisioned by *)
(* the slower of the two.                                                  *)
DecisionIsFinal ==
    [][\A r \in Request :
          join[r] # None /\ join[r].status # "PENDING" => join'[r] = join[r]]_vars

(* A person waits for one answer per institution: two tabs do not file two *)
(* requests.                                                               *)
OnePending == \A c \in Code, k \in Clerk : Cardinality(Pending(c, k)) <= 1

(* The founder of an institution stays the one whose INSERT won. *)
FounderIsKept ==
    [][\A c \in Code : founder[c] # None => founder'[c] = founder[c]]_vars

(* A certificate is shown to its holder and to people its institution      *)
(* admitted, to nobody else.                                               *)
ShownToEntitled ==
    \A s \in Session :
        session[s].shown # None =>
            \/ session[s].auth.email = session[s].shown
            \/ Admitted(session[s].auth.email, holder[session[s].shown])

(* Together: nobody acts for an institution, decides for it or sees its    *)
(* certificates without having been admitted to it, and nobody waits twice *)
(* (auth.routes.js, institutions.routes.js, authorizedToView),             *)
OnlyAdmittedAct ==
    /\ TypeOK /\ StaffWereAdmitted /\ ApproversWereAdmitted
    /\ OnePending /\ ShownToEntitled

(* and what was decided or founded stays so (decideJoinRequest,            *)
(* createInstitution).                                                     *)
DecisionsStand == DecisionIsFinal /\ FounderIsKept

(* auth.mw.js:13: "A brand-new signed-up user has NO role until they        *)
(* explicitly choose one" - a webhook about a user without institution     *)
(* metadata gives no role to someone who has none.                         *)
RoleIsChosen ==
    [][\A s \in Session :
          /\ session[s].op = "webhook" /\ session'[s].pc = "idle"
          /\ Seeded[UserOf[s]] = None /\ Scope(UserOf[s]).role = None
          => Scope(UserOf[s])'.role = None]_vars

(* user.repo.js:162-163: a row that already exists for the email is        *)
(* "upgraded in place rather than duplicated" - an approval whose statements   *)
(* have all run has given its person the access it was for.                *)
ApprovalProvisions ==
    [][\A s \in Session :
          /\ At(s, "provWrite") /\ session[s].op = "APPROVED"
          /\ session'[s].pc = "idle" /\ account' = account
          => Rows(session[s].clerk) # {}
             /\ \A e \in Rows(session[s].clerk) : account[e].inst = session[s].code]_vars
=============================================================================
