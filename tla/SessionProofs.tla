--------------------------- MODULE SessionProofs ---------------------------
(***************************************************************************)
(* Proofs about a browser's session, for any users, requests on their way  *)
(* and access codes: no page acts for one user on what was said of         *)
(* another, a change of one's own is seen, the code that is shown works    *)
(* and a button is disabled only while its request is out.                 *)
(***************************************************************************)
EXTENDS WebSession, FiniteSetTheorems, TLAPS

-----------------------------------------------------------------------------
(* The inductive invariant: types, *)
Account == [role : Role \cup {None}, inst : BOOLEAN, pending : BOOLEAN]
Scope == [user : User \cup {None}, role : Role \cup {None}, inst : BOOLEAN,
          pending : BOOLEAN, old : BOOLEAN]
MeCall == [user : User, live : BOOLEAN, step : {"sent", "read", "answered"},
           role : Role \cup {None}, inst : BOOLEAN, pending : BOOLEAN, old : BOOLEAN]
Code == {None} \cup {ToString(n) : n \in 0..MaxCode}
Choice == [panel : {"options", "form", "confirm"}, submitting : BOOLEAN, error : BOOLEAN,
           code : BOOLEAN, fresh : BOOLEAN]
Asked == [step : {"no", "sent", "student", "code", "pending"}, user : User \cup {None},
          kind : Role \cup {None}, mine : BOOLEAN]
Settings == [confirming : BOOLEAN, rotating : BOOLEAN, code : Code, leaving : BOOLEAN]
Rotation == [code : Code, user : User, mine : BOOLEAN]
LeaveCall == [step : {"no", "sent", "left"}, user : User \cup {None}, mine : BOOLEAN]

ServerTypes ==
    /\ account \in [User -> Account]
    /\ \A c \in User : account[c].inst => account[c].role = "institution"
    /\ code \in 1..MaxCode /\ lastBy \in LastBy
BridgeTypes ==
    /\ clerk \in User \cup {None} /\ url \in Url
    /\ bridge \in [scope : Scope, loaded : BOOLEAN]
    /\ mes \subseteq MeCall
PageTypes ==
    /\ choose \in Choice /\ settings \in Settings /\ rotations \subseteq Rotation
    /\ asked \in Asked /\ (asked.step # "no" => asked.user \in User)
    /\ leave \in LeaveCall /\ (leave.step # "no" => leave.user \in User)

(* only the last /auth/me counts, and it asks for the user that Clerk has;  *)
OneUser ==
    /\ bridge.scope.user \in {None, clerk}
    /\ \A k \in mes : k.live => k.user = clerk
    /\ \A k, j \in mes : k.live /\ j.live => k = j

(* what was read of a user and is not outdated is so still, but for a       *)
(* change whose answer will load the pages anew;                            *)
Told(c, role, inst) ==
    /\ inst => account[c].inst \/ (leave.step = "left" /\ leave.user = c)
    /\ role = "student" => account[c].role = "student"
    /\ role = None => account[c].role = None \/ (asked.step = "student" /\ asked.user = c)
Truth ==
    /\ bridge.scope.user # None /\ ~bridge.scope.old =>
          Told(bridge.scope.user, bridge.scope.role, bridge.scope.inst)
    /\ \A k \in mes : k.step # "sent" /\ ~k.old => Told(k.user, k.role, k.inst)

(* one rotation at most will be shown by the page, which shows no code      *)
(* before, and it has the last code unless the last was not made for it.    *)
OneRotation ==
    /\ \A k \in rotations : k.mine => settings.rotating
    /\ \A k, j \in rotations : k.mine /\ j.mine => k = j
    /\ settings.rotating => settings.code = None
    /\ \A k \in rotations : k.mine /\ k.code # None /\ lastBy = "page" => k.code = ToString(code)

SessionInv ==
    /\ ServerTypes /\ BridgeTypes /\ PageTypes
    /\ OneUser /\ Truth /\ OneRotation /\ ShownCodeWorks /\ DisabledWhileAsked

(* The invariant says what the checked properties say. *)
LEMMA UrlsDiffer ==
  /\ "/verify" \in Url /\ "/sign-in" \in Url /\ "/choose-role" \in Url
  /\ "/app" \in Url /\ "/app/settings" \in Url /\ "/me" \in Url
  /\ "/sign-in" \notin {"/app", "/app/settings", "/me", "/choose-role", "/verify"}
  BY DEF Url

LEMMA RedirectIsUrl ==
  ASSUME NEW u \in Url, NEW c, NEW s, NEW l
  PROVE  Redirect(u, c, s, l) \in Url
  BY DEF Redirect, RequireRole, RoleSelection, Landing, Url

(* Who is where: a page of its own is shown to a user whose scope says so. *)
LEMMA PanelMeans ==
  ASSUME BridgeTypes
  PROVE  /\ Panel \in Url \cup {"loading"}
         /\ Panel \in {"/app", "/app/settings", "/me", "/choose-role"} =>
               bridge.loaded /\ clerk # None
         /\ Panel \in {"/app", "/app/settings"} => bridge.scope.inst
         /\ Panel = "/me" => bridge.scope.role = "student"
         /\ Panel = "/choose-role" => bridge.scope.role = None \/ Detached(bridge.scope)
<1>1. Panel \in Url \cup {"loading"}
  BY DEF BridgeTypes, Panel
<1>2. ASSUME Panel = url, url = Target, bridge.loaded,
             url \in {"/app", "/app/settings", "/me", "/choose-role"}
      PROVE  /\ clerk # None
             /\ url \in {"/app", "/app/settings"} => bridge.scope.inst
             /\ url = "/me" => bridge.scope.role = "student"
             /\ url = "/choose-role" => bridge.scope.role = None \/ Detached(bridge.scope)
  <2>1. clerk # None
    BY <1>2 DEF Target, Redirect
  <2>2. bridge.scope.role \in {None, "student", "institution"} /\ bridge.scope.inst \in BOOLEAN
    BY DEF BridgeTypes, Scope, Role
  <2>3. url \in {"/app", "/app/settings"} => url = RequireRole("institution", url, bridge.scope)
    BY <1>2, <2>1 DEF Target, Redirect
  <2>4. url = "/me" => url = RequireRole("student", url, bridge.scope)
    BY <1>2, <2>1 DEF Target, Redirect
  <2>5. url = "/choose-role" => url = RoleSelection(url, bridge.scope)
    BY <1>2, <2>1 DEF Target, Redirect
  <2> QED
    BY <2>1, <2>2, <2>3, <2>4, <2>5 DEF RequireRole, RoleSelection, Landing, Detached, None
<1>3. Panel \in {"/app", "/app/settings", "/me", "/choose-role"} =>
         Panel = url /\ url = Target /\ bridge.loaded
  BY DEF Panel
<1> QED
  BY <1>1, <1>2, <1>3

LEMMA OneLive ==
  ASSUME OneUser, mes \subseteq MeCall
  PROVE  Cardinality({k \in mes : k.live}) <= 1
<1> DEFINE L == {k \in mes : k.live}
<1>1. CASE L = {}
  BY <1>1, FS_EmptySet
<1>2. CASE L # {}
  <2>1. PICK k \in L : TRUE
    BY <1>2
  <2>2. L = {k}
    BY <2>1 DEF OneUser
  <2> HIDE DEF L
  <2>3. Cardinality(L) = 1
    BY <2>2, FS_Singleton
  <2> QED
    BY <2>3 DEF L
<1> QED
  BY <1>1, <1>2

LEMMA SessionTrue == SessionInv => SessionIsTrue
<1> SUFFICES ASSUME SessionInv PROVE SessionIsTrue
  OBVIOUS
<1>1. TypeOK
  BY PanelMeans, OneLive DEF TypeOK, SessionInv, ServerTypes, BridgeTypes, PageTypes,
     Account, Scope, Choice, Asked, Settings, LeaveCall, Code
<1>2. ScopeIsOfUser
  BY DEF SessionInv, OneUser, ScopeIsOfUser
<1>3. OwnChangeIsSeen
  <2> SUFFICES ASSUME bridge.scope.user = clerk, clerk # None, ~bridge.scope.old
               PROVE  /\ Panel \in {"/app", "/app/settings"} =>
                           account[clerk].inst \/ (leave.step = "left" /\ leave.user = clerk)
                      /\ Panel = "/me" => account[clerk].role = "student"
                      /\ Choosing /\ ShownPanel = "options" =>
                           account[clerk].role = None \/ (asked.step = "student" /\ asked.user = clerk)
    BY DEF OwnChangeIsSeen
  <2>1. Told(clerk, bridge.scope.role, bridge.scope.inst)
    BY DEF SessionInv, Truth
  <2>2. ShownPanel = "options" => ~Detached(bridge.scope)
    BY DEF ShownPanel
  <2> QED
    BY <2>1, <2>2, PanelMeans DEF Told, SessionInv, Choosing
<1> QED
  BY <1>1, <1>2, <1>3 DEF SessionIsTrue

LEMMA FormsHonest == SessionInv => FormsAreHonest
  BY DEF SessionInv, FormsAreHonest

LEMMA SessionInitially == Init => SessionInv
<1> SUFFICES ASSUME Init PROVE SessionInv
  OBVIOUS
<1>1. ServerTypes
  <2> DEFINE none == [role |-> None, inst |-> FALSE, pending |-> FALSE]
             student == [role |-> "student", inst |-> FALSE, pending |-> FALSE]
             staff == [role |-> "institution", inst |-> TRUE, pending |-> FALSE]
             First == {none, student, staff}
  <2>1. account \in [User -> First] /\ code = 1 /\ lastBy = "other"
    BY DEF Init
  <2>2. \A a \in First : a \in Account /\ (a.inst => a.role = "institution")
    <3>1. none \in Account /\ student \in Account /\ staff \in Account
      BY DEF Account, Role
    <3>2. ~none.inst /\ ~student.inst /\ staff.role = "institution"
      OBVIOUS
    <3> HIDE DEF none, student, staff
    <3> QED
      BY <3>1, <3>2
  <2>3. 1 \in 1..MaxCode
    BY WebSessionAssumption
  <2> HIDE DEF First
  <2> QED
    BY <2>1, <2>2, <2>3 DEF ServerTypes, LastBy
<1>2. BridgeTypes
  BY DEF Init, BridgeTypes, NoScope, Scope, Url
<1>3. PageTypes
  BY DEF Init, PageTypes, NoChoice, NotAsked, NoSettings, NoLeave, Choice, Asked, Settings,
         Code, LeaveCall, None, Role
<1>4. OneUser /\ Truth
  BY DEF Init, OneUser, Truth, NoScope
<1>5. OneRotation /\ ShownCodeWorks /\ DisabledWhileAsked
  BY DEF Init, OneRotation, ShownCodeWorks, DisabledWhileAsked, NoChoice, NoSettings
<1> QED
  BY <1>1, <1>2, <1>3, <1>4, <1>5 DEF SessionInv

-----------------------------------------------------------------------------
(* What all steps of one kind keep. *)
LEMMA PagesOnly ==
  ASSUME SessionInv, OnlyPages,
         PageTypes', OneRotation', ShownCodeWorks', DisabledWhileAsked',
         asked.step = "student" => asked'.step = asked.step /\ asked'.user = asked.user,
         leave.step = "left" => leave'.step = leave.step /\ leave'.user = leave.user
  PROVE  SessionInv'
<1>1. /\ account' = account /\ code' = code /\ lastBy' = lastBy
      /\ clerk' = clerk /\ bridge' = bridge /\ mes' = mes /\ url' = url
  BY DEF OnlyPages
<1>2. ServerTypes' /\ BridgeTypes' /\ OneUser'
  BY <1>1 DEF SessionInv, ServerTypes, BridgeTypes, OneUser
<1>3. Truth'
  BY <1>1 DEF SessionInv, Truth, Told
<1> QED
  BY <1>2, <1>3 DEF SessionInv

LEMMA BridgeOnly ==
  ASSUME SessionInv, UNCHANGED <<account, code, lastBy, pages>>,
         BridgeTypes', OneUser', Truth'
  PROVE  SessionInv'
<1>1. /\ account' = account /\ code' = code /\ lastBy' = lastBy
      /\ choose' = choose /\ asked' = asked /\ settings' = settings
      /\ rotations' = rotations /\ leave' = leave
  BY DEF pages
<1>2. ServerTypes' /\ PageTypes'
  BY <1>1 DEF SessionInv, ServerTypes, PageTypes
<1>3. OneRotation' /\ ShownCodeWorks' /\ DisabledWhileAsked'
  BY <1>1 DEF SessionInv, OneRotation, ShownCodeWorks, DisabledWhileAsked
<1> QED
  BY <1>2, <1>3 DEF SessionInv

(* A page that is left forgets its requests and shows nothing of them. *)
LEMMA ShownKeeps ==
  ASSUME SessionInv, NEW u \in Url, ShowsUrl(u), UNCHANGED <<code, lastBy>>
  PROVE  /\ PageTypes' /\ OneRotation' /\ ShownCodeWorks' /\ DisabledWhileAsked'
         /\ url' = u
         /\ asked'.step = asked.step /\ asked'.user = asked.user
         /\ leave'.step = leave.step /\ leave'.user = leave.user
<1>1. PageTypes /\ OneRotation /\ ShownCodeWorks /\ DisabledWhileAsked
  BY DEF SessionInv
<1>2. CASE u = url
  <2>1. /\ choose' = choose /\ asked' = asked /\ settings' = settings
        /\ rotations' = rotations /\ leave' = leave /\ url' = u
    BY <1>2 DEF ShowsUrl, pages
  <2> QED
    BY <1>1, <2>1 DEF PageTypes, OneRotation, ShownCodeWorks, DisabledWhileAsked
<1>3. CASE u # url
  <2>1. /\ choose' = NoChoice /\ settings' = NoSettings /\ url' = u
        /\ asked' = [asked EXCEPT !.mine = FALSE] /\ leave' = [leave EXCEPT !.mine = FALSE]
        /\ rotations' = {[k EXCEPT !.mine = FALSE] : k \in rotations}
    BY <1>3 DEF ShowsUrl, LeavesPages
  <2>2. /\ asked' \in Asked /\ asked'.step = asked.step /\ asked'.user = asked.user
        /\ leave' \in LeaveCall /\ leave'.step = leave.step /\ leave'.user = leave.user
    BY <1>1, <2>1 DEF PageTypes, Asked, LeaveCall
  <2>3. \A k \in rotations' : k \in Rotation /\ ~k.mine
    <3>1. \A k \in rotations : LET j == [k EXCEPT !.mine = FALSE] IN j \in Rotation /\ ~j.mine
      BY <1>1 DEF PageTypes, Rotation
    <3> QED
      BY <2>1, <3>1
  <2>4. /\ choose' \in Choice /\ settings' \in Settings
        /\ ~choose'.submitting /\ ~settings'.rotating /\ ~settings'.leaving
        /\ settings'.code = None
    BY <2>1 DEF NoChoice, NoSettings, Choice, Settings, Code
  <2> QED
    BY <1>1, <2>1, <2>2, <2>3, <2>4 DEF PageTypes, OneRotation, ShownCodeWorks,
       DisabledWhileAsked
<1> QED
  BY <1>2, <1>3

(* The application starts anew. *)
LEMMA LoadsKeeps ==
  ASSUME SessionInv, NEW u \in Url, Loads(u),
         UNCHANGED <<account, code, lastBy, clerk>>
  PROVE  SessionInv'
<1>1. /\ url' = u /\ bridge' = [scope |-> NoScope, loaded |-> clerk = None]
      /\ mes' = IF clerk = None THEN {} ELSE {Me(clerk)}
      /\ choose' = NoChoice /\ asked' = NotAsked
      /\ settings' = NoSettings /\ rotations' = {} /\ leave' = NoLeave
  BY DEF Loads
<1>2. ServerTypes'
  BY DEF SessionInv, ServerTypes
<1>3. \A k \in mes' : k \in MeCall /\ k.user = clerk /\ k.step = "sent" /\ k = Me(clerk)
  <2>1. clerk # None => Me(clerk) \in MeCall
    BY DEF SessionInv, BridgeTypes, Me, MeCall
  <2>2. Me(clerk).user = clerk /\ Me(clerk).step = "sent"
    BY DEF Me
  <2> QED
    BY <1>1, <2>1, <2>2
<1>4. NoScope \in Scope /\ NoScope.user = None
  BY DEF NoScope, Scope
<1>5. BridgeTypes'
  <2>1. bridge' \in [scope : Scope, loaded : BOOLEAN]
    BY <1>1, <1>4
  <2> QED
    BY <1>1, <1>3, <2>1 DEF SessionInv, BridgeTypes
<1>6. PageTypes'
  BY <1>1 DEF PageTypes, NoChoice, NotAsked, NoSettings, NoLeave, Choice, Asked, Settings,
              Code, LeaveCall
<1>7. OneUser' /\ Truth'
  BY <1>1, <1>3, <1>4 DEF OneUser, Truth
<1>8. OneRotation' /\ ShownCodeWorks' /\ DisabledWhileAsked'
  BY <1>1 DEF OneRotation, ShownCodeWorks, DisabledWhileAsked, NoChoice, NoSettings
<1> QED
  BY <1>2, <1>5, <1>6, <1>7, <1>8 DEF SessionInv

(* What was said of c no longer counts, whatever became of it. *)
LEMMA OutdatedKeeps ==
  ASSUME SessionInv, NEW c \in User, Outdated(c), UNCHANGED <<clerk, url>>,
         \A d \in User \ {c} : /\ account'[d] = account[d]
                               /\ asked.step = "student" /\ asked.user = d =>
                                    asked'.step = "student" /\ asked'.user = d
                               /\ leave.step = "left" /\ leave.user = d =>
                                    leave'.step = "left" /\ leave'.user = d
  PROVE  BridgeTypes' /\ OneUser' /\ Truth'
<1> DEFINE Aged(k) == IF k.user = c /\ k.step # "sent" THEN [k EXCEPT !.old = TRUE] ELSE k
<1>1. BridgeTypes /\ OneUser /\ Truth
  BY DEF SessionInv
<1>2. mes' = {Aged(k) : k \in mes}
  BY DEF Outdated
<1>3. ASSUME NEW k \in mes
      PROVE  /\ Aged(k) \in MeCall /\ Aged(k).live = k.live /\ Aged(k).user = k.user
             /\ Aged(k).step # "sent" /\ ~Aged(k).old =>
                  Aged(k) = k /\ k.user \in User \ {c}
  BY <1>1 DEF BridgeTypes, MeCall
<1>4. /\ bridge' \in [scope : Scope, loaded : BOOLEAN]
      /\ bridge'.scope.user = bridge.scope.user
      /\ bridge'.scope.user # None /\ ~bridge'.scope.old =>
           bridge' = bridge /\ bridge.scope.user \in User \ {c}
  <2>1. CASE bridge.scope.user = c
    BY <1>1, <2>1 DEF Outdated, BridgeTypes, Scope
  <2>2. CASE bridge.scope.user # c
    BY <1>1, <2>2 DEF Outdated, BridgeTypes, Scope
  <2> QED
    BY <2>1, <2>2
<1> HIDE DEF Aged
<1>5. BridgeTypes'
  BY <1>1, <1>2, <1>3, <1>4 DEF BridgeTypes
<1>6. OneUser'
  BY <1>1, <1>2, <1>3, <1>4 DEF OneUser
<1>7. Truth'
  <2>1. ASSUME bridge'.scope.user # None, ~bridge'.scope.old
        PROVE  Told(bridge.scope.user, bridge.scope.role, bridge.scope.inst)'
    BY <1>1, <1>4, <2>1 DEF Truth, Told
  <2>2. ASSUME NEW k \in mes, Aged(k).step # "sent", ~Aged(k).old
        PROVE  Told(Aged(k).user, Aged(k).role, Aged(k).inst)'
    BY <1>1, <1>3, <2>2 DEF Truth, Told
  <2> QED
    BY <1>2, <2>1, <2>2 DEF Truth
<1> QED
  BY <1>5, <1>6, <1>7

-----------------------------------------------------------------------------
(* Going from page to page, and what Clerk and /auth/me say. *)
LEMMA GoesKeeps == SessionInv /\ (Navigates \/ Goes) => SessionInv'
<1> SUFFICES ASSUME SessionInv, Navigates \/ Goes PROVE SessionInv'
  OBVIOUS
<1>1. BridgeTypes /\ url \in Url
  BY DEF SessionInv, BridgeTypes
<1>2. Target \in Url
  BY <1>1, RedirectIsUrl DEF Target
<1>3. /\ \E u \in Url : ShowsUrl(u)
      /\ account' = account /\ code' = code /\ lastBy' = lastBy
      /\ clerk' = clerk /\ bridge' = bridge /\ mes' = mes
  BY <1>2 DEF Navigates, Goes
<1>4. PICK u \in Url : ShowsUrl(u)
  BY <1>3
<1>5. /\ PageTypes' /\ OneRotation' /\ ShownCodeWorks' /\ DisabledWhileAsked' /\ url' = u
      /\ asked'.step = asked.step /\ asked'.user = asked.user
      /\ leave'.step = leave.step /\ leave'.user = leave.user
  BY <1>3, <1>4, ShownKeeps
<1>6. ServerTypes' /\ BridgeTypes' /\ OneUser'
  BY <1>3, <1>5 DEF SessionInv, ServerTypes, BridgeTypes, OneUser
<1>7. Truth'
  BY <1>3, <1>5 DEF SessionInv, Truth, Told
<1> QED
  BY <1>5, <1>6, <1>7 DEF SessionInv

LEMMA CancelledIs ==
  ASSUME mes \subseteq MeCall
  PROVE  \A k \in Cancelled(mes) :
            /\ k \in MeCall /\ ~k.live
            /\ \E j \in mes : /\ k.user = j.user /\ k.step = j.step /\ k.role = j.role
                              /\ k.inst = j.inst /\ k.old = j.old
<1> SUFFICES ASSUME NEW j \in mes, NEW k, k = [j EXCEPT !.live = FALSE]
             PROVE  /\ k \in MeCall /\ ~k.live
                    /\ k.user = j.user /\ k.step = j.step /\ k.role = j.role
                    /\ k.inst = j.inst /\ k.old = j.old
  BY DEF Cancelled
<1> QED
  BY DEF MeCall

LEMMA MeIs ==
  ASSUME NEW c \in User
  PROVE  Me(c) \in MeCall /\ Me(c).user = c /\ Me(c).step = "sent"
  BY DEF Me, MeCall

LEMMA SignsInKeeps == ASSUME SessionInv, NEW c \in User, SignsIn(c) PROVE SessionInv'
<1>1. /\ BridgeTypes /\ OneUser /\ Truth /\ url \in Url /\ clerk = None /\ clerk' = c
      /\ mes' = Cancelled(mes) \cup {Me(c)}
      /\ bridge' = [bridge EXCEPT !.loaded = FALSE]
      /\ account' = account /\ code' = code /\ lastBy' = lastBy
  BY DEF SessionInv, BridgeTypes, SignsIn
<1>2. PICK u \in Url : ShowsUrl(u)
  BY <1>1, RedirectIsUrl DEF SignsIn
<1>3. /\ PageTypes' /\ OneRotation' /\ ShownCodeWorks' /\ DisabledWhileAsked' /\ url' = u
      /\ asked'.step = asked.step /\ asked'.user = asked.user
      /\ leave'.step = leave.step /\ leave'.user = leave.user
  BY <1>1, <1>2, ShownKeeps
<1>4. bridge' \in [scope : Scope, loaded : BOOLEAN] /\ bridge'.scope = bridge.scope
  BY <1>1 DEF BridgeTypes
<1>5. \A k \in mes' : k = Me(c) \/ k \in Cancelled(mes)
  BY <1>1
<1>6. \A k \in Cancelled(mes) :
            /\ k \in MeCall /\ ~k.live
            /\ \E j \in mes : /\ k.user = j.user /\ k.step = j.step /\ k.role = j.role
                              /\ k.inst = j.inst /\ k.old = j.old
  BY <1>1, CancelledIs DEF BridgeTypes
<1>7. ServerTypes'
  BY <1>1 DEF SessionInv, ServerTypes
<1>8. BridgeTypes'
  BY <1>1, <1>3, <1>4, <1>5, <1>6, MeIs DEF BridgeTypes
<1>9. OneUser'
  BY <1>1, <1>4, <1>5, <1>6, MeIs DEF OneUser
<1>10. Truth'
  <2>1. ASSUME NEW k \in mes', k.step # "sent", ~k.old
        PROVE  /\ k.inst => account[k.user].inst \/ (leave.step = "left" /\ leave.user = k.user)
               /\ k.role = "student" => account[k.user].role = "student"
               /\ k.role = None => account[k.user].role = None
                                   \/ (asked.step = "student" /\ asked.user = k.user)
    <3>1. PICK j \in mes : /\ k.user = j.user /\ k.step = j.step /\ k.role = j.role
                           /\ k.inst = j.inst /\ k.old = j.old
      BY <1>5, <1>6, <2>1, MeIs
    <3> QED
      BY <1>1, <2>1, <3>1 DEF Truth, Told
  <2> QED
    BY <1>1, <1>3, <1>4, <2>1 DEF Truth, Told
<1> QED
  BY <1>3, <1>7, <1>8, <1>9, <1>10 DEF SessionInv

LEMMA SignsOutKeeps == SessionInv /\ SignsOut => SessionInv'
<1> SUFFICES ASSUME SessionInv, SignsOut PROVE SessionInv'
  OBVIOUS
<1>1. /\ BridgeTypes /\ Truth /\ clerk' = None /\ mes' = Cancelled(mes)
      /\ bridge' = [scope |-> NoScope, loaded |-> TRUE]
      /\ account' = account /\ code' = code /\ lastBy' = lastBy
      /\ url' = url /\ UNCHANGED pages
  BY DEF SessionInv, SignsOut
<1>2. \A k \in Cancelled(mes) :
            /\ k \in MeCall /\ ~k.live
            /\ \E j \in mes : /\ k.user = j.user /\ k.step = j.step /\ k.role = j.role
                              /\ k.inst = j.inst /\ k.old = j.old
  BY <1>1, CancelledIs DEF BridgeTypes
<1>3. NoScope \in Scope /\ NoScope.user = None
  BY DEF NoScope, Scope
<1>4. BridgeTypes'
  <2>1. bridge' \in [scope : Scope, loaded : BOOLEAN]
    BY <1>1, <1>3
  <2> QED
    BY <1>1, <1>2, <2>1 DEF BridgeTypes
<1>5. OneUser'
  BY <1>1, <1>2, <1>3 DEF OneUser
<1>6. Truth'
  <2>1. asked' = asked /\ leave' = leave
    BY <1>1 DEF pages
  <2>2. ASSUME NEW k \in Cancelled(mes), k.step # "sent", ~k.old
        PROVE  /\ k.inst => account[k.user].inst \/ (leave.step = "left" /\ leave.user = k.user)
               /\ k.role = "student" => account[k.user].role = "student"
               /\ k.role = None => account[k.user].role = None
                                   \/ (asked.step = "student" /\ asked.user = k.user)
    <3>1. PICK j \in mes : /\ k.user = j.user /\ k.step = j.step /\ k.role = j.role
                           /\ k.inst = j.inst /\ k.old = j.old
      BY <1>2, <2>2
    <3> QED
      BY <1>1, <2>2, <3>1 DEF Truth, Told
  <2> QED
    BY <1>1, <1>3, <2>1, <2>2 DEF Truth, Told
<1> QED
  BY <1>1, <1>4, <1>5, <1>6, BridgeOnly

(* A request goes on with what it has read. *)
LEMMA MeGoesOn ==
  ASSUME SessionInv, NEW k \in mes, NEW j \in MeCall, mes' = (mes \ {k}) \cup {j},
         UNCHANGED <<account, code, lastBy, clerk, bridge, url, pages>>,
         j.live = k.live, j.user = k.user,
         j.step # "sent" /\ ~j.old => Told(j.user, j.role, j.inst)
  PROVE  SessionInv'
<1>1. /\ BridgeTypes /\ OneUser /\ Truth /\ account' = account /\ clerk' = clerk
      /\ bridge' = bridge /\ url' = url /\ asked' = asked /\ leave' = leave
  BY DEF SessionInv, pages
<1>2. BridgeTypes'
  BY <1>1 DEF BridgeTypes
<1>3. OneUser'
  BY <1>1 DEF OneUser
<1>4. Truth'
  BY <1>1 DEF Truth, Told
<1> QED
  BY <1>2, <1>3, <1>4, BridgeOnly

LEMMA MeKeeps == ASSUME SessionInv, NEW k \in mes, MeStep(k) PROVE SessionInv'
<1>1. /\ BridgeTypes /\ ServerTypes /\ OneUser /\ Truth /\ k \in MeCall
      /\ account[k.user] \in Account
  BY DEF SessionInv, BridgeTypes, ServerTypes, MeCall
<1>2. CASE MeReads(k)
  <2>1. PICK j : j = [k EXCEPT !.step = "read", !.role = account[k.user].role,
                               !.inst = account[k.user].inst]
    OBVIOUS
  <2>2. mes' = (mes \ {k}) \cup {j} /\ UNCHANGED <<account, code, lastBy, clerk, bridge, url, pages>>
    BY <1>2, <2>1 DEF MeReads
  <2>3. /\ j \in MeCall /\ j.live = k.live /\ j.user = k.user
        /\ j.role = account[k.user].role /\ j.inst = account[k.user].inst
    BY <1>1, <2>1 DEF MeCall, Account
  <2>4. Told(j.user, j.role, j.inst)
    BY <2>3 DEF Told
  <2> QED
    BY <2>2, <2>3, <2>4, MeGoesOn
<1>3. CASE MeAnswers(k)
  <2>1. PICK b : b = ((k.role = None \/ Detached(k)) /\ account[k.user].pending)
    OBVIOUS
  <2>2. PICK j : j = [k EXCEPT !.step = "answered", !.pending = b]
    OBVIOUS
  <2>3. /\ mes' = (mes \ {k}) \cup {j} /\ k.step = "read"
        /\ UNCHANGED <<account, code, lastBy, clerk, bridge, url, pages>>
    BY <1>3, <2>1, <2>2 DEF MeAnswers
  <2>4. b \in BOOLEAN
    BY <1>1, <2>1 DEF Account
  <2>5. /\ j \in MeCall /\ j.live = k.live /\ j.user = k.user
        /\ j.role = k.role /\ j.inst = k.inst /\ j.old = k.old
    BY <1>1, <2>2, <2>4 DEF MeCall
  <2>6. ~j.old => Told(j.user, j.role, j.inst)
    BY <1>1, <2>3, <2>5 DEF Truth
  <2> QED
    BY <2>3, <2>5, <2>6, MeGoesOn
<1>4. CASE MeReturns(k) \/ MeFails(k)
  <2>1. /\ mes' = mes \ {k} /\ account' = account /\ clerk' = clerk /\ url' = url
        /\ asked' = asked /\ leave' = leave
        /\ UNCHANGED <<account, code, lastBy, pages>>
    BY <1>4 DEF MeReturns, MeFails, pages
  <2>2. bridge' = bridge \/ bridge' = [scope |-> NoScope, loaded |-> TRUE] \/
        (k.live /\ k.step = "answered" /\
         bridge' = [scope |-> [user |-> k.user, role |-> k.role, inst |-> k.inst,
                               pending |-> k.pending, old |-> k.old], loaded |-> TRUE])
    BY <1>4 DEF MeReturns, MeFails
  <2>3. CASE bridge' = bridge
    <3>1. BridgeTypes' /\ OneUser' /\ Truth'
      BY <1>1, <2>1, <2>3 DEF BridgeTypes, OneUser, Truth, Told
    <3> QED
      BY <2>1, <3>1, BridgeOnly
  <2>4. CASE bridge' = [scope |-> NoScope, loaded |-> TRUE]
    <3>1. NoScope \in Scope /\ NoScope.user = None
      BY DEF NoScope, Scope
    <3>2. bridge' \in [scope : Scope, loaded : BOOLEAN] /\ bridge'.scope.user = None
      BY <2>4, <3>1
    <3>3. BridgeTypes' /\ OneUser' /\ Truth'
      BY <1>1, <2>1, <3>2 DEF BridgeTypes, OneUser, Truth, Told
    <3> QED
      BY <2>1, <3>3, BridgeOnly
  <2>5. ASSUME k.live, k.step = "answered",
               bridge' = [scope |-> [user |-> k.user, role |-> k.role, inst |-> k.inst,
                                     pending |-> k.pending, old |-> k.old], loaded |-> TRUE]
        PROVE  SessionInv'
    <3>1. PICK s : s = [user |-> k.user, role |-> k.role, inst |-> k.inst,
                        pending |-> k.pending, old |-> k.old]
      OBVIOUS
    <3>2. /\ s \in Scope /\ s.user = k.user /\ s.role = k.role /\ s.inst = k.inst
          /\ s.old = k.old
      BY <1>1, <3>1 DEF MeCall, Scope
    <3>3. bridge' \in [scope : Scope, loaded : BOOLEAN] /\ bridge'.scope = s
      BY <2>5, <3>1, <3>2
    <3>4. BridgeTypes'
      BY <1>1, <2>1, <3>3 DEF BridgeTypes
    <3>5. OneUser'
      BY <1>1, <2>1, <2>5, <3>2, <3>3 DEF OneUser
    <3>6. Truth'
      BY <1>1, <2>1, <2>5, <3>2, <3>3 DEF Truth, Told
    <3> QED
      BY <2>1, <3>4, <3>5, <3>6, BridgeOnly
  <2> QED
    BY <2>2, <2>3, <2>4, <2>5
<1> QED
  BY <1>2, <1>3, <1>4 DEF MeStep

-----------------------------------------------------------------------------
(* The choice of a role. *)
LEMMA TurnsKeeps == SessionInv /\ Turns => SessionInv'
<1> SUFFICES ASSUME SessionInv, Turns PROVE SessionInv'
  OBVIOUS
<1>1. PICK p \in {"options", "form", "confirm"} :
         choose' = [choose EXCEPT !.panel = p, !.error = @ /\ p # "confirm"]
  BY DEF Turns
<1>2. /\ ~choose.submitting /\ OnlyPages /\ asked' = asked /\ settings' = settings
      /\ rotations' = rotations /\ leave' = leave
  BY DEF Turns
<1>3. /\ PageTypes /\ OneRotation /\ ShownCodeWorks /\ DisabledWhileAsked /\ code' = code
      /\ lastBy' = lastBy
  BY <1>2 DEF SessionInv, OnlyPages
<1>4. choose' \in Choice /\ choose'.submitting = choose.submitting
  BY <1>1, <1>3 DEF PageTypes, Choice
<1>5. PageTypes' /\ OneRotation' /\ ShownCodeWorks' /\ DisabledWhileAsked'
  BY <1>2, <1>3, <1>4 DEF PageTypes, OneRotation, ShownCodeWorks, DisabledWhileAsked
<1> QED
  BY <1>2, <1>5, PagesOnly

LEMMA SubmitsKeeps == ASSUME SessionInv, NEW kind \in Role, Submits(kind) PROVE SessionInv'
<1>1. /\ asked = NotAsked /\ OnlyPages /\ settings' = settings /\ rotations' = rotations
      /\ leave' = leave /\ choose' = [choose EXCEPT !.submitting = TRUE, !.error = FALSE]
      /\ asked' = [step |-> "sent", user |-> clerk, kind |-> kind, mine |-> TRUE]
  BY DEF Submits
<1>2. /\ PageTypes /\ OneRotation /\ ShownCodeWorks /\ DisabledWhileAsked /\ code' = code
      /\ lastBy' = lastBy
  BY <1>1 DEF SessionInv, OnlyPages
<1>3. clerk \in User
  BY PanelMeans DEF Submits, Choosing, SessionInv, BridgeTypes
<1>4. choose' \in Choice
  BY <1>1, <1>2 DEF PageTypes, Choice
<1>5. asked' \in Asked /\ asked'.user \in User /\ asked'.step = "sent" /\ asked'.mine
  BY <1>1, <1>3 DEF Asked
<1>6. PageTypes' /\ OneRotation' /\ ShownCodeWorks' /\ DisabledWhileAsked'
  BY <1>1, <1>2, <1>4, <1>5 DEF PageTypes, OneRotation, ShownCodeWorks, DisabledWhileAsked
<1> QED
  BY <1>1, <1>6, PagesOnly DEF NotAsked

(* The server writes the role: whoever was told of none may see it still,  *)
(* until the answer loads the pages anew.                                  *)
LEMMA ChoosesKeeps == SessionInv /\ Chooses => SessionInv'
<1> SUFFICES ASSUME SessionInv, Chooses PROVE SessionInv'
  OBVIOUS
<1> DEFINE c == asked.user
<1>1. PICK to \in {"student", "code", "pending"} :
        /\ to = "student" => asked.kind = "student"
        /\ account' = [account EXCEPT ![c] =
                 CASE to = "student" -> [@ EXCEPT !.role = "student"]
                   [] to = "code" -> [@ EXCEPT !.role = "institution", !.inst = TRUE]
                   [] to = "pending" -> [@ EXCEPT !.pending = TRUE]]
        /\ asked' = [asked EXCEPT !.step = to]
        /\ IF to = "student" THEN UNCHANGED <<bridge, mes>> ELSE Outdated(c)
  BY DEF Chooses
<1>2. /\ asked.step = "sent" /\ MayChoose(account[c], asked.kind)
      /\ code' = code /\ lastBy' = lastBy /\ clerk' = clerk /\ url' = url
      /\ choose' = choose /\ settings' = settings /\ rotations' = rotations /\ leave' = leave
  BY DEF Chooses
<1>3. /\ PageTypes /\ ServerTypes /\ BridgeTypes /\ OneUser /\ Truth /\ OneRotation
      /\ ShownCodeWorks /\ DisabledWhileAsked /\ c \in User /\ account[c] \in Account
  BY <1>2 DEF SessionInv, PageTypes, ServerTypes
<1>4. PICK a : a = CASE to = "student" -> [account[c] EXCEPT !.role = "student"]
                     [] to = "code" -> [account[c] EXCEPT !.role = "institution", !.inst = TRUE]
                     [] to = "pending" -> [account[c] EXCEPT !.pending = TRUE]
  OBVIOUS
<1>5. /\ a \in Account
      /\ a.inst => a.role = "institution"
      /\ to = "student" => a.role = "student" /\ a.inst = account[c].inst
                           /\ account[c].role = None
  <2>1. CASE to = "student"
    <3>1. account[c].role = None /\ ~account[c].inst
      BY <1>1, <1>2, <1>3, <2>1 DEF MayChoose, ServerTypes, None
    <3>2. a = [account[c] EXCEPT !.role = "student"]
      BY <1>4, <2>1
    <3> QED
      BY <1>3, <2>1, <3>1, <3>2 DEF Account, Role
  <2>2. CASE to = "code"
    BY <1>3, <1>4, <2>2 DEF Account, Role
  <2>3. CASE to = "pending"
    BY <1>3, <1>4, <2>3 DEF Account, ServerTypes
  <2> QED
    BY <2>1, <2>2, <2>3
<1>6. account' = [account EXCEPT ![c] = a]
  BY <1>1, <1>4
<1>7. asked' \in Asked /\ asked'.step = to /\ asked'.user = c /\ asked'.mine = asked.mine
  BY <1>1, <1>3 DEF PageTypes, Asked
<1> HIDE DEF c
<1>8. /\ account' \in [User -> Account] /\ account'[c] = a
      /\ \A d \in User \ {c} : account'[d] = account[d]
  BY <1>3, <1>5, <1>6 DEF ServerTypes
<1>9. ServerTypes'
  BY <1>2, <1>3, <1>5, <1>8 DEF ServerTypes
<1>10. PageTypes' /\ OneRotation' /\ ShownCodeWorks' /\ DisabledWhileAsked'
  BY <1>1, <1>2, <1>3, <1>7 DEF PageTypes, OneRotation, ShownCodeWorks, DisabledWhileAsked
<1>11. BridgeTypes' /\ OneUser' /\ Truth'
  <2>1. CASE to = "student"
    <3>1. bridge' = bridge /\ mes' = mes
      BY <1>1, <2>1
    <3>2. BridgeTypes' /\ OneUser'
      BY <1>2, <1>3, <3>1 DEF BridgeTypes, OneUser
    <3>3. ASSUME NEW d \in User, NEW role, NEW inst, Told(d, role, inst) PROVE Told(d, role, inst)'
      <4>1. /\ inst => account[d].inst \/ (leave.step = "left" /\ leave.user = d)
            /\ role = "student" => account[d].role = "student"
            /\ role = None => account[d].role = None
        BY <1>2, <3>3 DEF Told
      <4>2. CASE d = c
        BY <1>2, <1>5, <1>7, <1>8, <2>1, <4>1, <4>2 DEF Told, None
      <4>3. CASE d # c
        BY <1>2, <1>8, <4>1, <4>3 DEF Told
      <4> QED
        BY <4>2, <4>3
    <3>4. PICK u, r, i, o : u = bridge.scope.user /\ r = bridge.scope.role /\ i = bridge.scope.inst
                             /\ o = bridge.scope.old
      OBVIOUS
    <3>5. u # None /\ ~o => Told(u, r, i)'
      BY <1>3, <3>3, <3>4 DEF BridgeTypes, Scope, Truth
    <3>6. \A k \in mes : k.step # "sent" /\ ~k.old => Told(k.user, k.role, k.inst)'
      BY <1>3, <3>3 DEF BridgeTypes, MeCall, Truth
    <3> QED
      BY <3>1, <3>2, <3>4, <3>5, <3>6 DEF Truth
  <2>2. CASE to # "student"
    BY <1>1, <1>2, <1>3, <1>8, <2>2, OutdatedKeeps
  <2> QED
    BY <2>1, <2>2
<1> QED
  BY <1>9, <1>10, <1>11 DEF SessionInv

LEMMA ReloadsKeep == SessionInv /\ Reloads => SessionInv'
  BY LoadsKeeps DEF Reloads, SessionInv, BridgeTypes

LEMMA ContinuesKeeps == SessionInv /\ Continues => SessionInv'
  BY LoadsKeeps, UrlsDiffer DEF Continues, SessionInv, BridgeTypes

LEMMA ChoiceReturnsKeeps == SessionInv /\ ChoiceReturns => SessionInv'
<1> SUFFICES ASSUME SessionInv, ChoiceReturns PROVE SessionInv'
  OBVIOUS
<1>1. CASE asked.step = "student"
  BY <1>1, LoadsKeeps, UrlsDiffer DEF ChoiceReturns
<1>2. CASE asked.step # "student"
  <2>1. /\ choose' = IF ~asked.mine THEN choose
                     ELSE [choose EXCEPT !.submitting = FALSE, !.code = asked.step = "code",
                                         !.fresh = asked.step = "pending"]
        /\ asked' = NotAsked /\ settings' = settings /\ rotations' = rotations
        /\ leave' = leave /\ OnlyPages
    BY <1>2 DEF ChoiceReturns, OnlyPages
  <2>2. /\ PageTypes /\ OneRotation /\ ShownCodeWorks /\ DisabledWhileAsked /\ code' = code
        /\ lastBy' = lastBy
    BY <2>1 DEF SessionInv, OnlyPages
  <2>3. choose' \in Choice /\ ~choose'.submitting
    BY <2>1, <2>2 DEF PageTypes, Choice, DisabledWhileAsked
  <2>4. asked' \in Asked /\ asked'.step = "no"
    BY <2>1 DEF NotAsked, Asked
  <2>5. PageTypes' /\ OneRotation' /\ ShownCodeWorks' /\ DisabledWhileAsked'
    BY <2>1, <2>2, <2>3, <2>4 DEF PageTypes, OneRotation, ShownCodeWorks, DisabledWhileAsked
  <2> QED
    BY <1>2, <2>1, <2>5, PagesOnly
<1> QED
  BY <1>1, <1>2

LEMMA ChoiceFailsKeeps == SessionInv /\ ChoiceFails => SessionInv'
<1> SUFFICES ASSUME SessionInv, ChoiceFails PROVE SessionInv'
  OBVIOUS
<1>1. /\ asked.step # "no" /\ asked' = NotAsked
      /\ choose' = IF ~asked.mine THEN choose
                   ELSE [choose EXCEPT !.submitting = FALSE, !.error = TRUE,
                                       !.panel = IF @ = "confirm" THEN "form" ELSE @]
      /\ account' = account /\ code' = code /\ lastBy' = lastBy
      /\ clerk' = clerk /\ url' = url
      /\ settings' = settings /\ rotations' = rotations /\ leave' = leave
  BY DEF ChoiceFails
<1>2. /\ PageTypes /\ OneRotation /\ ShownCodeWorks /\ DisabledWhileAsked
      /\ asked.user \in User
  BY <1>1 DEF SessionInv, PageTypes
<1>3. choose' \in Choice /\ ~choose'.submitting
  BY <1>1, <1>2 DEF PageTypes, Choice, DisabledWhileAsked
<1>4. asked' \in Asked /\ asked'.step = "no"
  BY <1>1 DEF NotAsked, Asked
<1>5. PageTypes' /\ OneRotation' /\ ShownCodeWorks' /\ DisabledWhileAsked'
  BY <1>1, <1>2, <1>3, <1>4 DEF PageTypes, OneRotation, ShownCodeWorks, DisabledWhileAsked
<1>6. ServerTypes'
  BY <1>1 DEF SessionInv, ServerTypes
<1>7. CASE asked.step = "sent"
  <2>1. OnlyPages
    BY <1>1, <1>7 DEF ChoiceFails, OnlyPages
  <2> QED
    BY <1>1, <1>5, <1>7, <2>1, PagesOnly
<1>8. CASE asked.step # "sent"
  <2>1. BridgeTypes' /\ OneUser' /\ Truth'
    BY <1>1, <1>2, <1>8, OutdatedKeeps DEF ChoiceFails
  <2> QED
    BY <1>5, <1>6, <2>1 DEF SessionInv
<1> QED
  BY <1>7, <1>8

(* A change that nobody has told this browser. *)
LEMMA DecidedKeeps == ASSUME SessionInv, NEW c \in User, Decided(c) PROVE SessionInv'
<1>1. /\ code' = code /\ lastBy' = lastBy /\ clerk' = clerk /\ url' = url
      /\ choose' = choose /\ asked' = asked /\ settings' = settings
      /\ rotations' = rotations /\ leave' = leave /\ Outdated(c)
  BY DEF Decided, pages
<1>2. PICK yes \in BOOLEAN :
         account' = [account EXCEPT ![c].pending = FALSE,
                                    ![c].role = IF yes THEN "institution" ELSE @,
                                    ![c].inst = @ \/ yes]
  BY DEF Decided
<1>3. ServerTypes /\ account[c] \in Account /\ (account[c].inst => account[c].role = "institution")
  BY DEF SessionInv, ServerTypes
<1>4. account' \in [User -> Account] /\ \A d \in User \ {c} : account'[d] = account[d]
  <2>1. CASE yes
    BY <1>2, <1>3, <2>1 DEF ServerTypes, Account, Role
  <2>2. CASE ~yes
    BY <1>2, <1>3, <2>2 DEF ServerTypes, Account, Role
  <2> QED
    BY <2>1, <2>2
<1>5. account'[c].inst => account'[c].role = "institution"
  <2>1. CASE yes
    BY <1>2, <1>3, <2>1 DEF ServerTypes, Account, Role
  <2>2. CASE ~yes
    BY <1>2, <1>3, <2>2 DEF ServerTypes, Account, Role
  <2> QED
    BY <2>1, <2>2
<1>6. ServerTypes'
  BY <1>1, <1>3, <1>4, <1>5 DEF ServerTypes
<1>7. BridgeTypes' /\ OneUser' /\ Truth'
  BY <1>1, <1>4, OutdatedKeeps
<1>8. PageTypes' /\ OneRotation' /\ ShownCodeWorks' /\ DisabledWhileAsked'
  BY <1>1 DEF SessionInv, PageTypes, OneRotation, ShownCodeWorks, DisabledWhileAsked
<1> QED
  BY <1>6, <1>7, <1>8 DEF SessionInv

-----------------------------------------------------------------------------
(* The settings page. *)
LEMMA ConfirmsKeeps == SessionInv /\ Confirms => SessionInv'
<1> SUFFICES ASSUME SessionInv, Confirms PROVE SessionInv'
  OBVIOUS
<1>1. /\ settings' = [settings EXCEPT !.confirming = ~@] /\ OnlyPages
      /\ choose' = choose /\ asked' = asked /\ rotations' = rotations /\ leave' = leave
  BY DEF Confirms
<1>2. /\ PageTypes /\ OneRotation /\ ShownCodeWorks /\ DisabledWhileAsked /\ code' = code
      /\ lastBy' = lastBy
  BY <1>1 DEF SessionInv, OnlyPages
<1>3. /\ settings' \in Settings /\ settings'.rotating = settings.rotating
      /\ settings'.code = settings.code /\ settings'.leaving = settings.leaving
  BY <1>1, <1>2 DEF PageTypes, Settings
<1>4. PageTypes' /\ OneRotation' /\ ShownCodeWorks' /\ DisabledWhileAsked'
  BY <1>1, <1>2, <1>3 DEF PageTypes, OneRotation, ShownCodeWorks, DisabledWhileAsked
<1> QED
  BY <1>1, <1>4, PagesOnly

LEMMA RotatesKeeps == SessionInv /\ Rotates => SessionInv'
<1> SUFFICES ASSUME SessionInv, Rotates PROVE SessionInv'
  OBVIOUS
<1>1. PICK k : k = [code |-> None, user |-> clerk, mine |-> TRUE]
  OBVIOUS
<1>2. /\ settings' = [settings EXCEPT !.rotating = TRUE] /\ rotations' = rotations \cup {k}
      /\ ~settings.rotating /\ settings.code = None
      /\ OnlyPages /\ choose' = choose /\ asked' = asked /\ leave' = leave
  BY <1>1 DEF Rotates
<1>3. /\ PageTypes /\ OneRotation /\ ShownCodeWorks /\ DisabledWhileAsked /\ code' = code
      /\ lastBy' = lastBy
  BY <1>2 DEF SessionInv, OnlyPages
<1>4. clerk \in User
  BY PanelMeans DEF Rotates, InSettings, SessionInv, BridgeTypes
<1>5. k \in Rotation /\ k.mine /\ k.code = None
  BY <1>1, <1>4 DEF Rotation, Code
<1>6. /\ settings' \in Settings /\ settings'.rotating
      /\ settings'.code = None /\ settings'.leaving = settings.leaving
  BY <1>2, <1>3 DEF PageTypes, Settings
<1>7. PageTypes' /\ OneRotation' /\ ShownCodeWorks' /\ DisabledWhileAsked'
  BY <1>2, <1>3, <1>5, <1>6 DEF PageTypes, OneRotation, ShownCodeWorks, DisabledWhileAsked
<1> QED
  BY <1>2, <1>7, PagesOnly

(* The server makes a code: the page that asked for it has the last one, or *)
(* somebody else made it.                                                   *)
LEMMA NewCodeKeeps == ASSUME SessionInv, NEW k \in rotations, NewCode(k) PROVE SessionInv'
<1>1. /\ account' = account /\ clerk' = clerk /\ bridge' = bridge /\ mes' = mes /\ url' = url
      /\ choose' = choose /\ asked' = asked /\ settings' = settings /\ leave' = leave
  BY DEF NewCode
<1>2. /\ ServerTypes /\ PageTypes /\ OneRotation /\ ShownCodeWorks /\ DisabledWhileAsked
      /\ k \in Rotation /\ MaxCode \in Nat /\ code \in Nat
  BY WebSessionAssumption DEF SessionInv, ServerTypes, PageTypes
<1>3. PICK n, j :
        /\ n \in 0..MaxCode
        /\ j = [k EXCEPT !.code = ToString(n)]
        /\ rotations' = (rotations \ {k}) \cup {j}
        /\ code' \in 1..MaxCode /\ lastBy' \in LastBy
        /\ lastBy' # "page" \/ (code' = n /\ k.mine)
  <2>1. CASE account[k.user].inst
    <3>1. /\ code < MaxCode /\ code' = code + 1 /\ lastBy' = IF k.mine THEN "page" ELSE "givenUp"
          /\ rotations' = (rotations \ {k}) \cup {[k EXCEPT !.code = ToString(code + 1)]}
      BY <2>1 DEF NewCode
    <3>2. code + 1 \in 1..MaxCode /\ code + 1 \in 0..MaxCode
      BY <1>2, <3>1
    <3>3. k.mine \in BOOLEAN
      BY <1>2 DEF Rotation
    <3> QED
      BY <3>1, <3>2, <3>3 DEF LastBy
  <2>2. CASE ~account[k.user].inst
    <3>1. /\ rotations' = (rotations \ {k}) \cup {[k EXCEPT !.code = ToString(0)]}
          /\ lastBy' = "left" /\ code' = code
      BY <2>2 DEF NewCode
    <3>2. 0 \in 0..MaxCode /\ code \in 1..MaxCode
      BY <1>2 DEF ServerTypes
    <3> QED
      BY <3>1, <3>2 DEF LastBy
  <2> QED
    BY <2>1, <2>2
<1>4. j \in Rotation /\ j.mine = k.mine /\ j.code = ToString(n)
  <2>1. ToString(n) \in Code
    BY <1>3 DEF Code
  <2> HIDE DEF Code
  <2> QED
    BY <1>2, <1>3, <2>1 DEF Rotation
<1>5. ServerTypes'
  BY <1>1, <1>2, <1>3 DEF ServerTypes
<1>6. PageTypes'
  BY <1>1, <1>2, <1>3, <1>4 DEF PageTypes
<1>7. OneRotation'
  BY <1>1, <1>2, <1>3, <1>4 DEF OneRotation
<1>8. ShownCodeWorks'
  BY <1>1, <1>2, <1>3 DEF ShownCodeWorks, OneRotation
<1>9. DisabledWhileAsked'
  BY <1>1, <1>2, <1>3, <1>4 DEF DisabledWhileAsked
<1>10. BridgeTypes' /\ OneUser' /\ Truth'
  BY <1>1 DEF SessionInv, BridgeTypes, OneUser, Truth, Told
<1> QED
  BY <1>5, <1>6, <1>7, <1>8, <1>9, <1>10 DEF SessionInv

LEMMA OtherRotatesKeeps == SessionInv /\ OtherRotates => SessionInv'
<1> SUFFICES ASSUME SessionInv, OtherRotates PROVE SessionInv'
  OBVIOUS
<1>1. /\ account' = account /\ clerk' = clerk /\ bridge' = bridge /\ mes' = mes /\ url' = url
      /\ choose' = choose /\ asked' = asked /\ settings' = settings /\ rotations' = rotations
      /\ leave' = leave /\ lastBy' = "other" /\ code < MaxCode /\ code' = code + 1
  BY DEF OtherRotates, pages
<1>2. ServerTypes'
  BY <1>1, WebSessionAssumption DEF SessionInv, ServerTypes, LastBy
<1>3. PageTypes' /\ OneRotation' /\ ShownCodeWorks' /\ DisabledWhileAsked'
  BY <1>1 DEF SessionInv, PageTypes, OneRotation, ShownCodeWorks, DisabledWhileAsked
<1>4. BridgeTypes' /\ OneUser' /\ Truth'
  BY <1>1 DEF SessionInv, BridgeTypes, OneUser, Truth, Told
<1> QED
  BY <1>2, <1>3, <1>4 DEF SessionInv

LEMMA RotationReturnsKeeps ==
  ASSUME SessionInv, NEW k \in rotations, RotationReturns(k) PROVE SessionInv'
<1>1. /\ k.code # None /\ rotations' = rotations \ {k} /\ OnlyPages
      /\ settings' = IF ~k.mine THEN settings
                     ELSE [settings EXCEPT !.code = k.code, !.confirming = FALSE,
                                           !.rotating = FALSE]
      /\ choose' = choose /\ asked' = asked /\ leave' = leave
  BY DEF RotationReturns
<1>2. /\ PageTypes /\ OneRotation /\ ShownCodeWorks /\ DisabledWhileAsked /\ code' = code
      /\ lastBy' = lastBy /\ k.code \in Code /\ k.mine \in BOOLEAN
  BY <1>1 DEF SessionInv, OnlyPages, PageTypes, Rotation
<1>3. CASE ~k.mine
  BY <1>1, <1>2, <1>3, PagesOnly DEF PageTypes, OneRotation, ShownCodeWorks, DisabledWhileAsked
<1>4. CASE k.mine
  <2>1. /\ settings' \in Settings /\ ~settings'.rotating
        /\ settings'.code = k.code /\ settings'.leaving = settings.leaving
    BY <1>1, <1>2, <1>4 DEF PageTypes, Settings
  <2>2. PageTypes' /\ OneRotation' /\ ShownCodeWorks' /\ DisabledWhileAsked'
    BY <1>1, <1>2, <1>4, <2>1 DEF PageTypes, OneRotation, ShownCodeWorks, DisabledWhileAsked
  <2> QED
    BY <1>1, <2>2, PagesOnly
<1> QED
  BY <1>3, <1>4

LEMMA RotationFailsKeeps ==
  ASSUME SessionInv, NEW k \in rotations, RotationFails(k) PROVE SessionInv'
<1>1. /\ OnlyPages /\ choose' = choose /\ asked' = asked /\ leave' = leave
      /\ settings' = IF k.mine THEN [settings EXCEPT !.rotating = FALSE] ELSE settings
      /\ rotations' = rotations \ {k} \/
         rotations' = (rotations \ {k}) \cup {[k EXCEPT !.mine = FALSE]}
  BY DEF RotationFails
<1>2. /\ PageTypes /\ OneRotation /\ ShownCodeWorks /\ DisabledWhileAsked /\ code' = code
      /\ lastBy' = lastBy /\ k \in Rotation /\ k.mine \in BOOLEAN
  BY <1>1 DEF SessionInv, OnlyPages, PageTypes, Rotation
<1>3. PICK j : j = [k EXCEPT !.mine = FALSE]
  OBVIOUS
<1>4. j \in Rotation /\ ~j.mine
  BY <1>2, <1>3 DEF Rotation
<1>5. \A i \in rotations' : (i \in rotations /\ i # k) \/ i = j
  BY <1>1, <1>3
<1>6. \A i \in rotations : i # k => i \in rotations'
  BY <1>1
<1>7. /\ settings' \in Settings /\ settings'.code = settings.code
      /\ settings'.leaving = settings.leaving
      /\ settings'.rotating = (settings.rotating /\ ~k.mine)
  BY <1>1, <1>2 DEF PageTypes, Settings
<1>8. PageTypes'
  BY <1>1, <1>2, <1>4, <1>5, <1>7 DEF PageTypes
<1>9. OneRotation' /\ ShownCodeWorks' /\ DisabledWhileAsked'
  BY <1>1, <1>2, <1>4, <1>5, <1>6, <1>7 DEF OneRotation, ShownCodeWorks, DisabledWhileAsked
<1> QED
  BY <1>1, <1>8, <1>9, PagesOnly

LEMMA LeavesKeeps == SessionInv /\ Leaves => SessionInv'
<1> SUFFICES ASSUME SessionInv, Leaves PROVE SessionInv'
  OBVIOUS
<1>1. /\ leave = NoLeave /\ settings' = [settings EXCEPT !.leaving = TRUE] /\ OnlyPages
      /\ leave' = [step |-> "sent", user |-> clerk, mine |-> TRUE]
      /\ choose' = choose /\ asked' = asked /\ rotations' = rotations
  BY DEF Leaves
<1>2. /\ PageTypes /\ OneRotation /\ ShownCodeWorks /\ DisabledWhileAsked /\ code' = code
      /\ lastBy' = lastBy
  BY <1>1 DEF SessionInv, OnlyPages
<1>3. clerk \in User
  BY PanelMeans DEF Leaves, InSettings, SessionInv, BridgeTypes
<1>4. leave' \in LeaveCall /\ leave'.user \in User /\ leave'.step = "sent" /\ leave'.mine
  BY <1>1, <1>3 DEF LeaveCall
<1>5. /\ settings' \in Settings /\ settings'.rotating = settings.rotating
      /\ settings'.code = settings.code
  BY <1>1, <1>2 DEF PageTypes, Settings
<1>6. PageTypes' /\ OneRotation' /\ ShownCodeWorks' /\ DisabledWhileAsked'
  BY <1>1, <1>2, <1>4, <1>5 DEF PageTypes, OneRotation, ShownCodeWorks, DisabledWhileAsked
<1> QED
  BY <1>1, <1>6, PagesOnly DEF NoLeave

(* The server lets the user go: whoever was told of the institution may see *)
(* its pages still, until the answer loads them anew.                       *)
LEMMA LeftKeeps == SessionInv /\ Left => SessionInv'
<1> SUFFICES ASSUME SessionInv, Left PROVE SessionInv'
  OBVIOUS
<1> DEFINE c == leave.user
<1>1. /\ leave.step = "sent" /\ account[c].role = "institution"
      /\ account' = [account EXCEPT ![c].inst = FALSE]
      /\ leave' = [leave EXCEPT !.step = "left"]
      /\ code' = code /\ lastBy' = lastBy /\ clerk' = clerk /\ bridge' = bridge
      /\ mes' = mes /\ url' = url /\ choose' = choose /\ asked' = asked
      /\ settings' = settings /\ rotations' = rotations
  BY DEF Left
<1>2. /\ PageTypes /\ ServerTypes /\ BridgeTypes /\ OneUser /\ Truth /\ OneRotation
      /\ ShownCodeWorks /\ DisabledWhileAsked /\ c \in User /\ account[c] \in Account
  BY <1>1 DEF SessionInv, PageTypes, ServerTypes
<1>3. /\ leave' \in LeaveCall /\ leave'.step = "left" /\ leave'.user = c
      /\ leave'.mine = leave.mine
  BY <1>1, <1>2 DEF PageTypes, LeaveCall
<1>4. /\ account' \in [User -> Account]
      /\ \A d \in User : account'[d].role = account[d].role /\ (d # c => account'[d] = account[d])
      /\ ~account'[c].inst
  BY <1>1, <1>2 DEF ServerTypes, Account
<1> HIDE DEF c
<1>5. ServerTypes'
  BY <1>1, <1>2, <1>4 DEF ServerTypes
<1>6. PageTypes' /\ OneRotation' /\ ShownCodeWorks' /\ DisabledWhileAsked'
  BY <1>1, <1>2, <1>3 DEF PageTypes, OneRotation, ShownCodeWorks, DisabledWhileAsked
<1>7. BridgeTypes' /\ OneUser'
  BY <1>1, <1>2 DEF BridgeTypes, OneUser
<1>8. ASSUME NEW d \in User, NEW role, NEW inst, Told(d, role, inst) PROVE Told(d, role, inst)'
  <2>1. CASE d = c
    BY <1>1, <1>3, <1>4, <1>8, <2>1 DEF Told
  <2>2. CASE d # c
    BY <1>1, <1>4, <1>8, <2>2 DEF Told
  <2> QED
    BY <2>1, <2>2
<1>9. Truth'
  <2>1. PICK u, r, i, o : u = bridge.scope.user /\ r = bridge.scope.role /\ i = bridge.scope.inst
                           /\ o = bridge.scope.old
    OBVIOUS
  <2>2. u # None /\ ~o => Told(u, r, i)'
    BY <1>2, <1>8, <2>1 DEF BridgeTypes, Scope, Truth
  <2>3. \A k \in mes : k.step # "sent" /\ ~k.old => Told(k.user, k.role, k.inst)'
    BY <1>2, <1>8 DEF BridgeTypes, MeCall, Truth
  <2> QED
    BY <1>1, <2>1, <2>2, <2>3 DEF Truth
<1> QED
  BY <1>5, <1>6, <1>7, <1>9 DEF SessionInv

LEMMA LeaveReturnsKeeps == SessionInv /\ LeaveReturns => SessionInv'
  BY LoadsKeeps, UrlsDiffer DEF LeaveReturns

LEMMA LeaveFailsKeeps == SessionInv /\ LeaveFails => SessionInv'
<1> SUFFICES ASSUME SessionInv, LeaveFails PROVE SessionInv'
  OBVIOUS
<1>1. /\ leave.step # "no" /\ leave' = NoLeave
      /\ settings' = IF leave.mine THEN [settings EXCEPT !.leaving = FALSE] ELSE settings
      /\ account' = account /\ code' = code /\ lastBy' = lastBy
      /\ clerk' = clerk /\ url' = url
      /\ choose' = choose /\ asked' = asked /\ rotations' = rotations
  BY DEF LeaveFails
<1>2. /\ PageTypes /\ OneRotation /\ ShownCodeWorks /\ DisabledWhileAsked
      /\ leave.user \in User
  BY <1>1 DEF SessionInv, PageTypes
<1>3. /\ settings' \in Settings /\ settings'.rotating = settings.rotating
      /\ settings'.code = settings.code /\ ~settings'.leaving
  BY <1>1, <1>2 DEF PageTypes, Settings, DisabledWhileAsked
<1>4. leave' \in LeaveCall /\ leave'.step = "no"
  BY <1>1 DEF NoLeave, LeaveCall
<1>5. PageTypes' /\ OneRotation' /\ ShownCodeWorks' /\ DisabledWhileAsked'
  BY <1>1, <1>2, <1>3, <1>4 DEF PageTypes, OneRotation, ShownCodeWorks, DisabledWhileAsked
<1>6. ServerTypes'
  BY <1>1 DEF SessionInv, ServerTypes
<1>7. CASE leave.step = "sent"
  <2>1. OnlyPages
    BY <1>1, <1>7 DEF LeaveFails, OnlyPages
  <2> QED
    BY <1>1, <1>5, <1>7, <2>1, PagesOnly
<1>8. CASE leave.step # "sent"
  <2>1. BridgeTypes' /\ OneUser' /\ Truth'
    BY <1>1, <1>2, <1>8, OutdatedKeeps DEF LeaveFails
  <2> QED
    BY <1>5, <1>6, <2>1 DEF SessionInv
<1> QED
  BY <1>7, <1>8

-----------------------------------------------------------------------------
LEMMA SessionStep == SessionInv /\ [Next]_vars => SessionInv'
<1> SUFFICES ASSUME SessionInv, [Next]_vars PROVE SessionInv'
  OBVIOUS
<1>1. CASE UNCHANGED vars
  <2>1. UNCHANGED <<account, code, lastBy, pages>> /\ UNCHANGED <<clerk, bridge, mes, url>>
    BY <1>1 DEF vars
  <2>2. BridgeTypes' /\ OneUser' /\ Truth'
    BY <2>1 DEF SessionInv, BridgeTypes, OneUser, Truth, Told, pages
  <2> QED
    BY <2>1, <2>2, BridgeOnly
<1>2. CASE Next
  BY <1>2, GoesKeeps, ReloadsKeep, SignsOutKeeps, SignsInKeeps, DecidedKeeps, MeKeeps,
     TurnsKeeps, SubmitsKeeps, ChoosesKeeps, ChoiceReturnsKeeps, ChoiceFailsKeeps,
     ContinuesKeeps, ConfirmsKeeps, RotatesKeeps, OtherRotatesKeeps, NewCodeKeeps,
     RotationReturnsKeeps, RotationFailsKeeps, LeavesKeeps, LeftKeeps, LeaveReturnsKeeps,
     LeaveFailsKeeps DEF Next
<1> QED
  BY <1>1, <1>2

(* The bridge to Clerk, what it was told and what the pages asked for stay
   together: the invariant that carries both theorems below. *)
THEOREM SessionInvariance == Spec => []SessionInv
<1> QED
  BY SessionInitially, SessionStep, PTL DEF Spec

(* However sign-ins, answers and full navigations overtake each other, no page
   acts for one user on what /auth/me said of another, and whoever became a
   student or left and was told so is not shown the pages of before
   (ClerkAuthBridge.jsx, RequireRole.jsx). *)
THEOREM SessionsAreTrue == Spec => []SessionIsTrue
<1> QED
  BY SessionInvariance, SessionTrue, PTL

(* The code on the settings page is the institution's unless somebody else
   rotated it, and a button is disabled only while the request it sent may
   still return to the page (SettingsPage.jsx, RoleSelectionPage.jsx). *)
THEOREM HonestForms == Spec => []FormsAreHonest
<1> QED
  BY SessionInvariance, FormsHonest, PTL
=============================================================================
