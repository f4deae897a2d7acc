----------------------------- MODULE WebSession -----------------------------
(***************************************************************************)
(* One browser's session: who is signed in with Clerk, what GET /auth/me   *)
(* said of them (ClerkAuthBridge.jsx), where the route guards send them    *)
(* (RequireRole.jsx, SignInPage.jsx, RoleSelectionPage.jsx), the one-time  *)
(* choice of a role and the settings page (SettingsPage.jsx).              *)
(*                                                                         *)
(* A render and the effects that follow it are one step; a redirect is a   *)
(* step.  A full navigation (window.location) starts the application anew; *)
(* the callbacks of a page that was left still run, but no longer reach    *)
(* its state.  Membership.tla has the server's side in detail.             *)
(***************************************************************************)
EXTENDS Naturals, FiniteSets, TLC

CONSTANTS User,         \* Clerk users of this browser
          MaxMe,        \* bound: GET /auth/me on their way
          MaxCode       \* bound: access codes of the institution, by number

None == "none"

(* Clerk's ids are not that word. *)
ASSUME WebSessionAssumption ==
    /\ IsFiniteSet(User) /\ User # {} /\ None \notin User
    /\ MaxMe \in Nat \ {0} /\ MaxCode \in Nat \ {0}

VARIABLES account,      \* the users' rows: role, institution, open join request
          code,         \* the access code of the institution on the settings page
          lastBy,       \* history: whose rotation the server answered last
          clerk,        \* the user that Clerk says is signed in
          bridge,       \* scope and scopeLoaded
          mes,          \* GET /auth/me on their way
          url,
          choose,       \* RoleSelectionPage
          asked,        \* its POST /auth/choose-role
          settings,     \* SettingsPage
          rotations,    \* its POST .../rotate-access-code; code 0: none is stored
          leave         \* its POST .../leave

pages == <<choose, asked, settings, rotations, leave>>
vars == <<account, code, lastBy, clerk, bridge, mes, url, pages>>

Role == {"student", "institution"}
Url == {"/verify", "/sign-in", "/choose-role", "/app", "/app/settings", "/me"}
Landing(role) == IF role = "institution" THEN "/app" ELSE "/me"
NoScope == [user |-> None, role |-> None, inst |-> FALSE, pending |-> FALSE, old |-> FALSE]
NoChoice == [panel |-> "options", submitting |-> FALSE, error |-> FALSE,
             code |-> FALSE, fresh |-> FALSE]
NotAsked == [step |-> "no", user |-> None, kind |-> None, mine |-> FALSE]
NoSettings == [confirming |-> FALSE, rotating |-> FALSE, code |-> None,
               leaving |-> FALSE]
NoLeave == [step |-> "no", user |-> None, mine |-> FALSE]
Detached(s) == s.role = "institution" /\ ~s.inst

-----------------------------------------------------------------------------
(* The guards. *)

RequireRole(role, u, s) ==
    IF s.role = None \/ Detached(s) THEN "/choose-role"
    ELSE IF s.role # role THEN Landing(s.role) ELSE u

RoleSelection_NoneDetached(u, s) == IF s.role # None THEN Landing(s.role) ELSE u
RoleSelection(u, s) ==
    IF s.role # None /\ ~Detached(s) THEN Landing(s.role) ELSE u

(* Where the page at u sends user c whose scope is s. *)
Redirect(u, c, s, loaded) ==
    CASE u \in {"/app", "/app/settings", "/me", "/choose-role"} /\ loaded /\ c = None -> "/sign-in"
      [] u \in {"/app", "/app/settings"} /\ loaded /\ c # None -> RequireRole("institution", u, s)
      [] u = "/me" /\ loaded /\ c # None -> RequireRole("student", u, s)
      [] u = "/choose-role" /\ loaded /\ c # None -> RoleSelection(u, s)
      [] u = "/sign-in" /\ loaded /\ c # None ->
            IF s.role = None THEN "/choose-role" ELSE Landing(s.role)
      [] OTHER -> u
Target == Redirect(url, clerk, bridge.scope, bridge.loaded)
Panel == IF url = Target /\ (bridge.loaded \/ url \in {"/verify", "/sign-in"})
           THEN url ELSE "loading"

(* A page that is left loses its state, and its requests their reader. *)
LeavesPages ==
    /\ choose' = NoChoice /\ asked' = [asked EXCEPT !.mine = FALSE]
    /\ settings' = NoSettings /\ leave' = [leave EXCEPT !.mine = FALSE]
    /\ rotations' = {[k EXCEPT !.mine = FALSE] : k \in rotations}
ShowsUrl(u) ==
    /\ url' = u
    /\ IF u = url THEN UNCHANGED pages ELSE LeavesPages

Navigates ==
    /\ Target # url
    /\ ShowsUrl(Target)
    /\ UNCHANGED <<account, code, lastBy, clerk, bridge, mes>>
Goes ==
    /\ Target = url
    /\ \E u \in Url \ {url} : ShowsUrl(u)
    /\ UNCHANGED <<account, code, lastBy, clerk, bridge, mes>>

-----------------------------------------------------------------------------
(* The bridge to Clerk. *)

Me(c) == [user |-> c, live |-> TRUE, step |-> "sent", role |-> None, inst |-> FALSE,
          pending |-> FALSE, old |-> FALSE]
Cancelled(ms) == {[k EXCEPT !.live = FALSE] : k \in ms}

Loads_ClientSide(u) ==
    /\ url' = u
    /\ UNCHANGED <<bridge, mes>>
    /\ choose' = NoChoice /\ asked' = NotAsked
    /\ settings' = NoSettings /\ rotations' = {} /\ leave' = NoLeave
(* A full page load: the application starts anew and asks who is there;    *)
(* the requests of the old page are gone. *)
Loads(u) ==
    /\ url' = u
    /\ bridge' = [scope |-> NoScope, loaded |-> clerk = None]
    /\ mes' = IF clerk = None THEN {} ELSE {Me(clerk)}
    /\ choose' = NoChoice /\ asked' = NotAsked
    /\ settings' = NoSettings /\ rotations' = {} /\ leave' = NoLeave

(* Bound: nobody reloads a page that is still loading. *)
Reloads ==
    /\ bridge.loaded
    /\ Loads(url)
    /\ UNCHANGED <<account, code, lastBy, clerk>>

(* The first render after Clerk's change still has the scope of before;    *)
(* the guards act on it before the bridge's effect asks for the new one.   *)
SignsIn(c) ==
    /\ clerk = None /\ Cardinality(mes) < MaxMe
    /\ clerk' = c
    /\ bridge' = [bridge EXCEPT !.loaded = FALSE]
    /\ mes' = Cancelled(mes) \cup {Me(c)}
    /\ ShowsUrl(Redirect(url, c, bridge.scope, bridge.loaded))
    /\ UNCHANGED <<account, code, lastBy>>
SignsOut ==
    /\ clerk # None
    /\ clerk' = None
    /\ bridge' = [scope |-> NoScope, loaded |-> TRUE]
    /\ mes' = Cancelled(mes)
    /\ UNCHANGED <<account, code, lastBy, url, pages>>

(* GET /auth/me reads the user's row (requireAuth) and then, for a user    *)
(* without role or institution, the open join request.                     *)
MeReads(k) ==
    /\ k.step = "sent"
    /\ \E a \in {account[k.user]} :
          mes' = (mes \ {k}) \cup {[k EXCEPT !.step = "read", !.role = a.role, !.inst = a.inst]}
    /\ UNCHANGED <<account, code, lastBy, clerk, bridge, url, pages>>
MeAnswers(k) ==
    /\ k.step = "read"
    /\ mes' = (mes \ {k}) \cup
              {[k EXCEPT !.step = "answered",
                         !.pending = (k.role = None \/ Detached(k)) /\ account[k.user].pending]}
    /\ UNCHANGED <<account, code, lastBy, clerk, bridge, url, pages>>

MeReturns_Uncancelled(k) ==
    /\ k.step = "answered"
    /\ mes' = mes \ {k}
    /\ bridge' = [scope |-> [user |-> k.user, role |-> k.role, inst |-> k.inst,
                             pending |-> k.pending, old |-> k.old], loaded |-> TRUE]
    /\ UNCHANGED <<account, code, lastBy, clerk, url, pages>>
MeReturns(k) ==
    /\ k.step = "answered"
    /\ mes' = mes \ {k}
    /\ bridge' = IF k.live
                   THEN [scope |-> [user |-> k.user, role |-> k.role, inst |-> k.inst,
                                    pending |-> k.pending, old |-> k.old], loaded |-> TRUE]
                   ELSE bridge
    /\ UNCHANGED <<account, code, lastBy, clerk, url, pages>>
MeFails_NeverLoaded(k) ==
    /\ mes' = mes \ {k}
    /\ UNCHANGED <<account, code, lastBy, clerk, bridge, url, pages>>
(* A failed /auth/me counts as no role. *)
MeFails(k) ==
    /\ mes' = mes \ {k}
    /\ bridge' = IF k.live THEN [scope |-> NoScope, loaded |-> TRUE] ELSE bridge
    /\ UNCHANGED <<account, code, lastBy, clerk, url, pages>>

-----------------------------------------------------------------------------
(* The choice of a role. *)

(* History: what was read of c before this is no longer so, and nothing    *)
(* that has returned to this browser says it. *)
Outdated(c) ==
    /\ bridge' = IF bridge.scope.user = c THEN [bridge EXCEPT !.scope.old = TRUE] ELSE bridge
    /\ mes' = {IF k.user = c /\ k.step # "sent" THEN [k EXCEPT !.old = TRUE] ELSE k : k \in mes}

Choosing == Panel = "/choose-role"
ShownPanel == IF choose.code THEN "code"
              ELSE IF choose.fresh \/ bridge.scope.pending THEN "pending"
              ELSE IF choose.panel = "options" /\ Detached(bridge.scope) THEN "form"
              ELSE choose.panel
OnlyPages == UNCHANGED <<account, code, lastBy, clerk, bridge, mes, url>>

(* "I'm from an institution", Continue, "Go back and check", Back. *)
Turns ==
    /\ Choosing /\ ~choose.submitting
    /\ \E p \in {"options", "form", "confirm"} :
          /\ <<ShownPanel, p>> \in {<<"options", "form">>, <<"form", "confirm">>,
                                    <<"confirm", "form">>, <<"form", "options">>}
          /\ p = "options" => ~Detached(bridge.scope)
          /\ choose' = [choose EXCEPT !.panel = p, !.error = @ /\ p # "confirm"]
    /\ OnlyPages /\ UNCHANGED <<asked, settings, rotations, leave>>

(* Bound: what another page asked for is over before a page asks. *)
Submits(kind) ==
    /\ Choosing /\ ~choose.submitting /\ asked = NotAsked
    /\ leave = NoLeave /\ rotations = {}
    /\ ShownPanel = IF kind = "student" THEN "options" ELSE "confirm"
    /\ choose' = [choose EXCEPT !.submitting = TRUE, !.error = FALSE]
    /\ asked' = [step |-> "sent", user |-> clerk, kind |-> kind, mine |-> TRUE]
    /\ OnlyPages /\ UNCHANGED <<settings, rotations, leave>>

(* POST /auth/choose-role: a new institution, or a request to join one.    *)
MayChoose_Again(a, kind) == TRUE
MayChoose(a, kind) == a.role = None \/ (Detached(a) /\ kind = "institution")
Chooses ==
    /\ asked.step = "sent"
    /\ MayChoose(account[asked.user], asked.kind)
    /\ \E to \in IF asked.kind = "student" THEN {"student"} ELSE {"code", "pending"} :
          /\ to = "pending" => ~account[asked.user].pending
          /\ account' = [account EXCEPT ![asked.user] =
                 CASE to = "student" -> [@ EXCEPT !.role = "student"]
                   [] to = "code" -> [@ EXCEPT !.role = "institution", !.inst = TRUE]
                   [] to = "pending" -> [@ EXCEPT !.pending = TRUE]]
          /\ asked' = [asked EXCEPT !.step = to]
          /\ IF to = "student" THEN UNCHANGED <<bridge, mes>> ELSE Outdated(asked.user)
    /\ UNCHANGED <<code, lastBy, clerk, url, choose, settings, rotations, leave>>

ChoiceReturns ==
    /\ asked.step \in {"student", "code", "pending"}
    /\ IF asked.step = "student"
         THEN Loads("/me")
         ELSE /\ choose' = IF ~asked.mine THEN choose
                           ELSE [choose EXCEPT !.submitting = FALSE, !.code = asked.step = "code",
                                               !.fresh = asked.step = "pending"]
              /\ asked' = NotAsked
              /\ UNCHANGED <<bridge, mes, url, settings, rotations, leave>>
    /\ UNCHANGED <<account, code, lastBy, clerk>>
ChoiceFails_StaysSubmitting ==
    /\ asked.step # "no"
    /\ choose' = IF asked.mine THEN [choose EXCEPT !.error = TRUE] ELSE choose
    /\ asked' = NotAsked
    /\ OnlyPages /\ UNCHANGED <<settings, rotations, leave>>
(* Refused, or the request or its answer is lost. *)
ChoiceFails ==
    /\ asked.step # "no"
    /\ choose' = IF ~asked.mine THEN choose
                 ELSE [choose EXCEPT !.submitting = FALSE, !.error = TRUE,
                                     !.panel = IF @ = "confirm" THEN "form" ELSE @]
    /\ asked' = NotAsked
    /\ IF asked.step = "sent" THEN UNCHANGED <<bridge, mes>> ELSE Outdated(asked.user)
    /\ UNCHANGED <<account, code, lastBy, clerk, url, settings, rotations, leave>>

(* "Continue to dashboard", and "Check again" below a pending request. *)
Continues ==
    /\ Choosing
    /\ \/ ShownPanel = "code" /\ Loads("/app")
       \/ ShownPanel = "pending" /\ Loads(url)
    /\ UNCHANGED <<account, code, lastBy, clerk>>

(* A staff member decides the join request. *)
Decided(c) ==
    /\ account[c].pending
    /\ \E yes \in BOOLEAN :
          account' = [account EXCEPT ![c].pending = FALSE,
                                     ![c].role = IF yes THEN "institution" ELSE @,
                                     ![c].inst = @ \/ yes]
    /\ Outdated(c)
    /\ UNCHANGED <<code, lastBy, clerk, url, pages>>

-----------------------------------------------------------------------------
(* The settings page. *)

InSettings == Panel = "/app/settings"

Confirms ==
    /\ InSettings /\ settings.code = None /\ ~settings.rotating
    /\ settings' = [settings EXCEPT !.confirming = ~@]
    /\ OnlyPages /\ UNCHANGED <<choose, asked, rotations, leave>>

Rotates_WhileRotating ==
    /\ InSettings /\ settings.confirming
    /\ Cardinality(rotations) < 2 /\ asked = NotAsked
    /\ settings' = [settings EXCEPT !.rotating = TRUE]
    /\ rotations' = rotations \cup {[code |-> None, user |-> clerk, mine |-> TRUE]}
    /\ OnlyPages /\ UNCHANGED <<choose, asked, leave>>
Rotates ==
    /\ InSettings /\ settings.confirming /\ ~settings.rotating /\ settings.code = None
    /\ Cardinality(rotations) < 2 /\ asked = NotAsked
    /\ settings' = [settings EXCEPT !.rotating = TRUE]
    /\ rotations' = rotations \cup {[code |-> None, user |-> clerk, mine |-> TRUE]}
    /\ OnlyPages /\ UNCHANGED <<choose, asked, leave>>
(* An account without an institution keeps its role and passes requireRole; *)
(* the UPDATE then finds no row, and the new code is returned all the same.  *)
NewCode(k) ==
    /\ k.code = None /\ account[k.user].role = "institution"
    /\ IF account[k.user].inst
         THEN /\ code < MaxCode
              /\ code' = code + 1
              /\ lastBy' = IF k.mine THEN "page" ELSE "givenUp"
              /\ rotations' = (rotations \ {k}) \cup {[k EXCEPT !.code = ToString(code + 1)]}
         ELSE /\ rotations' = (rotations \ {k}) \cup {[k EXCEPT !.code = ToString(0)]}
              /\ lastBy' = "left"
              /\ UNCHANGED code
    /\ UNCHANGED <<account, clerk, bridge, mes, url, choose, asked, settings, leave>>
OtherRotates ==
    /\ code < MaxCode
    /\ code' = code + 1
    /\ lastBy' = "other"
    /\ UNCHANGED <<account, clerk, bridge, mes, url, pages>>
RotationReturns(k) ==
    /\ k.code # None
    /\ rotations' = rotations \ {k}
    /\ settings' = IF ~k.mine THEN settings
                   ELSE [settings EXCEPT !.code = k.code, !.confirming = FALSE, !.rotating = FALSE]
    /\ OnlyPages /\ UNCHANGED <<choose, asked, leave>>
(* Refused, lost, or given up while the server still works on it. *)
RotationFails(k) ==
    /\ \/ rotations' = rotations \ {k}
       \/ k.code = None /\ k.mine
          /\ rotations' = (rotations \ {k}) \cup {[k EXCEPT !.mine = FALSE]}
    /\ settings' = IF k.mine THEN [settings EXCEPT !.rotating = FALSE] ELSE settings
    /\ OnlyPages /\ UNCHANGED <<choose, asked, leave>>

(* The dialog that asks once more is part of the click. *)
Leaves ==
    /\ InSettings /\ ~settings.leaving /\ leave = NoLeave /\ asked = NotAsked
    /\ settings' = [settings EXCEPT !.leaving = TRUE]
    /\ leave' = [step |-> "sent", user |-> clerk, mine |-> TRUE]
    /\ OnlyPages /\ UNCHANGED <<choose, asked, rotations>>
Left ==
    /\ leave.step = "sent"
    /\ account[leave.user].role = "institution"
    /\ account' = [account EXCEPT ![leave.user].inst = FALSE]
    /\ leave' = [leave EXCEPT !.step = "left"]
    /\ UNCHANGED <<code, lastBy, clerk, bridge, mes, url, choose, asked, settings, rotations>>
LeaveReturns ==
    /\ leave.step = "left"
    /\ Loads("/choose-role")
    /\ UNCHANGED <<account, code, lastBy, clerk>>
LeaveFails ==
    /\ leave.step # "no"
    /\ leave' = NoLeave
    /\ settings' = IF leave.mine THEN [settings EXCEPT !.leaving = FALSE] ELSE settings
    /\ IF leave.step = "sent" THEN UNCHANGED <<bridge, mes>> ELSE Outdated(leave.user)
    /\ UNCHANGED <<account, code, lastBy, clerk, url, choose, asked, rotations>>

-----------------------------------------------------------------------------

Init ==
    /\ account \in [User -> {[role |-> None, inst |-> FALSE, pending |-> FALSE],
                             [role |-> "student", inst |-> FALSE, pending |-> FALSE],
                             [role |-> "institution", inst |-> TRUE, pending |-> FALSE]}]
    /\ code = 1 /\ lastBy = "other"
    /\ clerk = None
    /\ bridge = [scope |-> NoScope, loaded |-> TRUE]
    /\ mes = {} /\ url = "/verify"
    /\ choose = NoChoice /\ asked = NotAsked
    /\ settings = NoSettings /\ rotations = {} /\ leave = NoLeave

MeStep(k) == MeReads(k) \/ MeAnswers(k) \/ MeReturns(k) \/ MeFails(k)
Next ==
    \/ Navigates \/ Goes \/ Reloads \/ SignsOut
    \/ \E c \in User : SignsIn(c) \/ Decided(c)
    \/ \E k \in mes : MeStep(k)
    \/ Turns \/ (\E kind \in Role : Submits(kind))
    \/ Chooses \/ ChoiceReturns \/ ChoiceFails \/ Continues
    \/ Confirms \/ Rotates \/ OtherRotates
    \/ \E k \in rotations : NewCode(k) \/ RotationReturns(k) \/ RotationFails(k)
    \/ Leaves \/ Left \/ LeaveReturns \/ LeaveFails

Spec == Init /\ [][Next]_vars

(* A redirect happens when it is rendered; a request that has its page is  *)
(* answered or fails. *)
FairSpec ==
    /\ Spec
    /\ WF_vars(Navigates)
    /\ WF_vars(\E k \in mes : k.live /\ MeStep(k))

-----------------------------------------------------------------------------

(* Types. *)
LastBy == {"page", "givenUp", "other", "left"}
TypeOK ==
    /\ account \in [User -> [role : Role \cup {None}, inst : BOOLEAN, pending : BOOLEAN]]
    /\ \A c \in User : account[c].inst => account[c].role = "institution"
    /\ code \in 1..MaxCode /\ lastBy \in LastBy
    /\ clerk \in User \cup {None} /\ url \in Url
    /\ bridge.loaded \in BOOLEAN /\ bridge.scope.user \in User \cup {None}
    /\ Cardinality({k \in mes : k.live}) <= 1
    /\ Panel \in Url \cup {"loading"}
    /\ choose.panel \in {"options", "form", "confirm"}
    /\ asked.step \in {"no", "sent", "student", "code", "pending"}
    /\ leave.step \in {"no", "sent", "left"}
    /\ settings.code \in {None} \cup {ToString(n) : n \in 0..MaxCode}

(* The pages never act for one user on what /auth/me said of another: an   *)
(* answer that comes after its user signed out is dropped (`cancelled' in  *)
(* ClerkAuthBridge.jsx). *)
ScopeIsOfUser ==
    bridge.loaded /\ bridge.scope.user # None => bridge.scope.user = clerk

(* Whoever chose to be a student, or left, and was told so is not shown    *)
(* the pages of before: the full navigation after chooseRole and           *)
(* leaveInstitution reads the scope anew.  Excepted are changes that       *)
(* nothing has told this browser, and the choice of an institution, which  *)
(* returns without one.   *)
OwnChangeIsSeen ==
    bridge.scope.user = clerk /\ clerk # None /\ ~bridge.scope.old =>
        /\ Panel \in {"/app", "/app/settings"} =>
              account[clerk].inst \/ (leave.step = "left" /\ leave.user = clerk)
        /\ Panel = "/me" => account[clerk].role = "student"
        /\ Choosing /\ ShownPanel = "options" =>
              account[clerk].role = None \/ (asked.step = "student" /\ asked.user = clerk)

(* A code on the settings page is the institution's, or the last rotation  *)
(* the server answered was not one the page waits for or has shown:        *)
(* somebody else's, one that this page or an earlier one gave up and that  *)
(* was carried out late, or one that found no row, its reader having left. *)
(* Two rotations a page waits for never overtake each other                *)
(* (SettingsPage.jsx, rotateAccessCode).                                   *)
ShownCodeWorks ==
    settings.code # None => settings.code = ToString(code) \/ lastBy # "page"

(* A button is disabled only while the request it sent may still return    *)
(* to the page. *)
DisabledWhileAsked ==
    /\ choose.submitting => asked.step # "no" /\ asked.mine
    /\ settings.rotating => \E k \in rotations : k.mine
    /\ settings.leaving => leave.step # "no" /\ leave.mine

(* The guards of the pages never send a user round in circles, a staff     *)
(* member who has left and keeps the role included (RequireRole.jsx and    *)
(* RoleSelectionPage.jsx name each other's page). *)
RoutesSettle == []<>(Target = url)

(* "Loading your account" ends, whatever becomes of /auth/me. *)
LoadingEnds == ~bridge.loaded ~> bridge.loaded

(* Together: a page shows what its user may see now (ClerkAuthBridge.jsx,  *)
(* the guards of the routes), *)
SessionIsTrue == TypeOK /\ ScopeIsOfUser /\ OwnChangeIsSeen

(* what it says and bars is up to date (RoleSelectionPage.jsx,             *)
(* SettingsPage.jsx), *)
FormsAreHonest == ShownCodeWorks /\ DisabledWhileAsked

(* and it is never stuck on its way (RequireRole.jsx).                     *)
NeverStuck == RoutesSettle /\ LoadingEnds

(* Said by the page, and refuted: the new code is to be shared with the    *)
(* colleagues now (SettingsPage.jsx), also after a retry: the rotation     *)
(* that was given up may be carried out after it.                          *)
SharedCodeWorks ==
    settings.code # None => settings.code = ToString(code) \/ lastBy \in {"other", "left"}

(* Said by the code, and refuted: the guards never decide on a stale "no   *)
(* role yet" (ClerkAuthBridge.jsx): whom they send to choose a role has    *)
(* none, or left. *)
GuardsKnowTheRole ==
    [][Choosing' /\ ~Choosing /\ clerk' # None =>
           account[clerk'].role = None \/ Detached(account[clerk'])]_vars
=============================================================================
