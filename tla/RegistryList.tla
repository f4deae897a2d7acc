---------------------------- MODULE RegistryList ----------------------------
(***************************************************************************)
(* The institution's list of certificates: the keyset pagination of        *)
(* certificate.repo.js (listByInstitution) behind GET /certificates, and   *)
(* the page that walks it (pages/institution/RegistryPage.jsx).            *)
(*                                                                         *)
(* created_at has microseconds in the database; pg hands it over as a      *)
(* JavaScript Date, so the cursor made from it keeps the milliseconds      *)
(* only.  status, q and year are sent to the server: the model keeps the   *)
(* status, the one that changes under the list, and q and year select like *)
(* it from what never changes.  The page applies course to what it gets.   *)
(*                                                                         *)
(* The URL holds the filter and the page number; the cursors of the pages  *)
(* live in a ref of the mounted component.  An effect fetches whenever the *)
(* URL's values change; the clean-up of the effect before it makes that    *)
(* one's answer be ignored (gen tells them apart).                         *)
(***************************************************************************)
EXTENDS Lifecycle, Naturals, FiniteSets, Sequences

CONSTANTS Row,          \* certificates of the institution
          Initial,      \* those that exist at first
          State,        \* the part of CERT_STATE that certificates pass through
          Ms, Us, Id,   \* [Row -> Nat]: created_at in ms, its us, certificate_id
          CourseOf,     \* [Row -> Course]
          Course,
          Unset,        \* a filter that is not set
          PageSize,     \* PAGE_SIZE, the limit of each request
          MaxPage,      \* bound: the last page number visited
          MaxClicks     \* bound: what the user does in all

(* certificate_id is the primary key, and nothing was created in the first  *)
(* millisecond of 1970.                                                    *)
ASSUME RegistryListAssumption ==
    /\ IsFiniteSet(Row) /\ Initial \subseteq Row
    /\ State \subseteq CertState /\ "PENDING_STORAGE" \in State
    /\ Ms \in [Row -> Nat \ {0}] /\ Us \in [Row -> Nat] /\ Id \in [Row -> Nat]
    /\ \A r, q \in Row : Id[r] = Id[q] => r = q
    /\ CourseOf \in [Row -> Course] /\ Unset \notin Course \cup CertState
    /\ PageSize \in Nat \ {0} /\ MaxPage \in Nat /\ MaxClicks \in Nat

VARIABLES table,        \* the rows that are committed in the database
          status,       \* [Row -> State], the first one until then
          url,          \* the filter, the course and the page in the URL
          history,      \* the URLs behind it
          stack,        \* cursorStackRef.current, by page number
          view,         \* rows with their chips, nextCursor, loading, error
          gen,          \* the number of the effect that ran last
          calls,        \* requests on their way, with their answers
          walk,         \* history: what each page of this walk was answered
          clicks

vars == <<table, status, url, history, stack, view, gen, calls, walk, clicks>>
page == <<url, history, stack, view, gen, calls, walk, clicks>>

Page == 0..MaxPage
Filter == State \cup {Unset}     \* STATE_OPTIONS and none
Url == [filter : Filter, course : Course \cup {Unset}, page : Page]
NoCursor == [ms |-> 0, id |-> 0]
Cursor == [ms : Nat, id : Nat]

-----------------------------------------------------------------------------
(* The server. *)

Below_OrEqual(r, c) == \/ Ms[r] < c.ms
                       \/ Ms[r] = c.ms /\ Id[r] <= c.id

(* (created_at, certificate_id) < (the cursor to the millisecond, its id). *)
Below(r, c) == \/ Ms[r] < c.ms
               \/ Ms[r] = c.ms /\ Us[r] = 0 /\ Id[r] < c.id

(* ORDER BY created_at DESC, certificate_id DESC *)
Newer(r, q) == \/ Ms[r] > Ms[q]
               \/ Ms[r] = Ms[q] /\ \/ Us[r] > Us[q]
                                   \/ Us[r] = Us[q] /\ Id[r] > Id[q]

First(S, n) == {r \in S : Cardinality({q \in S : Newer(q, r)}) < n}
Last(S) == CHOOSE r \in S : \A q \in S \ {r} : Newer(q, r)

Matching(f) == {r \in table : f \in {Unset, status[r]}}

(* What a request selects, at most n of it. *)
Select(k, n) ==
    First({r \in Matching(k.url.filter) : k.cursor = NoCursor \/ Below(r, k.cursor)}, n)
CursorAt(r) == [ms |-> Ms[r], id |-> Id[r]]

(* An issuing transaction commits.  created_at is the moment it began, so  *)
(* the row may come to lie anywhere among those already there.             *)
Insert(r) ==
    /\ r \in Row \ table
    /\ table' = table \cup {r}
    /\ UNCHANGED <<status, page>>

(* Issuance, revocation and the reconciler move a status: the row leaves   *)
(* one filter and enters another.                                          *)
updateStatus(r) ==
    /\ r \in table
    /\ \E s \in State : /\ <<status[r], s>> \in LegalEdge
                        /\ status' = [status EXCEPT ![r] = s]
    /\ UNCHANGED <<table, page>>

-----------------------------------------------------------------------------
(* The page. *)

(* The effect's dependencies are page, status, q, course and year: the URL *)
(* pushed by a click that leaves them as they are fetches nothing.         *)
Show(u, h, s, w) ==
    /\ url' = u
    /\ history' = h
    /\ stack' = s
    /\ walk' = w
    /\ IF u = url
         THEN UNCHANGED <<view, gen, calls>>
         ELSE /\ gen' = gen + 1
              /\ view' = [view EXCEPT !.loading = TRUE, !.error = FALSE]
              /\ calls' = calls \cup {[gen |-> gen + 1, url |-> u, cursor |-> s[u.page]]}
    /\ UNCHANGED <<table, status>>

NoStack == [p \in Page |-> NoCursor]
NoView == [rows |-> {}, chips |-> [r \in Row |-> Unset], next |-> NoCursor, loading |-> TRUE,
           error |-> FALSE, all |-> {}]
NoWalk == [orderly |-> TRUE, rows |-> [p \in Page |-> {}], kept |-> [p \in Page |-> {}]]
(* The same filter asked again: the page keeps its rows and loses its      *)
(* cursors.                                                                *)
Wandering == [walk EXCEPT !.orderly = FALSE]

Click == clicks < MaxClicks /\ clicks' = clicks + 1

(* What the page draws below its filters, in the order of its branches. *)
Panel_AnyFilter ==
    CASE view.loading -> "skeleton"
      [] ~view.loading /\ view.error -> "error"
      [] ~view.loading /\ ~view.error /\ view.rows = {} /\ url.page = 0 -> "noneYet"
      [] ~view.loading /\ ~view.error /\ view.rows = {} /\ url.page # 0 -> "noMatch"
      [] OTHER -> "table"
Panel ==
    LET filtered == url.filter # Unset \/ url.course # Unset IN
    CASE view.loading -> "skeleton"
      [] ~view.loading /\ view.error -> "error"
      [] ~view.loading /\ ~view.error /\ view.rows = {} /\ ~filtered /\ url.page = 0 -> "noneYet"
      [] ~view.loading /\ ~view.error /\ view.rows = {} /\ (filtered \/ url.page # 0) -> "noMatch"
      [] OTHER -> "table"

(* programmeOptions: the courses on the page, and the one that is chosen. *)
Offered == {Unset, url.course} \cup {CourseOf[r] : r \in view.rows}

(* applyFilters: a select, the search box, or Try again. *)
applyFilters(f, c) ==
    LET u == [filter |-> f, course |-> c, page |-> 0] IN
    Show(u, Append(history, url), NoStack, IF u = url THEN Wandering ELSE NoWalk)

Filters == Click /\ \E f \in Filter, c \in Offered : applyFilters(f, c)
TryAgain == Click /\ Panel = "error" /\ applyFilters(url.filter, url.course)
ClearFilters ==
    /\ Click
    /\ Panel = "noMatch"
    /\ LET u == [filter |-> Unset, course |-> Unset, page |-> 0] IN
       Show(u, Append(history, url), NoStack, IF u = url THEN Wandering ELSE NoWalk)
NextPage ==
    /\ Click
    /\ Panel = "table" /\ view.next # NoCursor /\ url.page < MaxPage
    /\ Show([url EXCEPT !.page = @ + 1], Append(history, url), stack, walk)
PrevPage ==
    /\ Click
    /\ Panel = "table" /\ url.page > 0
    /\ Show([url EXCEPT !.page = @ - 1], Append(history, url), stack,
            IF url.page = 1 THEN NoWalk ELSE walk)

(* The browser's Back button: the URL returns, the ref does not.  Its       *)
(* cursors may be those of another list, or gone; a walk goes on if they    *)
(* are still those of the pages before, and begins again at page 0.        *)
Fits(u) ==
    /\ u.filter = url.filter
    /\ \A p \in 1..u.page : /\ walk.rows[p - 1] # {}
                            /\ stack[p] = CursorAt(Last(walk.rows[p - 1]))
Back ==
    /\ Click
    /\ history # <<>>
    /\ LET u == history[Len(history)] IN
       Show(u, SubSeq(history, 1, Len(history) - 1), stack,
            IF u.page = 0 /\ u # url THEN NoWalk
            ELSE IF u = url \/ Fits(u) THEN walk ELSE Wandering)

(* Reload, or opening a certificate and coming back: the component mounts  *)
(* anew under the same URL, with an empty stack.                           *)
Remount ==
    /\ Click
    /\ stack' = NoStack
    /\ walk' = [NoWalk EXCEPT !.orderly = url.page = 0]
    /\ gen' = gen + 1
    /\ view' = NoView
    /\ calls' = calls \cup {[gen |-> gen + 1, url |-> url, cursor |-> NoCursor]}
    /\ UNCHANGED <<table, status, url, history>>

Received(k, items, next) ==
    LET n == k.url.page
        all == Matching(k.url.filter)
        shown == {r \in items : k.url.course \in {Unset, CourseOf[r]}}
    IN
    /\ view' = [rows |-> shown, chips |-> [r \in Row |-> IF r \in shown THEN status[r] ELSE Unset],
                next |-> next, loading |-> FALSE, error |-> FALSE, all |-> all]
    /\ stack' = IF next = NoCursor \/ n = MaxPage THEN stack ELSE [stack EXCEPT ![n + 1] = next]
    /\ walk' = [walk EXCEPT
         !.rows = [p \in Page |-> IF p < n THEN @[p] ELSE IF p = n THEN items ELSE {}],
         !.kept = [p \in Page |-> IF p < n THEN @[p] ELSE IF p # n THEN {}
                                  ELSE IF n = 0 THEN all ELSE @[n - 1] \cap all]]
Refused ==
    /\ view' = [view EXCEPT !.loading = FALSE, !.error = TRUE]
    /\ UNCHANGED <<stack, walk>>
Ignored == UNCHANGED <<view, stack, walk>>

listByInstitution_NextOfNext(k) ==
    \E found \in {Select(k, PageSize + 1)} : \E items \in {First(found, PageSize)} :
        Received(k, items,
                 IF found = items THEN NoCursor ELSE CursorAt(Last(found)))
listByInstitution_AllFound(k) ==
    \E found \in {Select(k, PageSize + 1)} : \E items \in {First(found, PageSize)} :
        Received(k, found,
                 IF found = items THEN NoCursor ELSE CursorAt(Last(items)))
listByInstitution_LimitOnly(k) ==
    \E found \in {Select(k, PageSize)} : \E items \in {First(found, PageSize)} :
        Received(k, items,
                 IF found = items THEN NoCursor ELSE CursorAt(Last(items)))

(* One more row than the limit tells whether a next page exists; the last  *)
(* row kept is the cursor.                                                 *)
listByInstitution(k) ==
    \E found \in {Select(k, PageSize + 1)} : \E items \in {First(found, PageSize)} :
        Received(k, items,
                 IF found = items THEN NoCursor ELSE CursorAt(Last(items)))

Settle_AnyAnswer(k) ==
    /\ calls' = calls \ {k}
    /\ listByInstitution(k) \/ Refused
    /\ UNCHANGED <<table, status, url, history, gen, clicks>>
Settle_StaysLoading(k) ==
    /\ calls' = calls \ {k}
    /\ IF k.gen # gen THEN Ignored ELSE listByInstitution(k) \/ Ignored
    /\ UNCHANGED <<table, status, url, history, gen, clicks>>

(* The answer reaches the page, or the request fails; a cancelled effect   *)
(* ignores either. *)
Settle(k) ==
    /\ calls' = calls \ {k}
    /\ IF k.gen # gen THEN Ignored ELSE listByInstitution(k) \/ Refused
    /\ UNCHANGED <<table, status, url, history, gen, clicks>>

-----------------------------------------------------------------------------
Init ==
    /\ table = Initial
    /\ status \in [Row -> State]
    /\ \A r \in Row \ Initial : status[r] = "PENDING_STORAGE"
    /\ url = [filter |-> Unset, course |-> Unset, page |-> 0]
    /\ history = <<>>
    /\ stack = NoStack
    /\ view = NoView
    /\ gen = 1
    /\ calls = {[gen |-> 1, url |-> url, cursor |-> NoCursor]}
    /\ walk = NoWalk
    /\ clicks = 0

User == Filters \/ TryAgain \/ ClearFilters \/ NextPage \/ PrevPage \/ Back \/ Remount
Network == \E k \in calls : Settle(k)
Next == User \/ Network \/ \E r \in Row : Insert(r) \/ updateStatus(r)

Spec == Init /\ [][Next]_vars
(* A request is answered or fails, and the browser runs the callback. *)
FairSpec == Spec /\ WF_vars(Network)

-----------------------------------------------------------------------------
(* Types; a page has at most PageSize rows. *)
TypeOK ==
    /\ table \subseteq Row /\ status \in [Row -> State]
    /\ url \in Url /\ history \in Seq(Url)
    /\ stack \in [Page -> Cursor]
    /\ view \in [rows : SUBSET Row, chips : [Row -> Filter], next : Cursor,
                 loading : BOOLEAN, error : BOOLEAN, all : SUBSET Row]
    /\ Cardinality(view.rows) <= PageSize
    /\ gen \in Nat /\ clicks \in Nat
    /\ \A k \in calls : /\ k.url \in Url /\ k.cursor \in Cursor /\ k.gen \in 1..gen
    /\ walk \in [orderly : BOOLEAN, rows : [Page -> SUBSET Row], kept : [Page -> SUBSET Row]]

(* Walking from page to page never shows a certificate twice, whatever is  *)
(* issued, however late, and whatever enters or leaves the filter          *)
(* meanwhile (certificate.repo.js: the keyset of listByInstitution).  The  *)
(* walk goes over Previous and Back; it ends only where the ref has lost   *)
(* the cursors of the pages before: the same filter applied again, a mount *)
(* on a later page, and Back to a list of which it holds others.           *)
NoRowTwice ==
    walk.orderly =>
        \A p, q \in Page : p # q => walk.rows[p] \cap walk.rows[q] = {}

(* A certificate that matched at the read of every page of a walk is on    *)
(* one of the pages, whatever the filter, unless it is older than the last *)
(* page's rows: only one that was issued in the very millisecond of the    *)
(* last row of a page before can be passed over (the cursor's createdAt    *)
(* has lost its microseconds).                                             *)
SkipsOnlySharedMs ==
    walk.orderly =>
        \A p \in Page : \A r \in walk.kept[p] :
            \/ walk.rows[p] # {} /\ Newer(Last(walk.rows[p]), r)
            \/ \E q \in 0..p : r \in walk.rows[q]
            \/ \E q \in 0..(p - 1) : Ms[r] = Ms[Last(walk.rows[q])]

(* "You haven't issued any credentials yet" is said only to an institution *)
(* that had issued none when it was asked.                                 *)
HonestNoneYet == Panel = "noneYet" => view.all = {}

(* What the table shows, each row with the status that was read, belongs   *)
(* to the filter and the course that the URL shows, however many answers   *)
(* of other filters were still on their way when it changed.               *)
ShownMatchesUrl ==
    Panel = "table" =>
        \A r \in view.rows : /\ url.filter \in {Unset, view.chips[r]}
                             /\ url.course \in {Unset, CourseOf[r]}

(* A table without a next page really is the end of the list: nothing that *)
(* matched the filter and the course when it was read is older than        *)
(* everything shown.                                                       *)
EndIsEnd ==
    Panel = "table" /\ view.next = NoCursor =>
        \A r \in view.all : url.course \in {Unset, CourseOf[r]} =>
                               ~ \A q \in view.rows : Newer(q, r)

(* The page never waits for ever: every load ends in an answer or an error *)
(* (finally: setLoading(false), skipped only for a cancelled effect).      *)
LoadingEnds == view.loading ~> ~view.loading

(* Together: what a walk over the pages shows and leaves out (the keyset   *)
(* of listByInstitution), *)
WalkIsSound == TypeOK /\ NoRowTwice /\ SkipsOnlySharedMs

(* and what the page says of it, however the answers overtake each other   *)
(* (RegistryPage.jsx). *)
ListIsHonest == HonestNoneYet /\ ShownMatchesUrl /\ EndIsEnd

-----------------------------------------------------------------------------
(* Sentences that the page shows or that its comments say. *)

(* "No credentials match these filters." (RegistryPage.jsx:302) *)
NoMatchMeansNone ==
    Panel = "noMatch" /\ url.page = 0 =>
        \A r \in view.all : url.course # Unset /\ CourseOf[r] # url.course

(* "Certificates could not be loaded right now. Check your connection and  *)
(* try again." (RegistryPage.jsx:284): the button that says so asks again. *)
TryAgainAsks == [][TryAgain => gen' # gen]_vars

(* cursorStackRef.current[pageIndex] = cursor used to fetch that page      *)
(* (RegistryPage.jsx:43): a later page is never fetched without a cursor.  *)
LaterPagesHaveCursors == \A k \in calls : k.url.page > 0 => k.cursor # NoCursor
=============================================================================
