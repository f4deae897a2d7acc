----------------------------- MODULE ListProofs -----------------------------
(***************************************************************************)
(* Proofs about the registry list, for any certificates, page size, number *)
(* of pages and clicks, committed in any order and moving through any      *)
(* filter: a walk shows no certificate twice and passes over only those of *)
(* a boundary's millisecond, and the table belongs to the address and ends *)
(* where the list ends.                                                    *)
(***************************************************************************)
EXTENDS RegistryList, FiniteSetTheorems, WellFoundedInduction, TLAPS

-----------------------------------------------------------------------------
(* Newer is a strict total order: created_at, then the primary key. *)
LEMMA RowNumbers ==
  ASSUME NEW r \in Row
  PROVE  Ms[r] \in Nat /\ Ms[r] # 0 /\ Us[r] \in Nat /\ Id[r] \in Nat
  BY RegistryListAssumption

LEMMA NewerTransitive ==
  ASSUME NEW r \in Row, NEW q \in Row, NEW p \in Row, Newer(r, q), Newer(q, p)
  PROVE  Newer(r, p)
  BY RowNumbers DEF Newer

LEMMA NewerAsymmetric ==
  ASSUME NEW r \in Row, NEW q \in Row, Newer(r, q)
  PROVE  ~Newer(q, r) /\ r # q
  BY RowNumbers DEF Newer

LEMMA NewerTotal ==
  ASSUME NEW r \in Row, NEW q \in Row, r # q
  PROVE  Newer(r, q) \/ Newer(q, r)
<1>1. Id[r] # Id[q]
  BY RegistryListAssumption
<1> QED
  BY <1>1, RowNumbers DEF Newer

(* A number below all others that a set of certificates has. *)
LEMMA LeastNumber ==
  ASSUME NEW S, S # {}, NEW f, \A r \in S : f[r] \in Nat
  PROVE  \E r \in S : \A q \in S : f[r] <= f[q]
<1> DEFINE N == {f[r] : r \in S}
<1>1. N \subseteq Nat /\ N # {}
  OBVIOUS
<1>2. PICK x \in N : \A y \in N : ~(<<y, x>> \in OpToRel(<, Nat))
  BY <1>1, NatLessThanWellFounded, WFMin, Zenon
<1>3. OpToRel(<, Nat) = {ss \in Nat \X Nat : ss[1] < ss[2]}
  BY Zenon DEF OpToRel
<1>4. ASSUME NEW y \in N PROVE x <= y
  <2>1. <<y, x>> \notin {ss \in Nat \X Nat : ss[1] < ss[2]}
    BY <1>2, <1>3
  <2> QED
    BY <1>1, <2>1
<1>5. PICK r \in S : x = f[r]
  OBVIOUS
<1> QED
  BY <1>4, <1>5

(* Any set of certificates has an oldest one: the least in milliseconds, of
   those the least in microseconds, of those the least by its key. *)
LEMMA LastIsOne ==
  ASSUME NEW S, S \subseteq Row, S # {}
  PROVE  Last(S) \in S /\ \A q \in S \ {Last(S)} : Newer(q, Last(S))
<1>1. PICK a \in S : \A q \in S : Ms[a] <= Ms[q]
  BY LeastNumber, RowNumbers
<1> DEFINE A == {q \in S : Ms[q] = Ms[a]}
<1>2. PICK b \in A : \A q \in A : Us[b] <= Us[q]
  <2>1. A # {} /\ \A q \in A : Us[q] \in Nat
    BY RowNumbers
  <2> QED
    BY <2>1, LeastNumber
<1> DEFINE B == {q \in A : Us[q] = Us[b]}
<1>3. PICK c \in B : \A q \in B : Id[c] <= Id[q]
  <2>1. B # {} /\ \A q \in B : Id[q] \in Nat
    BY RowNumbers
  <2> QED
    BY <2>1, LeastNumber
<1>4. c \in S /\ c \in Row
  OBVIOUS
<1>5. ASSUME NEW q \in S \ {c} PROVE Newer(q, c)
  <2>1. q \in Row /\ Id[q] # Id[c]
    BY <1>4, <1>5, RegistryListAssumption
  <2>2. Ms[c] = Ms[a] /\ Us[c] = Us[b]
    OBVIOUS
  <2>3. Ms[a] <= Ms[q]
    BY <1>1
  <2>4. Ms[q] = Ms[a] => Us[b] <= Us[q]
    BY <1>2
  <2>5. Ms[q] = Ms[a] /\ Us[q] = Us[b] => Id[c] <= Id[q]
    BY <1>3
  <2> HIDE DEF A, B
  <2> QED
    BY <1>4, <2>1, <2>2, <2>3, <2>4, <2>5, RowNumbers DEF Newer
<1> QED
  BY <1>4, <1>5 DEF Last

-----------------------------------------------------------------------------
(* The keyset.  What lies below a cursor lies below every cursor before it,
   and a page's own rows do not lie below its last one. *)
LEMMA BelowOlder ==
  ASSUME NEW r \in Row, NEW q \in Row, NEW c \in Cursor, Below(q, c), Newer(q, r)
  PROVE  Below(r, c)
  BY RowNumbers DEF Below, Newer, Cursor

LEMMA BelowChain ==
  ASSUME NEW r \in Row, NEW q \in Row, NEW c \in Cursor, Below(q, c),
         Below(r, CursorAt(q))
  PROVE  Below(r, c)
  BY RowNumbers DEF Below, CursorAt, Cursor

LEMMA NotBelowOwn ==
  ASSUME NEW q \in Row, NEW r \in Row, Newer(r, q) \/ r = q
  PROVE  ~Below(r, CursorAt(q))
  BY RowNumbers DEF Below, CursorAt, Newer

(* Only the boundary's own millisecond falls between a page and the next. *)
LEMMA BelowNextMs ==
  ASSUME NEW q \in Row, NEW r \in Row, Ms[r] < Ms[q]
  PROVE  Below(r, CursorAt(q))
  BY DEF Below, CursorAt

LEMMA RealCursor ==
  ASSUME NEW q \in Row
  PROVE  CursorAt(q) \in Cursor /\ CursorAt(q) # NoCursor
<1>1. CursorAt(q) \in Cursor
  BY RowNumbers DEF CursorAt, Cursor
<1>2. CursorAt(q).ms # NoCursor.ms
  BY RowNumbers DEF CursorAt, NoCursor
<1> QED
  BY <1>1, <1>2

-----------------------------------------------------------------------------
(* LIMIT: the newest rows of a set. *)
Ahead(S, r) == {q \in S : Newer(q, r)}

LEMMA AheadFinite ==
  ASSUME NEW S, S \subseteq Row, NEW r
  PROVE  /\ IsFiniteSet(S) /\ IsFiniteSet(Ahead(S, r))
         /\ Cardinality(Ahead(S, r)) \in Nat
<1>1. IsFiniteSet(S) /\ Ahead(S, r) \subseteq S
  BY RegistryListAssumption, FS_Subset DEF Ahead
<1>2. IsFiniteSet(Ahead(S, r))
  BY <1>1, FS_Subset
<1> QED
  BY <1>1, <1>2, FS_CardinalityType

LEMMA AheadGrows ==
  ASSUME NEW S, S \subseteq Row, NEW r \in S, NEW q \in S, Newer(q, r)
  PROVE  Cardinality(Ahead(S, q)) < Cardinality(Ahead(S, r))
<1>1. Ahead(S, q) \subseteq Ahead(S, r)
  BY NewerTransitive DEF Ahead
<1>2. q \in Ahead(S, r) /\ q \notin Ahead(S, q)
  BY NewerAsymmetric DEF Ahead
<1>3. Cardinality(Ahead(S, q)) <= Cardinality(Ahead(S, r)) /\
      (Cardinality(Ahead(S, q)) = Cardinality(Ahead(S, r)) =>
         Ahead(S, q) = Ahead(S, r))
  BY <1>1, AheadFinite, FS_Subset
<1> QED
  BY <1>2, <1>3, AheadFinite

LEMMA FirstIsNewest ==
  ASSUME NEW S, S \subseteq Row, NEW n \in Nat, NEW x \in First(S, n),
         NEW r \in S, Newer(r, x)
  PROVE  r \in First(S, n)
<1>1. x \in S /\ Cardinality(Ahead(S, x)) < n
  BY DEF First, Ahead
<1>2. Cardinality(Ahead(S, r)) < Cardinality(Ahead(S, x))
  BY <1>1, AheadGrows
<1> QED
  BY <1>1, <1>2, AheadFinite DEF First, Ahead

LEMMA FirstLimits ==
  ASSUME NEW S, S \subseteq Row, NEW n \in Nat
  PROVE  /\ First(S, n) \subseteq S /\ IsFiniteSet(First(S, n))
         /\ Cardinality(First(S, n)) \in Nat /\ Cardinality(First(S, n)) <= n
<1> DEFINE F == First(S, n)
<1>1. F \subseteq S /\ IsFiniteSet(F)
  BY RegistryListAssumption, FS_Subset DEF First
<1>2. Cardinality(F) \in Nat
  BY <1>1, FS_CardinalityType
<1>3. CASE F = {}
  BY <1>1, <1>3, FS_EmptySet
<1>4. CASE F # {}
  <2> DEFINE x == Last(F)
  <2>1. x \in F /\ \A q \in F \ {x} : Newer(q, x)
    BY <1>1, <1>4, LastIsOne
  <2>2. F \ {x} \subseteq Ahead(S, x)
    BY <1>1, <2>1 DEF Ahead
  <2>3. Cardinality(F \ {x}) <= Cardinality(Ahead(S, x))
    BY <2>2, AheadFinite, FS_Subset
  <2>4. Cardinality(F \ {x}) = Cardinality(F) - 1
    BY <1>1, <2>1, FS_RemoveElement
  <2>5. Cardinality(Ahead(S, x)) < n /\ Cardinality(Ahead(S, x)) \in Nat
    BY <2>1, AheadFinite DEF First, Ahead
  <2> HIDE DEF F, x
  <2> QED
    BY <1>2, <2>3, <2>4, <2>5, <1>1 DEF F
<1> QED
  BY <1>1, <1>2, <1>3, <1>4

(* A limit that leaves a row out is used up. *)
LEMMA FirstIsFull ==
  ASSUME NEW S, S \subseteq Row, NEW n \in Nat, First(S, n) # S
  PROVE  Cardinality(First(S, n)) >= n
<1> DEFINE Out == S \ First(S, n)
      f == [r \in Row |-> Cardinality(Ahead(S, r))]
<1>1. Out # {} /\ Out \subseteq Row
  BY DEF First
<1>2. \A r \in Out : f[r] \in Nat
  BY <1>1, AheadFinite
<1>3. PICK r \in Out : \A q \in Out : f[r] <= f[q]
  BY <1>1, <1>2, LeastNumber
<1>4. r \in S /\ r \in Row /\ Cardinality(Ahead(S, r)) >= n
  <2>1. r \in S /\ r \in Row /\ ~(Cardinality(Ahead(S, r)) < n)
    BY DEF First, Ahead
  <2>2. Cardinality(Ahead(S, r)) \in Nat
    BY AheadFinite
  <2> QED
    BY <2>1, <2>2
<1>5. ASSUME NEW q \in Ahead(S, r) PROVE q \in First(S, n)
  <2>1. q \in S /\ q \in Row /\ Newer(q, r)
    BY <1>5 DEF Ahead
  <2>2. f[q] < f[r]
    BY <1>4, <2>1, AheadGrows
  <2>3. q \notin Out
    BY <1>2, <1>3, <2>2
  <2> QED
    BY <2>1, <2>3
<1>6. Cardinality(Ahead(S, r)) <= Cardinality(First(S, n))
  <2>1. Ahead(S, r) \subseteq First(S, n)
    BY <1>5
  <2> QED
    BY <2>1, FirstLimits, FS_Subset
<1>7. Cardinality(Ahead(S, r)) \in Nat /\ Cardinality(First(S, n)) \in Nat
  BY AheadFinite, FirstLimits
<1> QED
  BY <1>4, <1>6, <1>7

-----------------------------------------------------------------------------
(* The inductive invariant.  Of the requests on their way only the one of   *)
(* the effect that ran last counts, and it asks for what the URL shows.     *)
Loaded == ~view.loading /\ ~view.error
Request == [gen : Nat, url : Url, cursor : Cursor]

OneCounts ==
    /\ calls \subseteq Request
    /\ \A k, j \in calls : k.gen = j.gen => k = j
    /\ \A k \in calls : k.gen = gen =>
         /\ view.loading /\ k.url = url
         /\ walk.orderly => k.cursor = stack[url.page]
         /\ url.page = 0 => k.cursor = NoCursor
    /\ stack[0] = NoCursor

(* Page p continues the page before it: its cursor is that page's last row, *)
(* and no page before it has a row below the cursor.                        *)
Link(p) ==
    /\ walk.rows[p - 1] # {}
    /\ stack[p] = CursorAt(Last(walk.rows[p - 1]))
    /\ \A q \in 0..(p - 1) : \A r \in walk.rows[q] : ~Below(r, stack[p])

(* On an orderly walk every page up to the one shown, every page with rows, *)
(* and the one that Next leads to continues the page before it.             *)
Linked ==
    walk.orderly =>
        /\ \A p \in 1..MaxPage : p <= url.page \/ walk.rows[p] # {} => Link(p)
        /\ \A p \in 1..MaxPage : \A r \in walk.rows[p] : Below(r, stack[p])
        /\ Loaded /\ view.next # NoCursor /\ url.page < MaxPage => Link(url.page + 1)

(* What has been loaded is of the URL's filter and course, and complete.    *)
Shown ==
    Loaded =>
        /\ \A r \in view.rows : /\ url.filter \in {Unset, view.chips[r]}
                                /\ url.course \in {Unset, CourseOf[r]}
        /\ url.page = 0 /\ url.course = Unset /\ view.rows = {} => view.all = {}
        /\ view.next = NoCursor /\ view.rows # {} =>
             \A r \in view.all : url.course \in {Unset, CourseOf[r]} =>
                                    ~ \A q \in view.rows : Newer(q, r)

LInv == TypeOK /\ OneCounts /\ Linked /\ SkipsOnlySharedMs /\ Shown

(* What SkipsOnlySharedMs says of page p. *)
Skip(p) ==
    \A r \in walk.kept[p] :
        \/ walk.rows[p] # {} /\ Newer(Last(walk.rows[p]), r)
        \/ \E q \in 0..p : r \in walk.rows[q]
        \/ \E q \in 0..(p - 1) : Ms[r] = Ms[Last(walk.rows[q])]

LEMMA SkipByPage ==
  SkipsOnlySharedMs <=> (walk.orderly => \A p \in Page : Skip(p))
  BY DEF SkipsOnlySharedMs, Skip

(* What the page holds and what the history of a walk holds. *)
Views == [rows : SUBSET Row, chips : [Row -> Filter], next : Cursor, loading : BOOLEAN,
          error : BOOLEAN, all : SUBSET Row]
Walks == [orderly : BOOLEAN, rows : [Page -> SUBSET Row], kept : [Page -> SUBSET Row]]

LEMMA TypedOK ==
  TypeOK <=> /\ table \subseteq Row /\ status \in [Row -> State]
             /\ url \in Url /\ history \in Seq(Url) /\ stack \in [Page -> Cursor]
             /\ view \in Views /\ Cardinality(view.rows) <= PageSize
             /\ gen \in Nat /\ clicks \in Nat
             /\ \A k \in calls : k.url \in Url /\ k.cursor \in Cursor /\ k.gen \in 1..gen
             /\ walk \in Walks
  BY DEF TypeOK, Views, Walks

(* The invariant says what the checked properties say. *)
LEMMA PanelMeans ==
  /\ Panel = "table" => Loaded /\ view.rows # {}
  /\ Panel = "noneYet" => /\ Loaded /\ view.rows = {} /\ url.page = 0
                          /\ url.filter = Unset /\ url.course = Unset
  BY DEF Panel, Loaded

LEMMA SoundWalk == LInv => WalkIsSound
<1> SUFFICES ASSUME LInv PROVE NoRowTwice
  BY DEF LInv, WalkIsSound
<1>1. ASSUME walk.orderly, NEW q \in Page, NEW p \in Page, q < p
      PROVE  walk.rows[q] \cap walk.rows[p] = {}
  <2> SUFFICES ASSUME NEW r \in walk.rows[q], r \in walk.rows[p] PROVE FALSE
    OBVIOUS
  <2>1. p \in 1..MaxPage /\ q \in 0..(p - 1)
    BY <1>1, RegistryListAssumption DEF Page
  <2>2. Link(p) /\ Below(r, stack[p])
    BY <1>1, <2>1 DEF LInv, Linked
  <2> QED
    BY <2>1, <2>2 DEF Link
<1>2. ASSUME walk.orderly, NEW q \in Page, NEW p \in Page, q # p
      PROVE  walk.rows[q] \cap walk.rows[p] = {}
  <2>1. q < p \/ p < q
    BY <1>2, RegistryListAssumption DEF Page
  <2> QED
    BY <1>1, <1>2, <2>1
<1> QED
  BY <1>2 DEF NoRowTwice

LEMMA HonestList == LInv => ListIsHonest
<1> SUFFICES ASSUME LInv PROVE ListIsHonest
  OBVIOUS
<1>1. Shown
  BY DEF LInv
<1>2. HonestNoneYet
  BY <1>1, PanelMeans DEF HonestNoneYet, Shown
<1>3. ShownMatchesUrl
  BY <1>1, PanelMeans DEF ShownMatchesUrl, Shown
<1>4. EndIsEnd
  BY <1>1, PanelMeans DEF EndIsEnd, Shown
<1> QED
  BY <1>2, <1>3, <1>4 DEF ListIsHonest

-----------------------------------------------------------------------------
LEMMA PageNumbers ==
  /\ Page = 0..MaxPage /\ MaxPage \in Nat /\ 0 \in Page
  /\ \A p \in Page : p \in Nat /\ p <= MaxPage
  /\ \A p \in 1..MaxPage : p \in Page /\ p - 1 \in Page /\ p \in Nat \ {0}
  BY RegistryListAssumption DEF Page

LEMMA NoWalkIs ==
  /\ NoWalk.orderly = TRUE /\ \A p \in Page : NoWalk.rows[p] = {} /\ NoWalk.kept[p] = {}
  /\ NoWalk \in Walks
  /\ NoStack \in [Page -> Cursor] /\ \A p \in Page : NoStack[p] = NoCursor
  /\ NoCursor \in Cursor
  BY DEF NoWalk, NoStack, NoCursor, Cursor, Walks

LEMMA NoViewIs ==
  /\ NoView \in Views /\ NoView.loading /\ ~NoView.error
  /\ Cardinality(NoView.rows) = 0 /\ 0 <= PageSize
<1>1. NoView.rows = {} /\ NoView \in Views /\ NoView.loading /\ ~NoView.error
  BY NoWalkIs DEF NoView, Views, Filter
<1> QED
  BY <1>1, FS_EmptySet, RegistryListAssumption

LEMMA ListInitially == Init => LInv
<1> SUFFICES ASSUME Init PROVE LInv
  OBVIOUS
<1>1. /\ view = NoView
      /\ url \in Url /\ url.page = 0 /\ history \in Seq(Url)
      /\ gen = 1 /\ walk = NoWalk /\ stack = NoStack /\ clicks = 0
      /\ calls = {[gen |-> 1, url |-> url, cursor |-> NoCursor]}
      /\ table = Initial /\ status \in [Row -> State]
  BY PageNumbers DEF Init, Url, Filter
<1>2. TypeOK
  BY <1>1, NoWalkIs, NoViewIs, RegistryListAssumption, TypedOK
<1>3. OneCounts
  BY <1>1, NoWalkIs, NoViewIs, PageNumbers DEF OneCounts, Request
<1>4. Linked
  BY <1>1, NoWalkIs, NoViewIs, PageNumbers DEF Linked, Loaded
<1>5. SkipsOnlySharedMs
  BY <1>1, NoWalkIs, SkipByPage DEF Skip
<1>6. Shown
  BY <1>1, NoViewIs DEF Shown, Loaded
<1> QED
  BY <1>2, <1>3, <1>4, <1>5, <1>6 DEF LInv

-----------------------------------------------------------------------------
(* The effect that a new URL or a new mount runs. *)
LEMMA ShowTypes ==
  ASSUME LInv, NEW u \in Url, NEW h \in Seq(Url), NEW s \in [Page -> Cursor],
         NEW w \in Walks, s[0] = NoCursor, u = url /\ w.orderly => s = stack,
         clicks' \in Nat, Show(u, h, s, w), w.orderly => walk.orderly \/ u # url
  PROVE  TypeOK' /\ OneCounts' /\ Shown'
<1>1. /\ url' = u /\ history' = h /\ stack' = s /\ walk' = w
      /\ table' = table /\ status' = status
  BY DEF Show
<1>2. CASE u = url
  <2>1. view' = view /\ gen' = gen /\ calls' = calls
    BY <1>1, <1>2 DEF Show
  <2>2. TypeOK'
    BY <1>1, <2>1 DEF LInv, TypeOK, Walks
  <2>3. OneCounts'
    BY <1>1, <1>2, <2>1 DEF LInv, OneCounts
  <2>4. Shown'
    BY <1>1, <1>2, <2>1 DEF LInv, Shown, Loaded
  <2> QED
    BY <2>2, <2>3, <2>4
<1>3. CASE u # url
  <2> DEFINE new == [gen |-> gen + 1, url |-> u, cursor |-> s[u.page]]
  <2>1. /\ gen' = gen + 1 /\ calls' = calls \cup {new}
        /\ view' = [view EXCEPT !.loading = TRUE, !.error = FALSE]
    BY <1>3 DEF Show
  <2>2. /\ gen \in Nat /\ u.page \in Page /\ s[u.page] \in Cursor
        /\ \A k \in calls : k.url \in Url /\ k.cursor \in Cursor /\ k.gen \in 1..gen
    BY DEF LInv, TypeOK, Url
  <2>3. new \in Request /\ new.gen = gen + 1 /\ new.url = u /\ new.cursor = s[u.page]
    BY <2>2 DEF Request
  <2>4. /\ view'.rows = view.rows /\ view'.loading /\ ~view'.error /\ view' \in Views
    BY <2>1, TypedOK DEF LInv, Views
  <2> HIDE DEF new
  <2>5. TypeOK'
    <3>1. \A k \in calls' : k.url \in Url /\ k.cursor \in Cursor /\ k.gen \in 1..gen'
      BY <2>1, <2>2, <2>3
    <3>2. gen' \in Nat /\ Cardinality(view'.rows) <= PageSize
      BY <2>1, <2>2, <2>4 DEF LInv, TypeOK
    <3>3. table' \subseteq Row /\ status' \in [Row -> State]
      BY <1>1, TypedOK DEF LInv
    <3> QED
      BY <1>1, <2>4, <3>1, <3>2, <3>3 DEF TypeOK, Views, Walks
  <2>6. OneCounts'
    <3>1. calls' \subseteq Request /\ \A k, j \in calls' : k.gen = j.gen => k = j
      BY <2>1, <2>2, <2>3 DEF LInv, OneCounts
    <3>2. \A k \in calls' : k.gen = gen' => k = new
      BY <2>1, <2>2
    <3> QED
      BY <1>1, <2>3, <2>4, <3>1, <3>2 DEF OneCounts
  <2>7. Shown'
    BY <2>4 DEF Shown, Loaded
  <2> QED
    BY <2>5, <2>6, <2>7
<1> QED
  BY <1>2, <1>3

(* A history that ends a walk: the same filter again, or a stack that does *)
(* not fit.                                                                *)
LEMMA WanderingIs ==
  ASSUME LInv
  PROVE  Wandering \in Walks /\ ~Wandering.orderly
  BY TypedOK DEF Wandering, LInv, Walks

LEMMA WanderKeeps ==
  ASSUME LInv, NEW u \in Url, NEW h \in Seq(Url), NEW s \in [Page -> Cursor],
         s[0] = NoCursor, clicks' \in Nat, Show(u, h, s, Wandering)
  PROVE  LInv'
<1>1. walk' = Wandering
  BY DEF Show
<1>2. TypeOK' /\ OneCounts' /\ Shown'
  BY WanderingIs, ShowTypes
<1> QED
  BY <1>1, <1>2, WanderingIs DEF LInv, Linked, SkipsOnlySharedMs

(* Page 0 of another URL: a walk begins, whatever the ref still holds. *)
LEMMA BeginKeeps ==
  ASSUME LInv, NEW u \in Url, u.page = 0, u # url, NEW h \in Seq(Url),
         NEW s \in [Page -> Cursor], s[0] = NoCursor, clicks' \in Nat,
         Show(u, h, s, NoWalk)
  PROVE  LInv'
<1>1. /\ url' = u /\ walk' = NoWalk /\ ~Loaded'
  BY TypedOK DEF Show, Loaded, LInv, Views
<1>2. TypeOK' /\ OneCounts' /\ Shown'
  BY NoWalkIs, ShowTypes
<1>3. Linked'
  BY <1>1, NoWalkIs, PageNumbers DEF Linked
<1>4. SkipsOnlySharedMs'
  BY <1>1, NoWalkIs DEF SkipsOnlySharedMs
<1> QED
  BY <1>2, <1>3, <1>4 DEF LInv

(* A new filter, or the same one asked again. *)
LEMMA FilterKeeps ==
  ASSUME LInv, NEW u \in Url, u.page = 0, NEW h \in Seq(Url), clicks' \in Nat,
         Show(u, h, NoStack, IF u = url THEN Wandering ELSE NoWalk)
  PROVE  LInv'
<1>1. NoStack[0] = NoCursor
  BY NoWalkIs, PageNumbers
<1> QED
  BY <1>1, NoWalkIs, WanderKeeps, BeginKeeps

(* Next, Previous and a Back that fits go on with the same walk. *)
LEMMA TurnKeeps ==
  ASSUME LInv, NEW u \in Url, NEW h \in Seq(Url), clicks' \in Nat,
         u.filter = url.filter, Show(u, h, stack, walk),
         walk.orderly => \A p \in 1..MaxPage : p <= u.page => p <= url.page \/ Link(p)
  PROVE  LInv'
<1>1. /\ url' = u /\ stack' = stack /\ walk' = walk
      /\ u # url => ~Loaded'
      /\ u = url => view' = view
  BY TypedOK DEF Show, Loaded, LInv, Views
<1>2. TypeOK' /\ OneCounts' /\ Shown'
  BY ShowTypes, TypedOK DEF LInv, OneCounts
<1>3. Linked'
  <2> SUFFICES ASSUME walk.orderly PROVE Linked'
    BY <1>1 DEF Linked
  <2>1. \A p \in 1..MaxPage : Link(p)' <=> Link(p)
    BY <1>1 DEF Link
  <2>2. ASSUME NEW p \in 1..MaxPage, p <= u.page \/ walk.rows[p] # {} PROVE Link(p)
    BY <2>2 DEF LInv, Linked
  <2>3. (Loaded /\ view.next # NoCursor /\ url.page < MaxPage => Link(url.page + 1))'
    BY <1>1 DEF LInv, Linked, Loaded, Link
  <2> QED
    BY <1>1, <2>1, <2>2, <2>3 DEF LInv, Linked
<1>4. SkipsOnlySharedMs'
  BY <1>1 DEF LInv, SkipsOnlySharedMs
<1> QED
  BY <1>2, <1>3, <1>4 DEF LInv

(* Cursors that are those of the pages before continue them. *)
LEMMA FitsLinks ==
  ASSUME LInv, walk.orderly, NEW u \in Url, Fits(u), NEW p \in 1..MaxPage, p <= u.page
  PROVE  Link(p)
<1>1. /\ p \in Page /\ p - 1 \in Page /\ p \in Nat \ {0} /\ u.page \in Nat
      /\ p \in 1..u.page
  BY PageNumbers DEF Url
<1>2. walk.rows[p - 1] # {} /\ stack[p] = CursorAt(Last(walk.rows[p - 1]))
  BY <1>1 DEF Fits
<1>3. \A q \in Page : walk.rows[q] \subseteq Row
  BY TypedOK DEF LInv, Walks
<1> DEFINE last == Last(walk.rows[p - 1])
<1>4. last \in walk.rows[p - 1] /\ last \in Row
      /\ \A r \in walk.rows[p - 1] \ {last} : Newer(r, last)
  BY <1>1, <1>2, <1>3, LastIsOne
<1> HIDE DEF last
<1>5. ASSUME NEW r \in walk.rows[p - 1] PROVE ~Below(r, CursorAt(last))
  BY <1>1, <1>3, <1>4, NotBelowOwn
<1>6. ASSUME NEW q \in 0..(p - 1), q # p - 1, NEW r \in walk.rows[q],
             Below(r, CursorAt(last))
      PROVE  FALSE
  <2>1. p - 1 \in 1..MaxPage /\ q \in 0..((p - 1) - 1) /\ q \in Page
    BY <1>1, <1>6, PageNumbers
  <2>2. Link(p - 1) /\ Below(last, stack[p - 1])
    BY <1>2, <1>4, <2>1 DEF LInv, Linked
  <2>3. ~Below(r, stack[p - 1])
    BY <1>6, <2>1, <2>2 DEF Link
  <2>4. stack[p - 1] \in Cursor /\ r \in Row
    BY <1>1, <1>3, <1>6, <2>1, TypedOK DEF LInv
  <2> QED
    BY <1>4, <1>6, <2>2, <2>3, <2>4, BelowChain
<1> QED
  BY <1>2, <1>5, <1>6 DEF Link, last

LEMMA BackKeeps ==
  ASSUME LInv, NEW u \in Url, NEW h \in Seq(Url), clicks' \in Nat,
         Show(u, h, stack, IF u.page = 0 /\ u # url THEN NoWalk
                           ELSE IF u = url \/ Fits(u) THEN walk ELSE Wandering)
  PROVE  LInv'
<1>1. stack \in [Page -> Cursor] /\ stack[0] = NoCursor
  BY TypedOK DEF LInv, OneCounts
<1>2. CASE u.page = 0 /\ u # url
  BY <1>1, <1>2, BeginKeeps
<1>3. CASE u = url
  BY <1>3, TurnKeeps
<1>4. CASE ~(u.page = 0 /\ u # url) /\ u # url /\ Fits(u)
  <2>1. u.filter = url.filter
    BY <1>4 DEF Fits
  <2> QED
    BY <1>4, <2>1, FitsLinks, TurnKeeps
<1>5. CASE ~(u.page = 0 /\ u # url) /\ u # url /\ ~Fits(u)
  BY <1>1, <1>5, WanderKeeps
<1> QED
  BY <1>2, <1>3, <1>4, <1>5

LEMMA RemountKeeps == LInv /\ Remount => LInv'
<1> SUFFICES ASSUME LInv, Remount PROVE LInv'
  OBVIOUS
<1> DEFINE new == [gen |-> gen + 1, url |-> url, cursor |-> NoCursor]
<1>1. /\ table' = table /\ status' = status /\ url' = url /\ history' = history
      /\ gen' = gen + 1 /\ calls' = calls \cup {new} /\ stack' = NoStack
      /\ view' = NoView /\ walk' = [NoWalk EXCEPT !.orderly = url.page = 0]
      /\ clicks' = clicks + 1
  BY DEF Remount, Click
<1>2. /\ gen \in Nat /\ url \in Url /\ url.page \in Page /\ clicks \in Nat
      /\ \A k \in calls : k.url \in Url /\ k.cursor \in Cursor /\ k.gen \in 1..gen
  BY DEF LInv, TypeOK, Url
<1>3. new \in Request /\ new.gen = gen + 1 /\ new.url = url /\ new.cursor = NoCursor
  BY <1>2, NoWalkIs DEF Request
<1>4. /\ walk' \in Walks
      /\ walk'.orderly <=> url.page = 0
      /\ \A p \in Page : walk'.rows[p] = {} /\ walk'.kept[p] = {}
  BY <1>1, NoWalkIs DEF Walks
<1> HIDE DEF new
<1>5. TypeOK'
  <2>1. \A k \in calls' : k.url \in Url /\ k.cursor \in Cursor /\ k.gen \in 1..gen'
    BY <1>1, <1>2, <1>3, NoWalkIs
  <2>2. view' \in Views /\ Cardinality(view'.rows) <= PageSize
    BY <1>1, NoViewIs
  <2>3. /\ table' \subseteq Row /\ status' \in [Row -> State] /\ url' \in Url
        /\ history' \in Seq(Url)
    BY <1>1, TypedOK DEF LInv
  <2>4. gen' \in Nat /\ clicks' \in Nat /\ stack' \in [Page -> Cursor]
    BY <1>1, <1>2, NoWalkIs
  <2> QED
    BY <1>4, <2>1, <2>2, <2>3, <2>4 DEF TypeOK, Views, Walks
<1>6. OneCounts'
  <2>1. calls' \subseteq Request /\ \A k, j \in calls' : k.gen = j.gen => k = j
    BY <1>1, <1>2, <1>3 DEF LInv, OneCounts
  <2>2. \A k \in calls' : k.gen = gen' => k = new
    BY <1>1, <1>2
  <2> QED
    BY <1>1, <1>2, <1>3, <2>1, <2>2, NoWalkIs, NoViewIs, PageNumbers DEF OneCounts
<1>7. Linked' /\ Shown'
  BY <1>1, <1>2, <1>4, NoViewIs, PageNumbers DEF Linked, Shown, Loaded
<1>8. SkipsOnlySharedMs'
  BY <1>4 DEF SkipsOnlySharedMs
<1> QED
  BY <1>5, <1>6, <1>7, <1>8 DEF LInv

LEMMA UserKeeps == LInv /\ User => LInv'
<1> SUFFICES ASSUME LInv, User PROVE LInv'
  OBVIOUS
<1>1. /\ url \in Url /\ history \in Seq(Url) /\ clicks \in Nat
      /\ Append(history, url) \in Seq(Url) /\ view.rows \subseteq Row
      /\ url.page \in Nat
  BY PageNumbers DEF LInv, TypeOK, Url
<1>2. CASE Filters \/ TryAgain \/ ClearFilters
  <2>1. ASSUME NEW f \in Filter, NEW c \in Course \cup {Unset}, applyFilters(f, c), Click
        PROVE  LInv'
    <3> DEFINE u == [filter |-> f, course |-> c, page |-> 0]
    <3>1. u \in Url /\ u.page = 0 /\ clicks' \in Nat
      BY <1>1, <2>1, PageNumbers DEF Url, Click
    <3>2. Show(u, Append(history, url), NoStack, IF u = url THEN Wandering ELSE NoWalk)
      BY <2>1 DEF applyFilters
    <3> HIDE DEF u
    <3> QED
      BY <1>1, <3>1, <3>2, FilterKeeps
  <2>2. Offered \subseteq Course \cup {Unset}
    BY <1>1, RegistryListAssumption DEF Offered, Url
  <2>3. CASE Filters
    BY <2>1, <2>2, <2>3 DEF Filters
  <2>4. CASE TryAgain
    BY <1>1, <2>1, <2>4 DEF TryAgain, Url
  <2>5. CASE ClearFilters
    <3> DEFINE u == [filter |-> Unset, course |-> Unset, page |-> 0]
    <3>1. u \in Url /\ u.page = 0 /\ clicks' \in Nat
      BY <1>1, <2>5, PageNumbers DEF Url, Filter, Click, ClearFilters
    <3>2. Show(u, Append(history, url), NoStack, IF u = url THEN Wandering ELSE NoWalk)
      BY <2>5 DEF ClearFilters
    <3> HIDE DEF u
    <3> QED
      BY <1>1, <3>1, <3>2, FilterKeeps
  <2> QED
    BY <1>2, <2>3, <2>4, <2>5
<1>3. CASE NextPage
  <2>1. PICK u : u = [url EXCEPT !.page = @ + 1]
    OBVIOUS
  <2>2. /\ Show(u, Append(history, url), stack, walk) /\ clicks' \in Nat
        /\ Loaded /\ view.next # NoCursor /\ url.page < MaxPage
    BY <1>1, <1>3, <2>1, PanelMeans DEF NextPage, Click
  <2>3. u \in Url /\ u # url /\ u.filter = url.filter /\ u.page = url.page + 1
    <3>1. url.page + 1 \in Page
      BY <1>1, <2>2, PageNumbers
    <3>2. u \in Url /\ u.filter = url.filter /\ u.page = url.page + 1
      BY <1>1, <2>1, <3>1 DEF Url
    <3> QED
      BY <1>1, <3>2
  <2>4. walk.orderly => Link(u.page)
    BY <2>2, <2>3 DEF LInv, Linked
  <2>5. \A p \in 1..MaxPage : p <= u.page => p <= url.page \/ p = u.page
    BY <1>1, <2>3
  <2> QED
    BY <1>1, <2>2, <2>3, <2>4, <2>5, TurnKeeps
<1>4. CASE PrevPage
  <2>1. PICK u : u = [url EXCEPT !.page = @ - 1]
    OBVIOUS
  <2>2. /\ Show(u, Append(history, url), stack, IF url.page = 1 THEN NoWalk ELSE walk)
        /\ clicks' \in Nat /\ url.page > 0
    BY <1>1, <1>4, <2>1 DEF PrevPage, Click
  <2>3. u \in Url /\ u # url /\ u.filter = url.filter /\ u.page = url.page - 1
    <3>1. url.page - 1 \in Page
      <4>1. url.page \in 0..MaxPage /\ MaxPage \in Nat
        BY <1>1, PageNumbers DEF Url
      <4> QED
        BY <2>2, <4>1, PageNumbers
    <3>2. u \in Url /\ u.filter = url.filter /\ u.page = url.page - 1
      BY <1>1, <2>1, <3>1 DEF Url
    <3> QED
      BY <1>1, <3>2
  <2>4. \A p \in 1..MaxPage : p <= u.page => p <= url.page
    BY <1>1, <2>3
  <2>5. stack \in [Page -> Cursor] /\ stack[0] = NoCursor
    BY TypedOK DEF LInv, OneCounts
  <2>6. CASE url.page = 1
    <3>1. u.page = 0 /\ Show(u, Append(history, url), stack, NoWalk)
      BY <1>1, <2>1, <2>2, <2>3, <2>6 DEF Url
    <3> QED
      BY <1>1, <2>2, <2>3, <2>5, <3>1, BeginKeeps
  <2>7. CASE url.page # 1
    BY <1>1, <2>2, <2>3, <2>4, <2>7, TurnKeeps
  <2> QED
    BY <2>6, <2>7
<1>5. CASE Back
  <2>1. PICK u : u = history[Len(history)]
    OBVIOUS
  <2>2. /\ history # <<>> /\ clicks' \in Nat
        /\ Show(u, SubSeq(history, 1, Len(history) - 1), stack,
                IF u.page = 0 /\ u # url THEN NoWalk
                ELSE IF u = url \/ Fits(u) THEN walk ELSE Wandering)
    BY <1>1, <1>5, <2>1 DEF Back, Click
  <2>3. u \in Url /\ SubSeq(history, 1, Len(history) - 1) \in Seq(Url)
    BY <1>1, <2>1, <2>2
  <2> QED
    BY <2>2, <2>3, BackKeeps
<1> QED
  BY <1>2, <1>3, <1>4, <1>5, RemountKeeps DEF User

-----------------------------------------------------------------------------
(* A page of PageSize and the row that tells whether there is another: the  *)
(* page is the newest part of what was selected, all of it when there is no *)
(* row more, and not empty when there is one.                               *)
LEMMA PageIsNewest ==
  ASSUME NEW S, S \subseteq Row, NEW found, found = First(S, PageSize + 1),
         NEW items, items = First(found, PageSize)
  PROVE  /\ items \subseteq S /\ IsFiniteSet(items)
         /\ Cardinality(items) \in Nat /\ Cardinality(items) <= PageSize
         /\ \A x \in items, r \in S : Newer(r, x) => r \in items
         /\ found = items => items = S
         /\ found # items => items # {}
<1>1. PageSize \in Nat \ {0} /\ PageSize + 1 \in Nat
  BY RegistryListAssumption
<1>2. found \subseteq S
  BY <1>1, FirstLimits
<1>3. /\ items \subseteq found /\ IsFiniteSet(items)
      /\ Cardinality(items) \in Nat /\ Cardinality(items) <= PageSize
  BY <1>1, <1>2, FirstLimits
<1>4. ASSUME NEW x \in items, NEW r \in S, Newer(r, x) PROVE r \in items
  <2>1. r \in found
    BY <1>1, <1>3, <1>4, FirstIsNewest
  <2> QED
    BY <1>1, <1>2, <1>4, <2>1, FirstIsNewest
<1>5. found = items => items = S
  <2> SUFFICES ASSUME found = items, found # S PROVE FALSE
    OBVIOUS
  <2>1. Cardinality(found) >= PageSize + 1
    BY <1>1, FirstIsFull
  <2> QED
    BY <1>1, <1>3, <2>1
<1>6. found # items => items # {}
  <2> SUFFICES ASSUME found # items, items = {} PROVE FALSE
    OBVIOUS
  <2>1. Cardinality(items) >= PageSize
    BY <1>1, <1>2, FirstIsFull
  <2> QED
    BY <1>1, <2>1, FS_EmptySet
<1> QED
  BY <1>2, <1>3, <1>4, <1>5, <1>6

(* The answer that the page takes: that of the effect that ran last. *)
LEMMA AnswerKeeps ==
  ASSUME LInv, NEW k \in calls, k.gen = gen, calls' = calls \ {k},
         listByInstitution(k), UNCHANGED <<table, status, url, history, gen, clicks>>
  PROVE  LInv'
<1> DEFINE all == Matching(k.url.filter)
          S == {r \in all : k.cursor = NoCursor \/ Below(r, k.cursor)}
          n == url.page
<1>1. /\ k.url = url
      /\ walk.orderly => k.cursor = stack[n]
      /\ n = 0 => k.cursor = NoCursor
      /\ \A j \in calls' : j.gen # gen
  BY DEF LInv, OneCounts
<1>2. /\ url \in Url /\ n \in Page /\ n \in Nat /\ n <= MaxPage /\ MaxPage \in Nat
      /\ table \subseteq Row /\ S \subseteq Row /\ S \subseteq all
      /\ all \subseteq Row /\ k.cursor \in Cursor
      /\ \A r \in all : url.filter \in {Unset, status[r]}
      /\ \A p \in Page : walk.rows[p] \subseteq Row
  BY <1>1, PageNumbers, TypedOK DEF LInv, Walks, Url, Matching
<1>3. PICK found, items : /\ found = First(S, PageSize + 1)
                          /\ items = First(found, PageSize)
                          /\ Received(k, items, IF found = items THEN NoCursor
                                                ELSE CursorAt(Last(items)))
  <2>1. Select(k, PageSize + 1) = First(S, PageSize + 1)
    BY DEF Select
  <2>2. PICK found \in {Select(k, PageSize + 1)} : \E items \in {First(found, PageSize)} :
          Received(k, items, IF found = items THEN NoCursor ELSE CursorAt(Last(items)))
    BY DEF listByInstitution
  <2>3. PICK items \in {First(found, PageSize)} :
          Received(k, items, IF found = items THEN NoCursor ELSE CursorAt(Last(items)))
    BY <2>2
  <2> QED
    BY <2>1, <2>2, <2>3
<1> HIDE DEF S, all
<1> DEFINE next == IF found = items THEN NoCursor ELSE CursorAt(Last(items))
<1>4. /\ items \subseteq S /\ IsFiniteSet(items)
      /\ Cardinality(items) \in Nat /\ Cardinality(items) <= PageSize
      /\ \A x \in items, r \in S : Newer(r, x) => r \in items
      /\ found = items => items = S
      /\ found # items => items # {}
  BY <1>2, <1>3, PageIsNewest
<1>5. items # {} => Last(items) \in items /\ \A q \in items \ {Last(items)} : Newer(q, Last(items))
  BY <1>2, <1>4, LastIsOne
<1>6. /\ next \in Cursor
      /\ next = NoCursor => items = S
      /\ next # NoCursor => items # {} /\ next = CursorAt(Last(items))
  <2>1. CASE found = items
    BY <1>4, <2>1, NoWalkIs
  <2>2. CASE found # items
    BY <1>2, <1>4, <1>5, <2>2, RealCursor
  <2> QED
    BY <2>1, <2>2
<1>7. Received(k, items, next)
  BY <1>3
<1> HIDE DEF next
<1> DEFINE m == k.url.page
           shown == {r \in items : k.url.course \in {Unset, CourseOf[r]}}
           chips == [r \in Row |-> IF r \in shown THEN status[r] ELSE Unset]
           R == [p \in Page |-> IF p < m THEN walk.rows[p] ELSE IF p = m THEN items ELSE {}]
           K == [p \in Page |-> IF p < m THEN walk.kept[p] ELSE IF p # m THEN {}
                                ELSE IF m = 0 THEN all ELSE walk.kept[m - 1] \cap all]
<1>8. /\ view' = [rows |-> shown, chips |-> chips, next |-> next, loading |-> FALSE,
                  error |-> FALSE, all |-> all]
      /\ stack' = IF next = NoCursor \/ n = MaxPage THEN stack
                  ELSE [stack EXCEPT ![n + 1] = next]
      /\ walk' = [walk EXCEPT !.rows = R, !.kept = K]
  <2>1. view' = [rows |-> shown, chips |-> chips, next |-> next, loading |-> FALSE,
                 error |-> FALSE, all |-> all]
    BY <1>7 DEF Received, all
  <2>2. stack' = IF next = NoCursor \/ n = MaxPage THEN stack
                 ELSE [stack EXCEPT ![n + 1] = next]
    BY <1>1, <1>7 DEF Received
  <2>3. walk' = [walk EXCEPT !.rows = R, !.kept = K]
    BY <1>7 DEF Received, all
  <2> QED
    BY <2>1, <2>2, <2>3
<1>8a. /\ chips \in [Row -> Filter] /\ \A r \in shown : chips[r] = status[r]
       /\ shown = {r \in items : url.course \in {Unset, CourseOf[r]}} /\ m = n
  BY <1>1, <1>2, <1>4, TypedOK DEF LInv, Filter
<1> HIDE DEF chips, shown, m
<1>9. /\ view'.rows = shown /\ shown \subseteq items /\ view'.chips = chips
      /\ view'.next = next /\ view'.all = all /\ ~view'.loading /\ ~view'.error
  BY <1>8, <1>8a
<1>10. /\ stack' \in [Page -> Cursor]
       /\ \A p \in Page : p # n + 1 => stack'[p] = stack[p]
       /\ next # NoCursor /\ n < MaxPage => stack'[n + 1] = next
  <2>1. stack \in [Page -> Cursor]
    BY DEF LInv, TypeOK
  <2>2. CASE next = NoCursor \/ n = MaxPage
    BY <1>2, <1>8, <2>1, <2>2
  <2>3. CASE next # NoCursor /\ n # MaxPage
    <3>1. n + 1 \in Page
      BY <1>2, <2>3, PageNumbers
    <3> QED
      BY <1>6, <1>8, <2>1, <2>3, <3>1
  <2> QED
    BY <2>2, <2>3
<1>11. /\ walk' \in Walks
       /\ walk'.orderly = walk.orderly
       /\ \A p \in Page : /\ p < n => walk'.rows[p] = walk.rows[p] /\ walk'.kept[p] = walk.kept[p]
                          /\ p = n => walk'.rows[p] = items
                          /\ p > n => walk'.rows[p] = {} /\ walk'.kept[p] = {}
       /\ walk'.kept[n] \subseteq all
       /\ n > 0 => walk'.kept[n] \subseteq walk.kept[n - 1]
  <2>1. walk \in Walks
    BY TypedOK DEF LInv
  <2>2. R \in [Page -> SUBSET Row]
    BY <1>2, <1>8a, <1>4, <2>1 DEF Walks
  <2>3. K \in [Page -> SUBSET Row]
    <3>1. n > 0 => n - 1 \in Page
      BY <1>2, <1>8a, PageNumbers
    <3> QED
      BY <1>2, <1>8a, <2>1, <3>1 DEF Walks
  <2>4. \A p \in Page : /\ p < n => R[p] = walk.rows[p] /\ K[p] = walk.kept[p]
                        /\ p = n => R[p] = items
                        /\ p > n => R[p] = {} /\ K[p] = {}
    BY <1>2, <1>8a, PageNumbers
  <2>5. K[n] \subseteq all /\ (n > 0 => K[n] \subseteq walk.kept[n - 1])
    BY <1>2, <1>8a
  <2> HIDE DEF R, K
  <2> QED
    BY <1>2, <1>8, <2>1, <2>2, <2>3, <2>4, <2>5 DEF Walks
<1> HIDE DEF R, K
<1>12. TypeOK'
  <2>1. Cardinality(view'.rows) <= PageSize
    <3>1. Cardinality(view'.rows) \in Nat /\ Cardinality(view'.rows) <= Cardinality(items)
      BY <1>4, <1>9, FS_Subset, FS_CardinalityType
    <3> QED
      BY <1>4, <3>1, RegistryListAssumption
  <2>2. view' \in Views
    BY <1>2, <1>4, <1>6, <1>8, <1>9, <1>8a DEF Views
  <2>3. calls' \subseteq calls
    OBVIOUS
  <2> QED
    BY <1>10, <1>11, <2>1, <2>2, <2>3 DEF LInv, TypeOK, Views, Walks
<1>13. OneCounts'
  <2>1. stack'[0] = NoCursor
    BY <1>2, <1>10, PageNumbers DEF LInv, OneCounts
  <2> QED
    BY <1>1, <2>1 DEF LInv, OneCounts
<1>15. ASSUME walk.orderly, NEW p \in 1..MaxPage, p <= n PROVE Link(p) /\ Link(p)'
  <2>1. Link(p)
    BY <1>15 DEF LInv, Linked
  <2>2. p \in Page /\ p - 1 \in Page /\ p - 1 < n /\ p # n + 1 /\ p \in Nat
    BY <1>2, <1>15, PageNumbers
  <2>3. \A q \in 0..(p - 1) : q \in Page /\ q < n
    BY <1>2, <1>15, <2>2, PageNumbers
  <2>4. walk'.rows[p - 1] = walk.rows[p - 1] /\ stack'[p] = stack[p]
    BY <1>10, <1>11, <2>2
  <2>5. \A q \in 0..(p - 1) : walk'.rows[q] = walk.rows[q]
    BY <1>11, <2>3
  <2> QED
    BY <2>1, <2>4, <2>5 DEF Link
<1>16. ASSUME walk.orderly, n > 0
       PROVE  /\ n \in 1..MaxPage /\ Link(n) /\ k.cursor = stack[n]
              /\ Last(walk.rows[n - 1]) \in walk.rows[n - 1] /\ walk.rows[n - 1] \subseteq Row
              /\ k.cursor = CursorAt(Last(walk.rows[n - 1]))
              /\ \A r \in items : Below(r, k.cursor)
  <2>1. n \in 1..MaxPage /\ n - 1 \in Page
    BY <1>2, <1>16, PageNumbers
  <2>2. Link(n) /\ k.cursor = stack[n]
    BY <1>1, <1>2, <1>15, <1>16, <2>1
  <2>3. walk.rows[n - 1] \subseteq Row /\ walk.rows[n - 1] # {}
    BY <1>2, <2>1, <2>2 DEF Link
  <2>4. Last(walk.rows[n - 1]) \in walk.rows[n - 1]
    BY <1>2, <2>3, LastIsOne
  <2>5. k.cursor = CursorAt(Last(walk.rows[n - 1])) /\ k.cursor # NoCursor
    BY <1>2, <2>2, <2>3, <2>4, RealCursor DEF Link
  <2> QED
    BY <1>4, <2>1, <2>2, <2>3, <2>4, <2>5 DEF S
<1>17. ASSUME walk.orderly, next # NoCursor, n < MaxPage PROVE Link(n + 1)'
  <2>1. /\ (n + 1) - 1 = n /\ walk'.rows[n] = items /\ items # {}
        /\ stack'[n + 1] = CursorAt(Last(items))
    BY <1>2, <1>6, <1>10, <1>11, <1>17
  <2>2. ASSUME NEW r \in items PROVE ~Below(r, CursorAt(Last(items)))
    BY <1>2, <1>4, <1>5, <2>1, <2>2, NotBelowOwn
  <2>3. ASSUME NEW q \in 0..n, q # n, NEW r \in walk.rows[q],
               Below(r, CursorAt(Last(items)))
        PROVE  FALSE
    <3>1. n > 0 /\ q \in 0..(n - 1) /\ q \in Page
      BY <1>2, <2>3, PageNumbers
    <3>2. ~Below(r, k.cursor)
      BY <1>16, <1>17, <2>3, <3>1 DEF Link
    <3>3. Below(Last(items), k.cursor)
      BY <1>5, <1>16, <1>17, <2>1, <3>1
    <3>4. r \in Row /\ Last(items) \in Row
      BY <1>2, <1>4, <1>5, <2>1, <2>3, <3>1
    <3> QED
      BY <1>2, <2>3, <3>2, <3>3, <3>4, BelowChain
  <2>4. ASSUME NEW q \in 0..n, NEW r \in walk'.rows[q] PROVE ~Below(r, CursorAt(Last(items)))
    <3>1. q \in Page /\ (q = n \/ q < n)
      BY <1>2, PageNumbers
    <3>2. CASE q = n
      BY <2>1, <2>2, <2>4, <3>2
    <3>3. CASE q # n
      BY <1>11, <2>3, <2>4, <3>1, <3>3
    <3> QED
      BY <3>2, <3>3
  <2> QED
    BY <2>1, <2>4 DEF Link
<1>18. Linked'
  <2> SUFFICES ASSUME walk.orderly PROVE Linked'
    BY <1>11 DEF Linked
  <2>1. ASSUME NEW p \in 1..MaxPage, p <= n \/ walk'.rows[p] # {} PROVE p <= n
    BY <1>2, <1>11, <2>1, PageNumbers
  <2>2. ASSUME NEW p \in 1..MaxPage, NEW r \in walk'.rows[p] PROVE Below(r, stack'[p])
    <3>1. p \in Page /\ p <= n /\ p \in Nat \ {0} /\ stack'[p] = stack[p]
      BY <1>2, <1>10, <2>1, <2>2, PageNumbers
    <3>2. CASE p = n
      BY <1>2, <1>11, <1>16, <2>2, <3>1, <3>2
    <3>3. CASE p < n
      BY <1>11, <2>2, <3>1, <3>3 DEF LInv, Linked
    <3> QED
      BY <1>2, <3>1, <3>2, <3>3
  <2>3. (Loaded /\ view.next # NoCursor /\ url.page < MaxPage => Link(url.page + 1))'
    BY <1>9, <1>17
  <2> QED
    BY <1>15, <2>1, <2>2, <2>3 DEF Linked
<1>19. SkipsOnlySharedMs'
  <2> SUFFICES ASSUME walk.orderly, NEW p \in Page PROVE Skip(p)'
    BY <1>11 DEF SkipsOnlySharedMs, Skip
  <2>1. p \in Nat /\ (p < n \/ p = n \/ p > n)
    BY <1>2, PageNumbers
  <2>2. CASE p < n
    <3>1. \A q \in 0..p : q \in Page /\ q < n
      BY <1>2, <2>1, <2>2, PageNumbers
    <3>2. \A q \in 0..p : walk'.rows[q] = walk.rows[q]
      BY <1>11, <3>1
    <3>3. p \in 0..p /\ \A q \in 0..(p - 1) : q \in 0..p
      BY <2>1
    <3>4. walk'.kept[p] = walk.kept[p] /\ Skip(p)
      BY <1>11, <2>2, SkipByPage DEF LInv
    <3> QED
      BY <3>2, <3>3, <3>4 DEF Skip
  <2>3. CASE p > n
    BY <1>11, <2>3 DEF Skip
  <2>4. CASE p = n
    <3>1. walk'.rows[n] = items /\ n \in 0..n
      BY <1>2, <1>11
    <3>2. ASSUME NEW r \in S
          PROVE  r \in items \/ (items # {} /\ Newer(Last(items), r))
      <4>1. items # {}
        BY <1>6, <3>2
      <4>2. Last(items) \in items /\ Last(items) \in Row /\ r \in Row
        BY <1>2, <1>4, <1>5, <3>2, <4>1
      <4> QED
        BY <1>4, <3>2, <4>1, <4>2, NewerTotal
    <3>3. CASE n = 0
      <4>1. walk'.kept[n] \subseteq S
        BY <1>1, <1>11, <3>3 DEF S
      <4> QED
        BY <2>4, <3>1, <3>2, <4>1 DEF Skip
    <3>4. CASE n > 0
      <4> DEFINE before == Last(walk.rows[n - 1])
      <4>1. /\ n - 1 \in Page /\ Skip(n - 1) /\ n - 1 \in 0..(n - 1)
            /\ \A q \in 0..(n - 1) : q \in 0..n /\ walk'.rows[q] = walk.rows[q]
            /\ \A q \in 0..((n - 1) - 1) : q \in 0..(n - 1)
        <5>1. n - 1 \in Page /\ n - 1 \in 0..(n - 1)
          BY <1>2, <3>4, PageNumbers
        <5>2. \A q \in 0..(n - 1) : q \in Page /\ q < n /\ q \in 0..n
          BY <1>2, <3>4, PageNumbers
        <5>3. \A q \in 0..((n - 1) - 1) : q \in 0..(n - 1)
          BY <1>2
        <5> QED
          BY <1>11, <5>1, <5>2, <5>3, SkipByPage DEF LInv
      <4>2. before \in Row /\ k.cursor = CursorAt(before)
        BY <1>2, <1>16, <3>4
      <4> HIDE DEF before
      <4> SUFFICES ASSUME NEW r \in walk'.kept[n],
                          ~(items # {} /\ Newer(Last(items), r)),
                          ~(\E q \in 0..n : r \in walk'.rows[q]),
                          ~(\E q \in 0..(n - 1) : Ms[r] = Ms[Last(walk'.rows[q])])
                   PROVE  FALSE
        BY <2>4, <3>1 DEF Skip
      <4>3. r \in walk.kept[n - 1] /\ r \in all /\ r \in Row
        BY <1>2, <1>11, <3>4
      <4>4. ~(\E q \in 0..(n - 1) : r \in walk.rows[q] \/ Ms[r] = Ms[Last(walk.rows[q])])
        BY <4>1
      <4>5. Newer(before, r) /\ Ms[r] # Ms[before]
        BY <4>1, <4>3, <4>4 DEF Skip, before
      <4>6. Ms[r] < Ms[before]
        BY <4>2, <4>3, <4>5, RowNumbers DEF Newer
      <4>7. r \in S
        BY <4>2, <4>3, <4>6, BelowNextMs DEF S
      <4> QED
        BY <3>1, <3>2, <4>7
    <3> QED
      BY <1>2, <3>3, <3>4
  <2> QED
    BY <2>1, <2>2, <2>3, <2>4
<1>20. Shown'
  <2>1. ASSUME NEW r \in view'.rows
        PROVE  url.filter \in {Unset, view'.chips[r]} /\ url.course \in {Unset, CourseOf[r]}
    <3>1. r \in shown /\ r \in all
      BY <1>2, <1>4, <1>9, <1>8a, <2>1
    <3> QED
      BY <1>2, <1>9, <1>8a, <3>1
  <2>2. ASSUME n = 0, url.course = Unset, view'.rows = {} PROVE all = {}
    <3>1. items = {} /\ next = NoCursor /\ S = {}
      BY <1>6, <1>9, <1>8a, <2>2
    <3> QED
      BY <1>1, <2>2, <3>1 DEF S
  <2>3. ASSUME next = NoCursor, view'.rows # {}, NEW r \in all,
               url.course \in {Unset, CourseOf[r]},
               \A q \in view'.rows : Newer(q, r)
        PROVE  FALSE
    <3>1. PICK q \in view'.rows : Newer(q, r)
      BY <2>3
    <3>2. q \in S /\ q \in Row /\ r \in Row /\ items = S
      BY <1>2, <1>4, <1>6, <1>9, <2>3
    <3>3. r \in S
      BY <1>2, <3>1, <3>2, BelowOlder DEF S
    <3>4. r \in view'.rows
      BY <1>9, <1>8a, <2>3, <3>2, <3>3
    <3> QED
      BY <2>3, <3>2, <3>4, NewerAsymmetric
  <2> QED
    BY <1>9, <2>1, <2>2, <2>3 DEF Shown
<1> QED
  BY <1>12, <1>13, <1>18, <1>19, <1>20 DEF LInv

LEMMA SettleKeeps == ASSUME LInv, NEW k \in calls, Settle(k) PROVE LInv'
<1>1. /\ calls' = calls \ {k}
      /\ UNCHANGED <<table, status, url, history, gen, clicks>>
  BY DEF Settle
<1>2. \A j \in calls : k.gen = j.gen => k = j
  BY DEF LInv, OneCounts
<1>3. CASE Ignored /\ k.gen # gen
  BY <1>1, <1>3 DEF LInv, TypeOK, OneCounts, Linked, Link, SkipsOnlySharedMs,
                    Shown, Loaded, Ignored
<1>4. CASE Refused /\ k.gen = gen
  <2>1. /\ view' \in Views /\ view'.rows = view.rows /\ ~Loaded'
        /\ stack' = stack /\ walk' = walk
    BY <1>4, TypedOK DEF LInv, Refused, Loaded, Views
  <2>2. TypeOK'
    BY <1>1, <2>1 DEF LInv, TypeOK, Views
  <2>3. OneCounts'
    BY <1>1, <1>2, <1>4, <2>1 DEF LInv, OneCounts
  <2>4. SkipsOnlySharedMs' /\ Shown'
    BY <1>1, <2>1 DEF LInv, SkipsOnlySharedMs, Shown
  <2>5. Linked'
    BY <1>1, <2>1 DEF LInv, Linked, Link
  <2> QED
    BY <2>2, <2>3, <2>4, <2>5 DEF LInv
<1>5. CASE listByInstitution(k) /\ k.gen = gen
  BY <1>1, <1>5, AnswerKeeps
<1> QED
  BY <1>3, <1>4, <1>5 DEF Settle

(* What the database does meanwhile changes nothing that the page has read. *)
LEMMA DatabaseKeeps ==
  ASSUME LInv, NEW r \in Row, Insert(r) \/ updateStatus(r)
  PROVE  LInv'
<1>1. /\ url' = url /\ history' = history /\ stack' = stack /\ view' = view /\ gen' = gen
      /\ calls' = calls /\ walk' = walk /\ clicks' = clicks
  BY DEF Insert, updateStatus, page
<1>2. table' \subseteq Row /\ status' \in [Row -> State]
  BY TypedOK DEF LInv, Insert, updateStatus
<1>3. TypeOK'
  BY <1>1, <1>2 DEF LInv, TypeOK
<1> QED
  BY <1>1, <1>3 DEF LInv, OneCounts, Linked, Link, SkipsOnlySharedMs, Shown, Loaded

LEMMA ListStep == LInv /\ [Next]_vars => LInv'
<1> SUFFICES ASSUME LInv, [Next]_vars PROVE LInv'
  OBVIOUS
<1>1. CASE UNCHANGED vars
  <2>1. /\ table' = table /\ status' = status /\ url' = url /\ history' = history
        /\ stack' = stack /\ view' = view /\ gen' = gen /\ calls' = calls
        /\ walk' = walk /\ clicks' = clicks
    BY <1>1 DEF vars
  <2>2. TypeOK'
    BY <2>1 DEF LInv, TypeOK
  <2> QED
    BY <2>1, <2>2 DEF LInv, OneCounts, Linked, Link, SkipsOnlySharedMs, Shown, Loaded
<1> QED
  BY <1>1, UserKeeps, SettleKeeps, DatabaseKeeps DEF Next, Network

(* The keyset and the cursors in the ref fit together (RegistryPage.jsx:43,
   certificate.repo.js: listByInstitution): the invariant that carries both
   theorems below, and the types. *)
THEOREM ListInvariance == Spec => []LInv
<1> QED
  BY ListInitially, ListStep, PTL DEF Spec

(* However the user turns the pages and goes back, in whatever order issuing
   transactions commit and however certificates enter and leave the filter, a
   walk through the list shows no certificate twice and passes over none that
   matched at the read of every page, but those issued in the very millisecond
   of a page's last row. *)
THEOREM SoundWalks == Spec => []WalkIsSound
<1> QED
  BY ListInvariance, SoundWalk, PTL

(* However the answers overtake each other, "none issued yet" is said only to
   an institution that had none, every row of the table was of the address's
   filter and course when it was read, and a table without a next page ends where the list ended. *)
THEOREM HonestLists == Spec => []ListIsHonest
<1> QED
  BY ListInvariance, HonestList, PTL
=============================================================================
