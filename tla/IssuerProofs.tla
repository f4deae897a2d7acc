---------------------------- MODULE IssuerProofs ----------------------------
(***************************************************************************)
(* Proofs about the issuer's pages, for any certificates, submissions,     *)
(* polls and bounds: what a page shows is still followed, and what it      *)
(* offers is true of the certificate (IssuerPages.tla).                    *)
(***************************************************************************)
EXTENDS IssuerPages, Integers, TLAPS

USE IssuerPagesAssumption

-----------------------------------------------------------------------------
(* Calls on their way. *)
LEMMA EmptyIs == IsCalls(EmptyBag) /\ BagToSet(EmptyBag) = {}
  BY DEF IsCalls, IsABag, EmptyBag, SetToBag, BagToSet

LEMMA PlusIs ==
  ASSUME NEW b, IsCalls(b), NEW k \in Call
  PROVE  /\ IsCalls(Plus(b, k)) /\ BagToSet(Plus(b, k)) = BagToSet(b) \cup {k}
         /\ Plus(b, k) # EmptyBag
<1> DEFINE one == SetToBag({k})
<1>1. DOMAIN one = {k} /\ one[k] = 1
  BY DEF SetToBag
<1>2. /\ DOMAIN Plus(b, k) = DOMAIN b \cup {k}
      /\ \A e \in DOMAIN b \cup {k} :
            Plus(b, k)[e] = (IF e \in DOMAIN b THEN b[e] ELSE 0) + (IF e \in {k} THEN one[e] ELSE 0)
  BY <1>1 DEF Plus, (+)
<1>3. \A e \in DOMAIN b : b[e] \in Nat /\ b[e] > 0
  BY DEF IsCalls, IsABag
<1> HIDE DEF one
<1>4. \A e \in DOMAIN Plus(b, k) : Plus(b, k)[e] \in {n \in Nat : n > 0}
  BY <1>1, <1>2, <1>3
<1>5. IsABag(Plus(b, k))
  BY <1>4 DEF IsABag, Plus, (+)
<1>6. EmptyBag # Plus(b, k)
  BY <1>2, EmptyIs DEF BagToSet
<1> QED
  BY <1>2, <1>5, <1>6 DEF IsCalls, BagToSet

LEMMA LessIs ==
  ASSUME NEW b, IsCalls(b), NEW k
  PROVE  IsCalls(Less(b, k)) /\ BagToSet(Less(b, k)) \subseteq BagToSet(b)
<1> DEFINE one == SetToBag({k})
           left == [e \in DOMAIN b |-> IF e \in DOMAIN one THEN b[e] - one[e] ELSE b[e]]
<1>1. DOMAIN one = {k} /\ one[k] = 1
  BY DEF SetToBag
<1>2. \A e \in DOMAIN b : b[e] \in Nat /\ b[e] > 0
  BY DEF IsCalls, IsABag
<1>3. Less(b, k) = [e \in {d \in DOMAIN left : left[d] > 0} |-> left[e]]
  BY DEF Less, (-)
<1>4. \A e \in DOMAIN left : left[e] \in Int
  BY <1>1, <1>2
<1> HIDE DEF one
<1>5. DOMAIN left = DOMAIN b
  OBVIOUS
<1> HIDE DEF left
<1>6. /\ DOMAIN Less(b, k) \subseteq DOMAIN b
      /\ \A e \in DOMAIN Less(b, k) : Less(b, k)[e] \in {n \in Nat : n > 0}
  BY <1>3, <1>4, <1>5
<1>7. IsABag(Less(b, k))
  BY <1>3, <1>6 DEF IsABag
<1> QED
  BY <1>6, <1>7 DEF IsCalls, BagToSet

-----------------------------------------------------------------------------
(* What the page may rely on. *)
Page == [id : Cert, of : Cert \cup {None}, status : CertState \cup {None},
         loading : BOOLEAN, failed : BOOLEAN, poll : CertState \cup {None},
         polling : BOOLEAN, timedOut : BOOLEAN, ticks : 0..MaxTicks,
         strayed : BOOLEAN, moved : BOOLEAN]
Tick == {"off", "timer", "sent"} \cup CertState

Born(c) == state[c] # Unborn
Public(c) == state[c] \in {"ACTIVE", "REVOKING", "REVOKED"}

(* Whoever says of c that it is active or revoked is right that it was
   anchored, however old the word is. *)
Claims(s, c) == s \in {"ACTIVE", "REVOKED"} => Public(c)
TrueCalls(b) == \A k \in BagToSet(b) : Born(k[1]) /\ Claims(k[2], k[1])
CallsOf(b, c) == \A k \in BagToSet(b) : k[1] = c
Known(p) ==
  /\ p.of # None => p.status # None /\ Claims(p.status, p.of)
  /\ ~p.moved => p.of \in {None, p.id} /\ Claims(p.poll, p.id)

(* Loads and strays as Commit is given them, or leaves them. *)
Truth(p, ls, st) ==
  /\ Known(p) /\ TrueCalls(ls) /\ TrueCalls(st)
  /\ ~p.moved => CallsOf(ls, p.id) /\ CallsOf(st, p.id)

(* The spinner turns while the chain goes on; a chain ends with an offer to
   refresh or an outcome; a status that the poll has overtaken is loaded again. *)
Linked(p, t) == (p.polling <=> t # "off") /\ (p.polling => Enabled(p))
Stopped(p, t) ==
  Enabled(p) /\ t = "off" /\ ~p.timedOut => p.strayed \/ p.poll \in Terminal
Overtaken(p, ls) == Differs(p) /\ ls = EmptyBag => p.failed
Cut(p, st) == st # EmptyBag => p.strayed

(* Elsewhere than on the page of a certificate nothing is on its way. *)
Blank ==
  at # "detail" =>
    /\ page.poll = None /\ page.status = None /\ tick = "off"
    /\ loads = EmptyBag /\ strays = EmptyBag /\ revokes = NoRevokes

DetailInv ==
  /\ Blank /\ Truth(page, loads, strays) /\ Claims(tick, page.id)
  /\ at = "detail" => Born(page.id)
  /\ Linked(page, tick) /\ Stopped(page, tick)
  /\ Overtaken(page, loads) /\ Cut(page, strays)

(* A revocation on its way is of a certificate that exists. *)
RevokesInv ==
  /\ \A k \in Slot : revokes[k].step # "unused" =>
       /\ revokes[k].of \in Cert /\ revokes[k].id \in Cert /\ Born(revokes[k].id)
       /\ ~page.moved => revokes[k].id = page.id
  /\ dialog.submitting => \E k \in Slot : revokes[k].mine

(* A certificate exists once its submission was accepted, and not before. *)
FormsInv ==
  \A n \in New :
    /\ sub[n].step \in {"unused", "asked"} => ~Born(n)
    /\ sub[n].step = "created" => Born(n)
    /\ sub[n].mine => sub[n].step \in {"asked", "created"}

IssuerInv == TypeOK /\ DetailInv /\ RevokesInv /\ FormsInv /\ BatchFollowed

LEMMA Words ==
  /\ None \notin CertState /\ Unborn \notin CertState /\ "off" \notin CertState
  /\ "timer" \notin CertState /\ "sent" \notin CertState
  /\ Terminal \subseteq CertState /\ NonTerminal \subseteq CertState
  /\ Terminal \cap NonTerminal = {} /\ CertState = Terminal \cup NonTerminal
  /\ None \notin NonTerminal
  BY DEF None, Unborn, CertState, Terminal, NonTerminal, Issuing

LEMMA IssuerPromise == IssuerInv => StaysInTouch /\ ControlsAreHonest
<1> SUFFICES ASSUME IssuerInv PROVE StaysInTouch /\ ControlsAreHonest
  OBVIOUS
<1> USE DEF IssuerInv
<1>1. page \in Page
  BY DEF TypeOK, Page
<1>2. StillFollowed
  <2> SUFFICES ASSUME Panel = "record", Shown \in NonTerminal, tick = "off",
                      loads = EmptyBag, ~page.strayed
               PROVE  OffersRefresh
    BY DEF StillFollowed
  <2>1. ~page.failed /\ page.of # None /\ page.status # None
    BY DEF Panel, DetailInv, Truth, Known
  <2>2. ~Differs(page)
    BY <2>1 DEF DetailInv, Overtaken
  <2>3. page.status \in NonTerminal /\ (page.poll = None \/ page.poll = page.status)
    BY <2>1, <2>2 DEF Differs, Shown
  <2>4. page.poll \notin Terminal
    BY <2>3, Words
  <2>5. page.timedOut /\ ~page.polling
    BY <1>1, <2>3, <2>4 DEF DetailInv, Stopped, Linked, Enabled, Page
  <2> QED
    BY <2>5 DEF OffersRefresh
<1>3. PollingIsReal
  BY DEF PollingIsReal, DetailInv, Linked
<1>4. OffersOnlyAnchored
  <2> SUFFICES ASSUME ~page.moved, OffersDocument \/ OffersRevoke
               PROVE  state[page.of] \notin NotPublic
    BY DEF OffersOnlyAnchored
  <2>1. Panel = "record" /\ Shown \in {"ACTIVE", "REVOKED"}
    BY DEF OffersDocument, OffersRevoke
  <2>2. page.of # None /\ page.of = page.id
    BY <2>1 DEF Panel, DetailInv, Truth, Known
  <2> QED
    BY <2>1, <2>2 DEF DetailInv, Truth, Known, Shown, Claims, Public, NotPublic
<1>5. DisabledWhileAsked
  BY DEF DisabledWhileAsked, FormsInv, RevokesInv
<1> QED
  BY <1>2, <1>3, <1>4, <1>5 DEF StaysInTouch, ControlsAreHonest

-----------------------------------------------------------------------------
LEMMA NoPageIs ==
  ASSUME NEW c \in Cert
  PROVE  /\ NoPage(c) \in Page /\ NoPage(c).id = c /\ NoPage(c).of = None
         /\ NoPage(c).poll = None /\ NoPage(c).status = None
         /\ ~NoPage(c).polling /\ ~NoPage(c).strayed /\ ~NoPage(c).moved
  BY DEF NoPage, Page

LEMMA SomeCert == (CHOOSE c \in Cert : TRUE) \in Cert
  BY DEF Cert

Revocation == [of : Cert \cup {None}, id : Cert \cup {None},
               step : {"unused", "sent", "accepted"}, mine : BOOLEAN]

LEMMA NoRevokesIs ==
  /\ NoRevokes \in [Slot -> [of : Cert \cup {None}, id : Cert \cup {None},
                             step : {"unused", "sent", "accepted"}, mine : BOOLEAN]]
  /\ \A k \in Slot : NoRevokes[k].step = "unused" /\ ~NoRevokes[k].mine
  BY DEF NoRevokes, NoRevoke

(* A page that has just been opened, or left. *)
Opened(c) ==
  /\ page = NoPage(c) /\ tick = "off" /\ strays = EmptyBag
  /\ revokes = NoRevokes /\ dialog = Closed
  /\ \/ loads = EmptyBag
     \/ at = "detail" /\ loads = Plus(EmptyBag, <<c, "sent">>)
  /\ at = "detail" => Born(c)
Mounted ==
  /\ page \in Page /\ tick \in Tick /\ IsCalls(loads) /\ IsCalls(strays) /\ DetailInv
  /\ dialog \in [open : BOOLEAN, submitting : BOOLEAN]
  /\ revokes \in [Slot -> Revocation] /\ RevokesInv

LEMMA FreshPage == \A c \in Cert : Opened(c) => Mounted
<1> SUFFICES ASSUME NEW c \in Cert, Opened(c) PROVE Mounted
  OBVIOUS
<1> USE DEF Opened
<1>1. <<c, "sent">> \in Call
  BY DEF Call
<1>2. IsCalls(loads) /\ BagToSet(loads) \subseteq {<<c, "sent">>} /\ BagToSet(strays) = {}
      /\ IsCalls(strays)
  BY <1>1, EmptyIs, PlusIs
<1>3. BagToSet(loads) # {} => Born(c)
  BY EmptyIs
<1>4. page \in Page
  BY NoPageIs
<1>5. Truth(page, loads, strays)
  BY <1>2, <1>3, NoPageIs DEF Truth, Known, TrueCalls, CallsOf, Claims, None
<1>6. Linked(page, tick) /\ Stopped(page, tick) /\ Overtaken(page, loads) /\ Cut(page, strays)
  BY NoPageIs, Words DEF Linked, Stopped, Overtaken, Cut, Enabled, Differs
<1>7. Blank
  BY NoPageIs DEF Blank
<1>8. RevokesInv /\ revokes \in [Slot -> Revocation]
  BY NoRevokesIs DEF RevokesInv, Closed, Revocation
<1>9. Claims(tick, page.id) /\ (at = "detail" => Born(page.id))
  BY NoPageIs DEF Claims
<1>10. tick \in Tick /\ dialog \in [open : BOOLEAN, submitting : BOOLEAN]
  BY DEF Tick, Closed
<1> QED
  BY <1>2, <1>4, <1>5, <1>6, <1>7, <1>8, <1>9, <1>10 DEF DetailInv, Mounted

LEMMA IssuerInitially == Init => IssuerInv
<1> SUFFICES ASSUME Init PROVE IssuerInv
  OBVIOUS
<1> USE DEF Init
<1>1. Mounted
  BY SomeCert, FreshPage DEF Opened
<1>2. state \in [Cert -> CertState \cup {Unborn}]
  BY DEF Issuing, CertState
<1>3. FormsInv
  BY DEF FormsInv, Born, Cert
<1>4. TypeOK
  BY <1>1, <1>2 DEF TypeOK, Mounted, Page, Tick, Revocation, NoBatch, JobStatus
<1>5. BatchFollowed
  BY DEF BatchFollowed, NoBatch, Unfinished, None
<1> QED
  BY <1>1, <1>3, <1>4, <1>5 DEF IssuerInv, Mounted

-----------------------------------------------------------------------------
(* Commit, part by part. *)
Starts(p) == Enabled(p) /\ (~Enabled(page) \/ p.id # page.id)
Stops(p) == ~Enabled(p) /\ Enabled(page)
Cuts(p, t) == (Starts(p) \/ Stops(p)) /\ t \notin {"off", "timer"}

LEMMA CommitIs ==
  ASSUME page \in Page, NEW p \in Page, NEW t \in Tick, NEW ls, IsCalls(ls),
         NEW st, IsCalls(st), NEW fresh \in BOOLEAN, Commit(p, t, ls, st, fresh)
  PROVE  /\ page' \in Page /\ tick' \in Tick /\ IsCalls(loads') /\ IsCalls(strays')
         /\ page'.id = p.id /\ page'.of = p.of /\ page'.status = p.status
         /\ page'.failed = p.failed /\ page'.poll = p.poll /\ page'.moved = p.moved
         /\ page'.polling = (Starts(p) \/ (p.polling /\ Enabled(p)))
         /\ page'.timedOut = (p.timedOut /\ ~Starts(p))
         /\ page'.strayed = (p.strayed \/ Cuts(p, t))
         /\ tick' = IF Starts(p) THEN "sent" ELSE IF Stops(p) THEN "off" ELSE t
         /\ strays' = st \/ (Cuts(p, t) /\ strays' = Plus(st, <<page.id, t>>))
         /\ loads' = ls \/ (Differs(p) /\ loads' = Plus(ls, <<p.id, "sent">>))
         /\ fresh /\ Differs(p) => loads' # EmptyBag
<1>1. Starts(p) \in BOOLEAN /\ Stops(p) \in BOOLEAN /\ Cuts(p, t) \in BOOLEAN
      /\ Enabled(p) \in BOOLEAN
  BY DEF Starts, Stops, Cuts, Enabled
<1>2. /\ page' = [p EXCEPT !.polling = Starts(p) \/ (p.polling /\ Enabled(p)),
                           !.timedOut = p.timedOut /\ ~Starts(p),
                           !.ticks = IF Starts(p) THEN 0 ELSE p.ticks,
                           !.strayed = p.strayed \/ Cuts(p, t)]
      /\ tick' = IF Starts(p) THEN "sent" ELSE IF Stops(p) THEN "off" ELSE t
      /\ strays' = IF Cuts(p, t) /\ BagCardinality(st) < MaxStrays
                     THEN Plus(st, <<page.id, t>>) ELSE st
      /\ IF fresh /\ Differs(p) /\ (BagCardinality(ls) < MaxLoads \/ p.id \notin Sent(ls))
           THEN BagCardinality(ls) < MaxLoads /\ loads' = Plus(ls, <<p.id, "sent">>)
           ELSE BagCardinality(ls) <= MaxLoads /\ loads' = ls
  BY DEF Commit, Starts, Stops, Cuts, Page
<1>3. <<p.id, "sent">> \in Call
  BY DEF Call, Page
<1>4. IsCalls(loads') /\ (loads' = ls \/ (Differs(p) /\ loads' = Plus(ls, <<p.id, "sent">>)))
  BY <1>2, <1>3, PlusIs
<1>5. ASSUME fresh, Differs(p) PROVE loads' # EmptyBag
  <2>1. CASE loads' = Plus(ls, <<p.id, "sent">>)
    BY <2>1, <1>3, PlusIs
  <2>2. CASE loads' = ls /\ p.id \in Sent(ls)
    BY <2>2, EmptyIs DEF Sent, BagIn
  <2> QED
    BY <1>2, <1>5, <2>1, <2>2
<1>6. IsCalls(strays') /\ (strays' = st \/ (Cuts(p, t) /\ strays' = Plus(st, <<page.id, t>>)))
  <2>1. Cuts(p, t) => <<page.id, t>> \in Call
    BY DEF Cuts, Call, Page, Tick
  <2> QED
    BY <1>2, <2>1, PlusIs
<1>7. tick' \in Tick
  BY <1>2 DEF Tick
<1>8. /\ page' \in Page
      /\ page'.id = p.id /\ page'.of = p.of /\ page'.status = p.status
      /\ page'.failed = p.failed /\ page'.poll = p.poll /\ page'.moved = p.moved
      /\ page'.polling = (Starts(p) \/ (p.polling /\ Enabled(p)))
      /\ page'.timedOut = (p.timedOut /\ ~Starts(p))
      /\ page'.strayed = (p.strayed \/ Cuts(p, t))
  <2> DEFINE a == Starts(p) \/ (p.polling /\ Enabled(p))
             b == p.timedOut /\ ~Starts(p)
             c == IF Starts(p) THEN 0 ELSE p.ticks
             d == p.strayed \/ Cuts(p, t)
  <2>1. a \in BOOLEAN /\ b \in BOOLEAN /\ d \in BOOLEAN
    BY <1>1 DEF Page
  <2>2. c \in 0..MaxTicks
    BY <1>1 DEF Page
  <2>3. page' = [p EXCEPT !.polling = a, !.timedOut = b, !.ticks = c, !.strayed = d]
    BY <1>2
  <2> HIDE DEF a, b, c, d
  <2>4. /\ page' \in Page
        /\ page'.id = p.id /\ page'.of = p.of /\ page'.status = p.status
        /\ page'.failed = p.failed /\ page'.poll = p.poll /\ page'.moved = p.moved
        /\ page'.polling = a /\ page'.timedOut = b /\ page'.strayed = d
    BY <2>1, <2>2, <2>3 DEF Page
  <2> QED
    BY <2>4 DEF a, b, d
<1> QED
  BY <1>2, <1>4, <1>5, <1>6, <1>7, <1>8

(* What the page may become and still be told the truth. *)
LEMMA CommitKeeps ==
  ASSUME TypeOK, DetailInv, at = "detail", at' = at, state' = state,
         NEW p \in Page, NEW t \in Tick, NEW ls, IsCalls(ls), NEW st, IsCalls(st),
         NEW fresh \in BOOLEAN, Commit(p, t, ls, st, fresh),
         Born(p.id), p.id = page.id \/ p.moved, page.moved => p.moved,
         Truth(p, ls, st), Claims(t, page.id),
         Enabled(p) /\ Enabled(page) /\ p.id = page.id => (p.polling <=> t # "off"),
         ~Enabled(p) /\ ~Enabled(page) => t = "off",
         Enabled(page) => Stopped(p, t), ~fresh => Overtaken(p, ls), Cut(p, st)
  PROVE  /\ page' \in Page /\ tick' \in Tick /\ IsCalls(loads') /\ IsCalls(strays')
         /\ DetailInv'
<1> USE DEF DetailInv
<1>1. page \in Page
  BY DEF TypeOK, Page
<1>2. /\ page' \in Page /\ tick' \in Tick /\ IsCalls(loads') /\ IsCalls(strays')
      /\ page'.id = p.id /\ page'.of = p.of /\ page'.status = p.status
      /\ page'.failed = p.failed /\ page'.poll = p.poll /\ page'.moved = p.moved
      /\ page'.polling = (Starts(p) \/ (p.polling /\ Enabled(p)))
      /\ page'.timedOut = (p.timedOut /\ ~Starts(p))
      /\ page'.strayed = (p.strayed \/ Cuts(p, t))
      /\ tick' = IF Starts(p) THEN "sent" ELSE IF Stops(p) THEN "off" ELSE t
      /\ strays' = st \/ (Cuts(p, t) /\ strays' = Plus(st, <<page.id, t>>))
      /\ loads' = ls \/ (Differs(p) /\ loads' = Plus(ls, <<p.id, "sent">>))
      /\ fresh /\ Differs(p) => loads' # EmptyBag
  BY <1>1, CommitIs
<1>3. \A c : Born(c)' = Born(c) /\ \A s : Claims(s, c)' = Claims(s, c)
  BY DEF Born, Claims, Public
<1>4. p.polling \in BOOLEAN /\ p.strayed \in BOOLEAN /\ p.timedOut \in BOOLEAN
      /\ p.moved \in BOOLEAN
  BY DEF Page
<1>5. TrueCalls(loads)' /\ (~page'.moved => CallsOf(loads', page'.id))
  <2>1. <<p.id, "sent">> \in Call
    BY DEF Call, Page
  <2>2. BagToSet(loads') \subseteq BagToSet(ls) \cup {<<p.id, "sent">>}
    BY <1>2, <2>1, PlusIs
  <2>3. TrueCalls(ls) /\ (~p.moved => CallsOf(ls, p.id))
    BY DEF Truth
  <2> QED
    BY <1>2, <1>3, <2>2, <2>3 DEF TrueCalls, CallsOf, Claims
<1>6. TrueCalls(strays)' /\ (~page'.moved => CallsOf(strays', page'.id))
  <2>1. TrueCalls(st) /\ (~p.moved => CallsOf(st, p.id))
    BY DEF Truth
  <2>2. Cuts(p, t) => <<page.id, t>> \in Call
    BY <1>1 DEF Cuts, Call, Page, Tick
  <2>3. BagToSet(strays') \subseteq BagToSet(st) \cup {<<page.id, t>>}
    BY <1>2, <2>2, PlusIs
  <2> QED
    BY <1>2, <1>3, <2>1, <2>3 DEF TrueCalls, CallsOf
<1>7. Truth(page, loads, strays)'
  BY <1>2, <1>3, <1>5, <1>6 DEF Truth, Known
<1>8. Claims(tick, page.id)'
  BY <1>2, <1>3 DEF Claims, Starts, Stops
<1>9. Linked(page, tick)'
  BY <1>2, <1>4 DEF Linked, Starts, Stops, Enabled
<1>10. Stopped(page, tick)'
  BY <1>2, <1>4 DEF Stopped, Starts, Stops, Enabled
<1>11. Overtaken(page, loads)' /\ Cut(page, strays)'
  <2>1. loads' = EmptyBag => ls = EmptyBag
    BY <1>2, PlusIs DEF Call, Page
  <2> QED
    BY <1>2, <1>4, <2>1 DEF Overtaken, Cut, Differs
<1>12. Blank' /\ (at' = "detail" => Born(page.id)')
  BY <1>2, <1>3 DEF Blank
<1> QED
  BY <1>2, <1>7, <1>8, <1>9, <1>10, <1>11, <1>12

-----------------------------------------------------------------------------
(* Steps that leave the state of every certificate alone. *)
LEMMA PageStep ==
  ASSUME IssuerInv, UNCHANGED <<state, at, sub, batch>>,
         page' \in Page, tick' \in Tick, IsCalls(loads'), IsCalls(strays'), DetailInv',
         dialog' \in [open : BOOLEAN, submitting : BOOLEAN],
         revokes' \in [Slot -> Revocation], RevokesInv'
  PROVE  IssuerInv'
<1> USE DEF IssuerInv
<1>1. TypeOK'
  BY DEF TypeOK, Page, Tick, Revocation
<1>2. FormsInv' /\ BatchFollowed'
  BY DEF FormsInv, BatchFollowed, Born
<1> QED
  BY <1>1, <1>2

LEMMA RevokesStay ==
  ASSUME IssuerInv, UNCHANGED <<state, dialog, revokes>>, page'.id = page.id,
         page.moved => page'.moved
  PROVE  /\ dialog' \in [open : BOOLEAN, submitting : BOOLEAN]
         /\ revokes' \in [Slot -> Revocation] /\ RevokesInv'
  BY DEF IssuerInv, TypeOK, RevokesInv, Revocation, Born

(* One commit on the page of a certificate, with the dialog left alone. *)
LEMMA CommitStep ==
  ASSUME IssuerInv, at = "detail", UNCHANGED <<state, at, sub, batch, dialog, revokes>>,
         NEW p \in Page, NEW t \in Tick, NEW ls, IsCalls(ls), NEW st, IsCalls(st),
         NEW fresh \in BOOLEAN, Commit(p, t, ls, st, fresh),
         p.id = page.id, page.moved => p.moved,
         Truth(p, ls, st), Claims(t, page.id),
         Enabled(p) /\ Enabled(page) => (p.polling <=> t # "off"),
         ~Enabled(p) /\ ~Enabled(page) => t = "off",
         Enabled(page) => Stopped(p, t), ~fresh => Overtaken(p, ls), Cut(p, st)
  PROVE  IssuerInv'
<1>1. TypeOK /\ DetailInv /\ page \in Page /\ Born(p.id)
  BY DEF IssuerInv, TypeOK, Page, DetailInv
<1>2. page' \in Page /\ tick' \in Tick /\ IsCalls(loads') /\ IsCalls(strays') /\ DetailInv'
  BY <1>1, CommitKeeps
<1>3. page'.id = p.id /\ page'.moved = p.moved
  BY <1>1, CommitIs
<1> QED
  BY <1>2, <1>3, PageStep, RevokesStay

LEMMA OnTheWay ==
  ASSUME IssuerInv, loads # EmptyBag \/ strays # EmptyBag \/ tick # "off"
                    \/ \E k \in Slot : revokes[k].step # "unused"
  PROVE  at = "detail"
  BY NoRevokesIs DEF IssuerInv, DetailInv, Blank

LEMMA AnsweredIs ==
  ASSUME NEW b, IsCalls(b), NEW k \in Answered(b)
  PROVE  /\ k \in BagToSet(b) /\ k[1] \in Cert /\ k[2] \in CertState /\ b # EmptyBag
  BY EmptyIs DEF Answered, IsCalls, Call

LEMMA SentIs ==
  ASSUME NEW b, NEW c \in Sent(b)
  PROVE  c \in Cert /\ <<c, "sent">> \in BagToSet(b) /\ b # EmptyBag
  BY EmptyIs DEF Sent, BagIn

LEMMA LessTrue ==
  ASSUME NEW b, IsCalls(b), NEW k
  PROVE  /\ IsCalls(Less(b, k)) /\ (TrueCalls(b) => TrueCalls(Less(b, k)))
         /\ \A c : CallsOf(b, c) => CallsOf(Less(b, k), c)
  BY LessIs DEF TrueCalls, CallsOf

LEMMA PlusTrue ==
  ASSUME NEW b, IsCalls(b), NEW c \in Cert, NEW s \in CertState \cup {"sent"},
         Born(c), Claims(s, c)
  PROVE  LET more == Plus(b, <<c, s>>) IN
         /\ IsCalls(more) /\ more # EmptyBag
         /\ TrueCalls(b) => TrueCalls(more)
         /\ CallsOf(b, c) => CallsOf(more, c)
<1>1. <<c, s>> \in Call
  BY DEF Call
<1> QED
  BY <1>1, PlusIs DEF TrueCalls, CallsOf

LEMMA LoadedKeeps == ASSUME IssuerInv, Loaded PROVE IssuerInv'
<1> USE DEF IssuerInv, DetailInv
<1>1. page \in Page /\ tick \in Tick /\ IsCalls(loads) /\ IsCalls(strays)
  BY DEF TypeOK, Page, Tick
<1>2. PICK k \in Answered(loads) :
         Commit([page EXCEPT !.of = k[1], !.status = k[2], !.loading = FALSE, !.failed = FALSE],
                tick, Less(loads, k), strays, TRUE)
  BY DEF Loaded
<1>3. UNCHANGED <<state, at, sub, batch, dialog, revokes>>
  BY DEF Loaded, SameServer
<1>4. k \in BagToSet(loads) /\ k[1] \in Cert /\ k[2] \in CertState /\ loads # EmptyBag
  BY <1>1, AnsweredIs
<1>5. at = "detail"
  BY <1>4, OnTheWay
<1> DEFINE p == [page EXCEPT !.of = k[1], !.status = k[2], !.loading = FALSE, !.failed = FALSE]
<1>6. /\ p \in Page /\ p.id = page.id /\ p.moved = page.moved /\ p.poll = page.poll
      /\ p.of = k[1] /\ p.status = k[2] /\ p.polling = page.polling
      /\ p.timedOut = page.timedOut /\ p.strayed = page.strayed
  BY <1>1, <1>4 DEF Page
<1>7. Commit(p, tick, Less(loads, k), strays, TRUE)
  BY <1>2
<1> HIDE DEF p
<1>8. Born(k[1]) /\ Claims(k[2], k[1]) /\ (~page.moved => k[1] = page.id)
  BY <1>4 DEF Truth, TrueCalls, CallsOf
<1>9. Known(p)
  BY <1>4, <1>6, <1>8, Words DEF Known, Truth
<1>10. Truth(p, Less(loads, k), strays) /\ IsCalls(Less(loads, k))
  BY <1>1, <1>6, <1>9, LessTrue DEF Truth
<1>11. /\ Enabled(p) /\ Enabled(page) => (p.polling <=> tick # "off")
       /\ ~Enabled(p) /\ ~Enabled(page) => tick = "off"
       /\ Enabled(page) => Stopped(p, tick)
       /\ Cut(p, strays)
  BY <1>6 DEF Linked, Stopped, Cut
<1> QED
  BY <1>1, <1>3, <1>5, <1>6, <1>7, <1>10, <1>11, CommitStep

LEMMA PolledKeeps == ASSUME IssuerInv, Polled \/ PollFails PROVE IssuerInv'
<1> USE DEF IssuerInv, DetailInv
<1>1. page \in Page /\ tick \in Tick /\ IsCalls(loads) /\ IsCalls(strays)
  BY DEF TypeOK, Page, Tick
<1>2. UNCHANGED <<state, at, sub, batch, dialog, revokes>>
  BY DEF Polled, PollFails, SameServer
<1>3. tick # "off" /\ at = "detail" /\ Enabled(page)
  BY Words, OnTheWay DEF Polled, PollFails, Linked
<1>4. ASSUME NEW s \in CertState \cup {None}, Claims(s, page.id) \/ s = page.poll,
             NEW polling \in BOOLEAN, NEW timedOut \in BOOLEAN, NEW ticks \in 0..MaxTicks,
             NEW t \in {"off", "timer"}, NEW fresh \in BOOLEAN,
             polling <=> t # "off", t = "off" => timedOut \/ s \in Terminal,
             fresh \/ s = page.poll,
             Commit([page EXCEPT !.poll = s, !.polling = polling, !.timedOut = timedOut,
                                 !.ticks = ticks], t, loads, strays, fresh)
      PROVE  IssuerInv'
  <2> DEFINE p == [page EXCEPT !.poll = s, !.polling = polling, !.timedOut = timedOut,
                               !.ticks = ticks]
  <2>1. /\ p \in Page /\ p.id = page.id /\ p.moved = page.moved /\ p.poll = s
        /\ p.of = page.of /\ p.status = page.status /\ p.polling = polling
        /\ p.timedOut = timedOut /\ p.strayed = page.strayed /\ p.failed = page.failed
    BY <1>1 DEF Page
  <2>2. Commit(p, t, loads, strays, fresh)
    BY <1>4
  <2> HIDE DEF p
  <2>3. Truth(p, loads, strays)
    BY <1>4, <2>1 DEF Truth, Known
  <2>4. Claims(t, page.id) /\ t \in Tick
    BY DEF Claims, Tick
  <2>5. /\ Enabled(p) /\ Enabled(page) => (p.polling <=> t # "off")
        /\ ~Enabled(p) /\ ~Enabled(page) => t = "off"
        /\ Enabled(page) => Stopped(p, t)
        /\ ~fresh => Overtaken(p, loads)
        /\ Cut(p, strays)
    BY <1>3, <1>4, <2>1 DEF Stopped, Cut, Overtaken, Differs
  <2> QED
    BY <1>1, <1>2, <1>3, <2>1, <2>2, <2>3, <2>4, <2>5, CommitStep
<1>5. page.polling = TRUE /\ page.timedOut \in BOOLEAN /\ page.ticks \in 0..MaxTicks
      /\ page.poll \in CertState \cup {None}
  BY <1>1, <1>3 DEF Linked, Page
<1>6. ASSUME NEW s \in CertState \cup {None}, Claims(s, page.id) \/ s = page.poll,
             NEW fresh \in BOOLEAN, fresh \/ s = page.poll,
             Continues([page EXCEPT !.poll = s], fresh)
      PROVE  IssuerInv'
  <2>1. CASE /\ page.ticks < MaxTicks
             /\ Commit([page EXCEPT !.poll = s, !.polling = TRUE, !.timedOut = page.timedOut,
                                    !.ticks = page.ticks + 1], "timer", loads, strays, fresh)
    <3>1. page.ticks + 1 \in 0..MaxTicks
      BY <1>5, <2>1
    <3> QED
      BY <1>4, <1>5, <1>6, <2>1, <3>1
  <2>2. CASE Commit([page EXCEPT !.poll = s, !.polling = FALSE, !.timedOut = TRUE,
                                 !.ticks = page.ticks], "off", loads, strays, fresh)
    BY <1>4, <1>5, <1>6, <2>2
  <2>3. /\ [[page EXCEPT !.poll = s] EXCEPT !.ticks = page.ticks + 1]
              = [page EXCEPT !.poll = s, !.polling = TRUE, !.timedOut = page.timedOut,
                             !.ticks = page.ticks + 1]
        /\ [[page EXCEPT !.poll = s] EXCEPT !.polling = FALSE, !.timedOut = TRUE]
              = [page EXCEPT !.poll = s, !.polling = FALSE, !.timedOut = TRUE,
                             !.ticks = page.ticks]
        /\ [page EXCEPT !.poll = s].ticks = page.ticks
    BY <1>1, <1>5 DEF Page
  <2> QED
    BY <1>6, <2>1, <2>2, <2>3 DEF Continues
<1>7. CASE Polled
  <2>1. tick \in CertState /\ Claims(tick, page.id)
    BY <1>7 DEF Polled
  <2>2. CASE tick \in Terminal
    <3>1. Commit([page EXCEPT !.poll = tick, !.polling = FALSE], "off", loads, strays, TRUE)
      BY <1>7, <2>2 DEF Polled
    <3>2. [page EXCEPT !.poll = tick, !.polling = FALSE]
            = [page EXCEPT !.poll = tick, !.polling = FALSE, !.timedOut = page.timedOut,
                           !.ticks = page.ticks]
      BY <1>1 DEF Page
    <3> QED
      BY <1>4, <1>5, <2>1, <2>2, <3>1, <3>2
  <2>3. CASE tick \notin Terminal
    <3>1. Continues([page EXCEPT !.poll = tick], TRUE)
      BY <1>7, <2>3 DEF Polled
    <3> QED
      BY <1>6, <2>1, <3>1
  <2> QED
    BY <2>2, <2>3
<1>8. CASE PollFails
  <2>1. page = [page EXCEPT !.poll = page.poll] /\ Continues(page, FALSE)
    BY <1>1, <1>8 DEF Page, PollFails
  <2> QED
    BY <1>5, <1>6, <2>1
<1> QED
  BY <1>7, <1>8

(* A page that changes its record gives its requests up. *)
LEMMA RevokesForgotten ==
  ASSUME IssuerInv, UNCHANGED state, page'.id = page.id \/ page'.moved,
         page.moved => page'.moved,
         dialog' = [dialog EXCEPT !.submitting = FALSE], revokes' = Orphaned(revokes)
  PROVE  /\ dialog' \in [open : BOOLEAN, submitting : BOOLEAN]
         /\ revokes' \in [Slot -> Revocation] /\ RevokesInv'
<1>1. revokes \in [Slot -> Revocation]
  BY DEF IssuerInv, TypeOK, Revocation
<1>2. \A k \in Slot :
         LET r == [revokes[k] EXCEPT !.mine = FALSE]
         IN  r \in Revocation /\ r.step = revokes[k].step /\ r.of = revokes[k].of
             /\ r.id = revokes[k].id
  BY <1>1 DEF Revocation
<1>3. revokes' \in [Slot -> Revocation]
      /\ \A k \in Slot : /\ revokes'[k].step = revokes[k].step
                         /\ revokes'[k].of = revokes[k].of /\ revokes'[k].id = revokes[k].id
  BY <1>2 DEF Orphaned
<1>4. dialog' \in [open : BOOLEAN, submitting : BOOLEAN] /\ ~dialog'.submitting
  BY DEF IssuerInv, TypeOK
<1> QED
  BY <1>3, <1>4 DEF IssuerInv, RevokesInv, Born

LEMMA LoadFailsKeeps == ASSUME IssuerInv, LoadFails PROVE IssuerInv'
<1> USE DEF IssuerInv, DetailInv
<1>1. page \in Page /\ tick \in Tick /\ IsCalls(loads) /\ IsCalls(strays) /\ TypeOK
  BY DEF TypeOK, Page, Tick
<1> DEFINE p == [page EXCEPT !.loading = FALSE, !.failed = TRUE]
<1>2. PICK c \in Sent(loads) : Commit(p, tick, Less(loads, <<c, "sent">>), strays, FALSE)
  BY DEF LoadFails
<1>3. UNCHANGED <<state, at, sub, batch>>
  BY DEF LoadFails, SameServer
<1>4. at = "detail"
  BY SentIs, OnTheWay
<1>5. /\ p \in Page /\ p.id = page.id /\ p.moved = page.moved /\ p.poll = page.poll
      /\ p.of = page.of /\ p.status = page.status /\ p.polling = page.polling
      /\ p.timedOut = page.timedOut /\ p.strayed = page.strayed /\ p.failed
  BY <1>1 DEF Page
<1> HIDE DEF p
<1> DEFINE ls == Less(loads, <<c, "sent">>)
<1>6. IsCalls(ls) /\ Truth(p, ls, strays)
  BY <1>1, <1>5, LessTrue DEF Truth, Known
<1> HIDE DEF ls
<1>7. Commit(p, tick, ls, strays, FALSE)
  BY <1>2 DEF ls
<1>8. /\ Enabled(p) /\ Enabled(page) => (p.polling <=> tick # "off")
      /\ ~Enabled(p) /\ ~Enabled(page) => tick = "off"
      /\ Enabled(page) => Stopped(p, tick)
      /\ Overtaken(p, ls) /\ Cut(p, strays)
  BY <1>5 DEF Linked, Stopped, Cut, Overtaken
<1>9. page' \in Page /\ tick' \in Tick /\ IsCalls(loads') /\ IsCalls(strays') /\ DetailInv'
  BY <1>1, <1>3, <1>4, <1>5, <1>6, <1>7, <1>8, CommitKeeps
<1>10. page'.id = p.id /\ page'.moved = p.moved
  BY <1>1, <1>5, <1>6, <1>7, CommitIs
<1>11. /\ dialog' \in [open : BOOLEAN, submitting : BOOLEAN]
       /\ revokes' \in [Slot -> Revocation] /\ RevokesInv'
  BY <1>3, <1>5, <1>10, RevokesForgotten DEF LoadFails
<1> QED
  BY <1>3, <1>9, <1>11, PageStep

LEMMA StrayPolledKeeps == ASSUME IssuerInv, StrayPolled PROVE IssuerInv'
<1> USE DEF IssuerInv, DetailInv
<1>1. page \in Page /\ tick \in Tick /\ IsCalls(loads) /\ IsCalls(strays)
  BY DEF TypeOK, Page, Tick
<1>2. PICK k \in Answered(strays) :
         Commit([page EXCEPT !.poll = k[2]], tick, loads, Less(strays, k), TRUE)
  BY DEF StrayPolled
<1>3. UNCHANGED <<state, at, sub, batch, dialog, revokes>>
  BY DEF StrayPolled, SameServer
<1>4. k \in BagToSet(strays) /\ k[1] \in Cert /\ k[2] \in CertState /\ strays # EmptyBag
  BY <1>1, AnsweredIs
<1>5. at = "detail" /\ page.strayed
  BY <1>4, OnTheWay DEF Cut
<1> DEFINE p == [page EXCEPT !.poll = k[2]]
<1>6. /\ p \in Page /\ p.id = page.id /\ p.moved = page.moved /\ p.poll = k[2]
      /\ p.of = page.of /\ p.status = page.status /\ p.polling = page.polling
      /\ p.timedOut = page.timedOut /\ p.strayed = page.strayed
  BY <1>1, <1>4 DEF Page
<1>7. Commit(p, tick, loads, Less(strays, k), TRUE)
  BY <1>2
<1> HIDE DEF p
<1>8. Known(p)
  BY <1>4, <1>6 DEF Known, Truth, TrueCalls, CallsOf
<1>9. Truth(p, loads, Less(strays, k)) /\ IsCalls(Less(strays, k))
  BY <1>1, <1>6, <1>8, LessTrue DEF Truth
<1>10. /\ Enabled(p) /\ Enabled(page) => (p.polling <=> tick # "off")
       /\ ~Enabled(p) /\ ~Enabled(page) => tick = "off"
       /\ Stopped(p, tick) /\ Cut(p, Less(strays, k))
  BY <1>5, <1>6 DEF Linked, Stopped, Cut, Enabled
<1> QED
  BY <1>1, <1>3, <1>5, <1>6, <1>7, <1>9, <1>10, CommitStep

LEMMA TryAgainKeeps == ASSUME IssuerInv, TryAgain PROVE IssuerInv'
<1> USE DEF IssuerInv, DetailInv
<1>1. page \in Page /\ tick \in Tick /\ IsCalls(loads) /\ IsCalls(strays)
  BY DEF TypeOK, Page, Tick
<1>2. UNCHANGED <<state, at, sub, batch, dialog, revokes>> /\ at = "detail"
  BY DEF TryAgain, SameServer
<1> DEFINE ls == Plus(loads, <<page.id, "sent">>)
<1>3. page.id \in Cert /\ Born(page.id) /\ Claims("sent", page.id)
  BY <1>1, <1>2 DEF Page, Claims
<1>4. IsCalls(ls) /\ ls # EmptyBag /\ Truth(page, ls, strays)
  BY <1>1, <1>3, PlusTrue DEF Truth
<1>5. Commit(page, tick, ls, strays, FALSE)
  BY DEF TryAgain
<1> HIDE DEF ls
<1>6. /\ Enabled(page) => (page.polling <=> tick # "off")
      /\ ~Enabled(page) => tick = "off"
      /\ Overtaken(page, ls) /\ Cut(page, strays) /\ Stopped(page, tick)
  BY <1>4 DEF Linked, Overtaken
<1> QED
  BY <1>1, <1>2, <1>4, <1>5, <1>6, CommitStep

LEMMA RetryKeeps == ASSUME IssuerInv, handleRetry PROVE IssuerInv'
<1> USE DEF IssuerInv, DetailInv
<1>1. page \in Page /\ tick \in Tick /\ IsCalls(loads) /\ IsCalls(strays)
  BY DEF TypeOK, Page, Tick
<1>2. UNCHANGED <<state, at, sub, batch, dialog, revokes>> /\ at = "detail"
  BY DEF handleRetry, SameServer
<1> DEFINE p == [page EXCEPT !.timedOut = FALSE, !.strayed = TRUE]
           ls == Plus(loads, <<page.id, "sent">>)
           st == Plus(strays, <<page.id, "sent">>)
<1>3. page.id \in Cert /\ Born(page.id) /\ Claims("sent", page.id)
  BY <1>1, <1>2 DEF Page, Claims
<1>4. /\ IsCalls(ls) /\ ls # EmptyBag /\ IsCalls(st)
      /\ TrueCalls(ls) /\ TrueCalls(st)
      /\ ~page.moved => CallsOf(ls, page.id) /\ CallsOf(st, page.id)
  BY <1>1, <1>3, PlusTrue DEF Truth
<1>5. Commit(p, tick, ls, st, FALSE)
  BY DEF handleRetry
<1>6. /\ p \in Page /\ p.id = page.id /\ p.moved = page.moved /\ p.poll = page.poll
      /\ p.of = page.of /\ p.status = page.status /\ p.polling = page.polling /\ p.strayed
  BY <1>1 DEF Page
<1> HIDE DEF p, ls, st
<1>7. Truth(p, ls, st)
  BY <1>4, <1>6 DEF Truth, Known
<1>8. /\ Enabled(p) /\ Enabled(page) => (p.polling <=> tick # "off")
      /\ ~Enabled(p) /\ ~Enabled(page) => tick = "off"
      /\ Overtaken(p, ls) /\ Cut(p, st) /\ Stopped(p, tick)
  BY <1>4, <1>6 DEF Linked, Overtaken, Cut, Stopped, Enabled
<1> QED
  BY <1>1, <1>2, <1>4, <1>5, <1>6, <1>7, <1>8, CommitStep

(* Steps that do not render the page. *)
LEMMA RequestStep ==
  ASSUME IssuerInv, at = "detail", UNCHANGED <<state, at, page, sub, batch, dialog, revokes>>,
         tick' \in Tick, Claims(tick', page.id), tick' = "off" <=> tick = "off",
         IsCalls(loads'), TrueCalls(loads'), ~page.moved => CallsOf(loads', page.id),
         IsCalls(strays'), TrueCalls(strays'), ~page.moved => CallsOf(strays', page.id),
         loads' = EmptyBag => loads = EmptyBag, strays = EmptyBag => strays' = EmptyBag
  PROVE  IssuerInv'
<1>1. \A c : Born(c)' = Born(c) /\ \A s : Claims(s, c)' = Claims(s, c)
  BY DEF Born, Claims, Public
<1>2. page \in Page
  BY DEF IssuerInv, TypeOK, Page
<1>3. Truth(page, loads, strays)' /\ Claims(tick, page.id)'
  BY <1>1 DEF IssuerInv, DetailInv, Truth, Known, TrueCalls, CallsOf
<1>4. (Linked(page, tick) /\ Stopped(page, tick) /\ Overtaken(page, loads) /\ Cut(page, strays))'
  BY DEF IssuerInv, DetailInv, Linked, Stopped, Overtaken, Cut, Differs, Enabled
<1>5. DetailInv'
  BY <1>1, <1>3, <1>4 DEF IssuerInv, DetailInv, Blank
<1> QED
  BY <1>2, <1>5, PageStep, RevokesStay

LEMMA ServeKeeps == ASSUME IssuerInv, Serve PROVE IssuerInv'
<1> USE DEF IssuerInv, DetailInv
<1>1. /\ page \in Page /\ tick \in Tick /\ IsCalls(loads) /\ IsCalls(strays)
      /\ \A c \in Cert : state[c] \in CertState \cup {Unborn}
  BY DEF TypeOK, Page, Tick
<1>2. UNCHANGED <<state, at, page, sub, batch, dialog, revokes>>
  BY DEF Serve, SameServer
<1>3. \A c \in Cert : Born(c) => state[c] \in CertState /\ Claims(state[c], c)
  BY <1>1 DEF Born, Claims, Public
<1>4. ASSUME NEW b, IsCalls(b), TrueCalls(b), ~page.moved => CallsOf(b, page.id),
             NEW c \in Sent(b)
      PROVE  /\ IsCalls(Sampled(b, c)) /\ TrueCalls(Sampled(b, c))
             /\ ~page.moved => CallsOf(Sampled(b, c), page.id)
             /\ Sampled(b, c) # EmptyBag /\ b # EmptyBag
  <2>1. c \in Cert /\ <<c, "sent">> \in BagToSet(b) /\ b # EmptyBag
    BY SentIs
  <2>2. Born(c) /\ (~page.moved => c = page.id)
    BY <1>4, <2>1 DEF TrueCalls, CallsOf
  <2>3. state[c] \in CertState /\ Claims(state[c], c)
    BY <1>3, <2>1, <2>2
  <2> DEFINE less == Less(b, <<c, "sent">>)
  <2>4. IsCalls(less) /\ TrueCalls(less) /\ (~page.moved => CallsOf(less, page.id))
    BY <1>4, LessTrue
  <2> HIDE DEF less
  <2>5. Sampled(b, c) = Plus(less, <<c, state[c]>>)
    BY DEF Sampled, less
  <2> QED
    BY <2>1, <2>2, <2>3, <2>4, <2>5, PlusTrue
<1>5. CASE \E c \in Sent(loads) : loads' = Sampled(loads, c) /\ UNCHANGED <<tick, strays>>
  <2>1. PICK c \in Sent(loads) : loads' = Sampled(loads, c) /\ UNCHANGED <<tick, strays>>
    BY <1>5
  <2>2. at = "detail"
    BY SentIs, OnTheWay
  <2> QED
    BY <1>1, <1>2, <1>4, <2>1, <2>2, RequestStep DEF Truth
<1>6. CASE \E c \in Sent(strays) : strays' = Sampled(strays, c) /\ UNCHANGED <<tick, loads>>
  <2>1. PICK c \in Sent(strays) : strays' = Sampled(strays, c) /\ UNCHANGED <<tick, loads>>
    BY <1>6
  <2>2. at = "detail"
    BY SentIs, OnTheWay
  <2> QED
    BY <1>1, <1>2, <1>4, <2>1, <2>2, RequestStep DEF Truth
<1>7. CASE tick = "sent" /\ tick' = state[page.id] /\ UNCHANGED <<loads, strays>>
  <2>1. at = "detail" /\ page.id \in Cert /\ Born(page.id)
    BY <1>1, <1>7, OnTheWay DEF Page
  <2>2. tick' \in CertState /\ Claims(tick', page.id)
    BY <1>3, <1>7, <2>1
  <2> QED
    BY <1>1, <1>2, <1>7, <2>1, <2>2, Words, RequestStep DEF Truth, Tick
<1> QED
  BY <1>5, <1>6, <1>7 DEF Serve

LEMMA TimerFiresKeeps == ASSUME IssuerInv, TimerFires PROVE IssuerInv'
<1>1. /\ tick = "timer" /\ tick' = "sent"
      /\ UNCHANGED <<state, at, page, loads, strays, sub, batch, dialog, revokes>>
  BY DEF TimerFires, SameServer
<1>2. at = "detail" /\ Claims(tick', page.id) /\ tick' \in Tick
  BY <1>1, OnTheWay DEF Claims, Tick
<1> QED
  BY <1>1, <1>2, RequestStep DEF IssuerInv, TypeOK, DetailInv, Truth

LEMMA StrayFailsKeeps == ASSUME IssuerInv, StrayFails PROVE IssuerInv'
<1>1. PICK c \in Sent(strays) : strays' = Less(strays, <<c, "sent">>)
  BY DEF StrayFails
<1>2. UNCHANGED <<state, at, page, tick, loads, sub, batch, dialog, revokes>>
  BY DEF StrayFails, SameServer
<1>3. IsCalls(strays) /\ IsCalls(loads) /\ tick \in Tick
  BY DEF IssuerInv, TypeOK, Tick
<1>4. at = "detail" /\ strays # EmptyBag
  BY SentIs, OnTheWay
<1>5. IsCalls(strays') /\ TrueCalls(strays') /\ (~page.moved => CallsOf(strays', page.id))
  BY <1>1, <1>3, LessTrue DEF IssuerInv, DetailInv, Truth
<1> QED
  BY <1>2, <1>3, <1>4, <1>5, RequestStep DEF IssuerInv, DetailInv, Truth

-----------------------------------------------------------------------------
(* The dialog. *)

(* Steps of the dialog alone. *)
LEMMA DialogStep ==
  ASSUME IssuerInv, at = "detail",
         UNCHANGED <<state, at, page, tick, loads, strays, sub, batch>>,
         dialog' \in [open : BOOLEAN, submitting : BOOLEAN],
         revokes' \in [Slot -> Revocation], RevokesInv'
  PROVE  IssuerInv'
<1>1. \A c : Born(c)' = Born(c) /\ \A s : Claims(s, c)' = Claims(s, c)
  BY DEF Born, Claims, Public
<1>2. /\ page \in Page /\ tick \in Tick /\ IsCalls(loads) /\ IsCalls(strays)
      /\ page' = page /\ tick' = tick /\ loads' = loads /\ strays' = strays
  BY DEF IssuerInv, TypeOK, Page, Tick
<1>3. Truth(page, loads, strays)' /\ Claims(tick, page.id)'
  BY <1>1, <1>2 DEF IssuerInv, DetailInv, Truth, Known, TrueCalls, CallsOf
<1>4. (Linked(page, tick) /\ Stopped(page, tick) /\ Overtaken(page, loads) /\ Cut(page, strays))'
  BY <1>2 DEF IssuerInv, DetailInv, Linked, Stopped, Overtaken, Cut, Differs, Enabled
<1>5. DetailInv'
  BY <1>1, <1>3, <1>4 DEF IssuerInv, DetailInv, Blank
<1> QED
  BY <1>2, <1>5, PageStep

LEMMA DialogOpensAndCloses ==
  ASSUME IssuerInv, OpenDialog \/ CancelDialog PROVE IssuerInv'
<1>1. /\ at = "detail"
      /\ UNCHANGED <<state, at, page, tick, loads, strays, sub, batch, revokes>>
  BY DEF OpenDialog, CancelDialog, SameServer
<1>2. dialog \in [open : BOOLEAN, submitting : BOOLEAN]
  BY DEF IssuerInv, TypeOK
<1>3. CASE dialog' = [open |-> TRUE, submitting |-> FALSE]
  <2>1. dialog' \in [open : BOOLEAN, submitting : BOOLEAN] /\ ~dialog'.submitting
    BY <1>3
  <2>2. revokes' \in [Slot -> Revocation] /\ RevokesInv'
    BY <1>1, <2>1 DEF IssuerInv, TypeOK, RevokesInv, Revocation, Born
  <2> QED
    BY <1>1, <2>1, <2>2, DialogStep
<1>4. CASE dialog' = [dialog EXCEPT !.open = FALSE]
  <2>1. dialog' \in [open : BOOLEAN, submitting : BOOLEAN]
        /\ dialog'.submitting = dialog.submitting
    BY <1>2, <1>4
  <2>2. revokes' \in [Slot -> Revocation] /\ RevokesInv'
    BY <1>1, <2>1 DEF IssuerInv, TypeOK, RevokesInv, Revocation, Born
  <2> QED
    BY <1>1, <2>1, <2>2, DialogStep
<1> QED
  BY <1>3, <1>4 DEF OpenDialog, CancelDialog

LEMMA SubmitRevokeKeeps == ASSUME IssuerInv, SubmitRevoke PROVE IssuerInv'
<1> USE DEF IssuerInv
<1>1. /\ at = "detail" /\ Panel = "record"
      /\ UNCHANGED <<state, at, page, tick, loads, strays, sub, batch>>
      /\ dialog' = [dialog EXCEPT !.submitting = TRUE]
  BY DEF SubmitRevoke, SameServer
<1> DEFINE r == [of |-> page.of, id |-> page.id, step |-> "sent", mine |-> TRUE]
<1>2. PICK k \in Slot : revokes' = [revokes EXCEPT ![k] = r]
  BY DEF SubmitRevoke
<1>3. page.of \in Cert /\ page.id \in Cert /\ Born(page.id)
  BY <1>1 DEF Panel, TypeOK, DetailInv
<1>4. revokes \in [Slot -> Revocation]
  BY DEF TypeOK, Revocation
<1>5. r \in Revocation /\ r.of = page.of /\ r.id = page.id /\ r.step = "sent" /\ r.mine
  BY <1>3 DEF Revocation
<1> HIDE DEF r
<1>6. revokes' \in [Slot -> Revocation] /\ revokes'[k] = r
      /\ \A j \in Slot \ {k} : revokes'[j] = revokes[j]
  BY <1>2, <1>4, <1>5
<1>7. RevokesInv'
  BY <1>1, <1>3, <1>5, <1>6 DEF RevokesInv, Born
<1>8. dialog' \in [open : BOOLEAN, submitting : BOOLEAN]
  BY <1>1 DEF TypeOK
<1> QED
  BY <1>1, <1>6, <1>7, <1>8, DialogStep

(* What a revocation leaves behind when it is over. *)
LEMMA RevocationOver ==
  ASSUME IssuerInv, NEW k \in Slot, UNCHANGED state, page'.id = page.id,
         page.moved => page'.moved,
         revokes' = [revokes EXCEPT ![k] = NoRevoke],
         dialog' \in [open : BOOLEAN, submitting : BOOLEAN],
         dialog'.submitting => dialog.submitting /\ ~revokes[k].mine
  PROVE  revokes' \in [Slot -> Revocation] /\ RevokesInv'
<1>1. revokes \in [Slot -> Revocation]
  BY DEF IssuerInv, TypeOK, Revocation
<1>2. NoRevoke \in Revocation /\ NoRevoke.step = "unused" /\ ~NoRevoke.mine
  BY DEF Revocation, NoRevoke
<1>3. revokes' \in [Slot -> Revocation] /\ revokes'[k] = NoRevoke
      /\ \A j \in Slot \ {k} : revokes'[j] = revokes[j]
  BY <1>1, <1>2
<1>4. RevokesInv'
  BY <1>2, <1>3 DEF IssuerInv, RevokesInv, Born
<1> QED
  BY <1>3, <1>4

LEMMA RevokeRefusedKeeps ==
  ASSUME IssuerInv, NEW k \in Slot, RevokeRefused(k) PROVE IssuerInv'
<1>1. /\ revokes[k].step # "unused" /\ revokes' = [revokes EXCEPT ![k] = NoRevoke]
      /\ UNCHANGED <<state, at, page, tick, loads, strays, sub, batch>>
      /\ dialog' = IF revokes[k].mine THEN [dialog EXCEPT !.submitting = FALSE] ELSE dialog
  BY DEF RevokeRefused, SameServer
<1>2. at = "detail"
  BY <1>1, OnTheWay
<1>3. /\ dialog' \in [open : BOOLEAN, submitting : BOOLEAN]
      /\ dialog'.submitting => dialog.submitting /\ ~revokes[k].mine
  BY <1>1 DEF IssuerInv, TypeOK
<1>4. revokes' \in [Slot -> Revocation] /\ RevokesInv'
  BY <1>1, <1>3, RevocationOver
<1> QED
  BY <1>1, <1>2, <1>3, <1>4, DialogStep

LEMMA RevokeReturnsKeeps ==
  ASSUME IssuerInv, NEW k \in Slot, RevokeReturns(k) PROVE IssuerInv'
<1> USE DEF IssuerInv, DetailInv
<1>1. page \in Page /\ tick \in Tick /\ IsCalls(loads) /\ IsCalls(strays) /\ TypeOK
  BY DEF TypeOK, Page, Tick
<1>2. /\ UNCHANGED <<state, at, sub, batch>> /\ dialog' = Closed
      /\ revokes[k].step # "unused" /\ revokes' = [revokes EXCEPT ![k] = NoRevoke]
  BY DEF RevokeReturns, SameServer
<1>3. at = "detail"
  BY <1>2, OnTheWay
<1>4. PICK c : c = revokes[k].id
  OBVIOUS
<1>5. c \in Cert /\ Born(c) /\ (~page.moved => c = page.id) /\ Claims("sent", c)
  BY <1>2, <1>4 DEF RevokesInv, Claims
<1> DEFINE ls == Plus(loads, <<c, "sent">>)
<1>6. /\ IsCalls(ls) /\ ls # EmptyBag /\ TrueCalls(ls)
      /\ ~page.moved => CallsOf(ls, page.id)
  BY <1>1, <1>5, PlusTrue DEF Truth
<1>7. Commit(page, tick, ls, strays, FALSE)
  BY <1>4 DEF RevokeReturns
<1> HIDE DEF ls
<1>8. Truth(page, ls, strays)
  BY <1>6 DEF Truth
<1>9. /\ Enabled(page) => (page.polling <=> tick # "off")
      /\ ~Enabled(page) => tick = "off"
      /\ Overtaken(page, ls) /\ Cut(page, strays) /\ Stopped(page, tick)
  BY <1>6 DEF Linked, Overtaken
<1>10. /\ page' \in Page /\ tick' \in Tick /\ IsCalls(loads') /\ IsCalls(strays') /\ DetailInv'
  BY <1>1, <1>2, <1>3, <1>6, <1>7, <1>8, <1>9, CommitKeeps
<1>11. page'.id = page.id /\ page'.moved = page.moved
  BY <1>1, <1>6, <1>7, CommitIs
<1>12. dialog' \in [open : BOOLEAN, submitting : BOOLEAN] /\ ~dialog'.submitting
  BY <1>2 DEF Closed
<1>13. revokes' \in [Slot -> Revocation] /\ RevokesInv'
  BY <1>2, <1>11, <1>12, RevocationOver
<1> QED
  BY <1>2, <1>10, <1>12, <1>13, PageStep

-----------------------------------------------------------------------------
(* The server moves. *)

(* A certificate that exists stays, and one that was anchored stays public. *)
LEMMA StateMoves ==
  ASSUME IssuerInv, UNCHANGED <<at, page, tick, loads, strays>>,
         at # "detail" => revokes' = revokes,
         \A c \in Cert : (Born(c) => Born(c)') /\ (Public(c) => Public(c)')
  PROVE  DetailInv'
<1> USE DEF IssuerInv, DetailInv
<1>1. /\ page \in Page /\ IsCalls(loads) /\ IsCalls(strays)
      /\ page' = page /\ tick' = tick /\ loads' = loads /\ strays' = strays
  BY DEF TypeOK, Page
<1>2. page.id \in Cert /\ page.of \in Cert \cup {None}
  BY <1>1 DEF Page
<1>3. \A c \in Cert : \A s : Claims(s, c) => Claims(s, c)'
  BY DEF Claims
<1>4. TrueCalls(loads)' /\ TrueCalls(strays)'
  BY <1>1, <1>3 DEF Truth, TrueCalls, IsCalls, Call
<1>5. Truth(page, loads, strays)' /\ Claims(tick, page.id)'
  BY <1>1, <1>2, <1>3, <1>4 DEF Truth, Known, CallsOf
<1>6. (Linked(page, tick) /\ Stopped(page, tick) /\ Overtaken(page, loads) /\ Cut(page, strays))'
  BY <1>1 DEF Linked, Stopped, Overtaken, Cut, Differs, Enabled
<1> QED
  BY <1>1, <1>2, <1>5, <1>6 DEF Blank

(* Along the edges of the life cycle. *)
LEMMA LaterIs ==
  ASSUME NEW s, NEW z, <<s, z>> \in Later
  PROVE  /\ s \in CertState /\ z \in CertState
         /\ s \in {"ACTIVE", "REVOKING", "REVOKED"} => z \in {"ACTIVE", "REVOKING", "REVOKED"}
<1> DEFINE P == {"ACTIVE", "REVOKING", "REVOKED"}
           Up(R) == \A e \in R : /\ e \in CertState \X CertState
                                 /\ e[1] \in P => e[2] \in P
<1>1. Up(Once)
  BY DEF Once, LegalEdge, CertState
<1>2. ASSUME NEW R, NEW S, Up(R), Up(S) PROVE Up(Then(R, S))
  BY <1>2 DEF Then
<1> HIDE DEF Up
<1>3. Up(Then(Once, Once)) /\ Up(Then(Once, Then(Once, Once)))
  BY <1>1, <1>2
<1> QED
  BY <1>1, <1>3 DEF Later, Up

LEMMA ServerMovesKeeps ==
  ASSUME IssuerInv, NEW c \in Cert, ServerMoves(c) PROVE IssuerInv'
<1> USE DEF IssuerInv
<1>1. PICK s \in Seen : <<state[c], s>> \in Later /\ state' = [state EXCEPT ![c] = s]
  BY DEF ServerMoves
<1>2. UNCHANGED <<at, page, tick, loads, strays, dialog, revokes, sub, batch>>
  BY DEF ServerMoves, detail
<1>3. state[c] \in CertState /\ s \in CertState
      /\ (state[c] \in {"ACTIVE", "REVOKING", "REVOKED"} => s \in {"ACTIVE", "REVOKING", "REVOKED"})
  BY <1>1, LaterIs
<1>4. state \in [Cert -> CertState \cup {Unborn}]
  BY DEF TypeOK
<1>5. state' \in [Cert -> CertState \cup {Unborn}]
      /\ \A d \in Cert : state'[d] = IF d = c THEN s ELSE state[d]
  BY <1>1, <1>3, <1>4
<1>6. \A d \in Cert : (Born(d) <=> Born(d)') /\ (Public(d) => Public(d)')
  BY <1>3, <1>5, Words DEF Born, Public
<1>7. DetailInv'
  BY <1>2, <1>6, StateMoves
<1>8. RevokesInv' /\ FormsInv'
  BY <1>2, <1>6 DEF RevokesInv, FormsInv, Cert
<1>9. TypeOK' /\ BatchFollowed'
  BY <1>2, <1>5 DEF TypeOK, BatchFollowed
<1> QED
  BY <1>7, <1>8, <1>9

LEMMA RevokesKeeps ==
  ASSUME IssuerInv, NEW k \in Slot, Revokes(k) PROVE IssuerInv'
<1> USE DEF IssuerInv
<1>1. /\ revokes[k].step = "sent" /\ state[revokes[k].of] = "ACTIVE"
      /\ state' = [state EXCEPT ![revokes[k].of] = "REVOKING"]
      /\ revokes' = [revokes EXCEPT ![k].step = "accepted"]
      /\ UNCHANGED <<at, page, tick, loads, strays, dialog, sub, batch>>
  BY DEF Revokes
<1>2. at = "detail"
  BY <1>1, OnTheWay
<1>3. state \in [Cert -> CertState \cup {Unborn}] /\ revokes \in [Slot -> Revocation]
  BY DEF TypeOK, Revocation
<1>4. state' \in [Cert -> CertState \cup {Unborn}]
      /\ \A d \in Cert : state'[d] = IF d = revokes[k].of THEN "REVOKING" ELSE state[d]
  BY <1>1, <1>3 DEF CertState
<1>5. \A d \in Cert : (Born(d) <=> Born(d)') /\ (Public(d) => Public(d)')
  BY <1>1, <1>4 DEF Born, Public, Unborn
<1>6. DetailInv'
  BY <1>1, <1>2, <1>5, StateMoves
<1> DEFINE r == [revokes[k] EXCEPT !.step = "accepted"]
<1>7. r \in Revocation /\ r.of = revokes[k].of /\ r.id = revokes[k].id
      /\ r.mine = revokes[k].mine /\ revokes' = [revokes EXCEPT ![k] = r]
  BY <1>1, <1>3 DEF Revocation
<1> HIDE DEF r
<1>8. /\ revokes' \in [Slot -> Revocation]
      /\ \A j \in Slot : /\ revokes'[j].of = revokes[j].of /\ revokes'[j].id = revokes[j].id
                         /\ revokes'[j].mine = revokes[j].mine
      /\ \A j \in Slot \ {k} : revokes'[j] = revokes[j]
  BY <1>3, <1>7
<1>9. RevokesInv'
  BY <1>1, <1>5, <1>8 DEF RevokesInv
<1>10. FormsInv'
  BY <1>1, <1>5 DEF FormsInv, Cert
<1>11. TypeOK' /\ BatchFollowed'
  BY <1>1, <1>4, <1>8 DEF TypeOK, BatchFollowed, Revocation
<1> QED
  BY <1>6, <1>9, <1>10, <1>11

-----------------------------------------------------------------------------
(* The form. *)
Submission == [step : {"unused", "asked", "created", "over"}, mine : BOOLEAN]

LEMMA FormStep ==
  ASSUME IssuerInv, UNCHANGED <<state, at, detail, batch>>,
         sub' \in [New -> Submission], FormsInv'
  PROVE  IssuerInv'
<1> USE DEF IssuerInv
<1>1. UNCHANGED <<state, at, page, tick, loads, strays, dialog, revokes, batch>>
  BY DEF detail
<1>2. DetailInv'
  BY <1>1, StateMoves DEF Born, Public
<1>3. RevokesInv' /\ BatchFollowed'
  BY <1>1 DEF RevokesInv, BatchFollowed, Born
<1>4. TypeOK'
  BY <1>1 DEF TypeOK, Submission
<1> QED
  BY <1>2, <1>3, <1>4

LEMMA FormKeeps ==
  ASSUME IssuerInv, NEW n \in New, SubmitForm(n) \/ IssueFails(n) PROVE IssuerInv'
<1> USE DEF IssuerInv
<1>1. UNCHANGED <<state, at, detail, batch>>
  BY DEF SubmitForm, IssueFails, SameServer
<1>2. PICK r \in Submission :
        /\ sub' = [sub EXCEPT ![n] = r]
        /\ \/ r = [step |-> "asked", mine |-> TRUE] /\ sub[n].step = "unused"
           \/ r = [step |-> "over", mine |-> FALSE]
  BY DEF SubmitForm, IssueFails, Submission
<1>3. sub \in [New -> Submission]
  BY DEF TypeOK, Submission
<1>4. sub' \in [New -> Submission] /\ \A m \in New : sub'[m] = IF m = n THEN r ELSE sub[m]
  BY <1>2, <1>3
<1>5. \A m \in New : Born(m)' = Born(m)
  BY <1>1 DEF Born
<1>6. FormsInv'
  BY <1>2, <1>4, <1>5 DEF FormsInv
<1> QED
  BY <1>1, <1>4, <1>6, FormStep

LEMMA IssuesKeeps ==
  ASSUME IssuerInv, NEW n \in New, Issues(n) PROVE IssuerInv'
<1> USE DEF IssuerInv
<1>1. /\ sub[n].step = "asked" /\ sub' = [sub EXCEPT ![n].step = "created"]
      /\ UNCHANGED <<at, page, tick, loads, strays, dialog, revokes, batch>>
  BY DEF Issues, detail
<1>2. PICK s \in Issuing : state' = [state EXCEPT ![n] = s]
  BY DEF Issues
<1>3. state \in [Cert -> CertState \cup {Unborn}] /\ sub \in [New -> Submission] /\ n \in Cert
  BY DEF TypeOK, Submission, Cert
<1>4. state' \in [Cert -> CertState \cup {Unborn}]
      /\ \A d \in Cert : state'[d] = IF d = n THEN s ELSE state[d]
  BY <1>2, <1>3 DEF Issuing, CertState
<1>5. ~Born(n) /\ Born(n)' /\ \A d \in Cert \ {n} : Born(d) <=> Born(d)'
  BY <1>1, <1>2, <1>3, <1>4 DEF FormsInv, Born, Issuing, Unborn
<1>6. \A d \in Cert : (Born(d) => Born(d)') /\ (Public(d) => Public(d)')
  BY <1>4, <1>5 DEF Born, Public, Unborn
<1>7. DetailInv'
  BY <1>1, <1>6, StateMoves
<1>8. RevokesInv'
  BY <1>1, <1>6 DEF RevokesInv
<1> DEFINE r == [sub[n] EXCEPT !.step = "created"]
<1>9. r \in Submission /\ r.step = "created" /\ sub' = [sub EXCEPT ![n] = r]
  BY <1>1, <1>3 DEF Submission
<1> HIDE DEF r
<1>10. sub' \in [New -> Submission] /\ \A m \in New : sub'[m] = IF m = n THEN r ELSE sub[m]
  BY <1>3, <1>9
<1>11. FormsInv'
  BY <1>5, <1>9, <1>10 DEF FormsInv, Cert
<1>12. TypeOK' /\ BatchFollowed'
  BY <1>1, <1>4, <1>10 DEF TypeOK, BatchFollowed, Submission
<1> QED
  BY <1>7, <1>8, <1>11, <1>12

-----------------------------------------------------------------------------
(* Going to a page. *)
LEMMA NoBatchIs ==
  /\ NoBatch \in [jobs : [Job -> JobStatus], uploading : BOOLEAN, shown : 0..MaxJobs,
                  status : JobStatus, timer : BOOLEAN, polls : SUBSET Job, error : BOOLEAN]
  /\ NoBatch.status \notin Unfinished /\ ~NoBatch.timer
<1>1. None \in JobStatus /\ None \notin Unfinished /\ 0 \in 0..MaxJobs
  BY IssuerPagesAssumption DEF JobStatus, Unfinished, None
<1> QED
  BY <1>1 DEF NoBatch

LEMMA Goings ==
  ASSUME IssuerInv, UNCHANGED state, at' \in {"issue", "batch", "detail", "away"},
         Mounted', sub' \in [New -> Submission],
         \A n \in New : \/ sub'[n].step = "over" /\ ~sub'[n].mine
                        \/ sub'[n].step = sub[n].step /\ (sub'[n].mine => sub[n].mine),
         batch' = NoBatch
  PROVE  IssuerInv'
<1> USE DEF IssuerInv, Mounted
<1>1. TypeOK'
  BY NoBatchIs DEF TypeOK, Page, Tick, Revocation, Submission
<1>2. FormsInv'
  BY DEF FormsInv, Born
<1>3. BatchFollowed'
  BY NoBatchIs DEF BatchFollowed
<1> QED
  BY <1>1, <1>2, <1>3

LEMMA Mounts == \A c \in Cert : Opened(c)' => Mounted'
<1>1. (\A c \in Cert : Opened(c) => Mounted)'
  BY FreshPage, PTL
<1> QED
  BY <1>1

LEMMA OpensIs ==
  ASSUME IssuerInv, NEW c \in Cert, Born(c), UNCHANGED state, Opens(c)
  PROVE  Mounted'
<1> USE DEF IssuerInv, DetailInv, Mounted
<1>1. page \in Page /\ tick \in Tick /\ IsCalls(loads) /\ IsCalls(strays) /\ TypeOK
  BY DEF TypeOK, Page, Tick
<1>2. at' = "detail" /\ Born(c)'
  BY DEF Opens, Born
<1>3. CASE at # "detail"
  BY <1>2, <1>3, Mounts DEF Opens, Opened
<1>4. CASE at = "detail" /\ c = page.id
  <2>1. UNCHANGED <<page, tick, loads, strays, dialog, revokes, state>> /\ at' = at
    BY <1>2, <1>4 DEF Opens, detail
  <2>2. DetailInv'
    BY <2>1, StateMoves DEF Born, Public
  <2> QED
    BY <1>1, <2>1, <2>2, RevokesStay
<1>5. CASE at = "detail" /\ c # page.id
  <2> DEFINE p == [page EXCEPT !.id = c, !.loading = TRUE, !.moved = TRUE]
             ls == Plus(loads, <<c, "sent">>)
  <2>1. /\ Commit(p, tick, ls, strays, TRUE)
        /\ dialog' = [dialog EXCEPT !.submitting = FALSE] /\ revokes' = Orphaned(revokes)
    BY <1>5 DEF Opens
  <2>2. /\ p \in Page /\ p.id = c /\ p.moved /\ p.poll = page.poll
        /\ p.of = page.of /\ p.status = page.status /\ p.polling = page.polling
        /\ p.timedOut = page.timedOut /\ p.strayed = page.strayed
    BY <1>1 DEF Page
  <2>3. IsCalls(ls) /\ TrueCalls(ls)
    BY <1>1, PlusTrue DEF Claims, Truth
  <2> HIDE DEF p, ls
  <2>4. Truth(p, ls, strays)
    BY <2>2, <2>3 DEF Truth, Known
  <2>5. /\ ~Enabled(p) /\ ~Enabled(page) => tick = "off"
        /\ Enabled(page) => Stopped(p, tick)
        /\ Cut(p, strays)
    BY <2>2 DEF Linked, Stopped, Cut, Enabled
  <2>6. /\ page' \in Page /\ tick' \in Tick /\ IsCalls(loads') /\ IsCalls(strays') /\ DetailInv'
    BY <1>1, <1>2, <1>5, <2>1, <2>2, <2>3, <2>4, <2>5, CommitKeeps
  <2>7. page'.moved = p.moved
    BY <1>1, <2>1, <2>2, <2>3, CommitIs
  <2>8. /\ dialog' \in [open : BOOLEAN, submitting : BOOLEAN]
        /\ revokes' \in [Slot -> Revocation] /\ RevokesInv'
    BY <2>1, <2>2, <2>7, RevokesForgotten
  <2> QED
    BY <2>6, <2>8
<1> QED
  BY <1>3, <1>4, <1>5

LEMMA GoesKeeps == ASSUME IssuerInv, Goes PROVE IssuerInv'
<1>1. PICK where \in {"issue", "batch", "away"} : Leaves(where)
  BY DEF Goes
<1>2. PICK c \in Cert : c = (CHOOSE d \in Cert : TRUE)
  BY SomeCert
<1>3. UNCHANGED state /\ at' = where /\ at' # "detail" /\ batch' = NoBatch
  BY <1>1 DEF Goes, SameServer, Leaves
<1>4. Mounted'
  BY <1>1, <1>2, <1>3, Mounts DEF Leaves, Opened
<1>5. sub \in [New -> Submission]
  BY DEF IssuerInv, TypeOK, Submission
<1>6. sub' = [n \in New |-> [sub[n] EXCEPT !.mine = FALSE]]
  BY <1>1 DEF Leaves
<1>7. \A n \in New : LET r == [sub[n] EXCEPT !.mine = FALSE]
                     IN  r \in Submission /\ r.step = sub[n].step /\ ~r.mine
  BY <1>5 DEF Submission
<1>8. sub' \in [New -> Submission]
      /\ \A n \in New : sub'[n].step = sub[n].step /\ ~sub'[n].mine
  BY <1>6, <1>7
<1> QED
  BY <1>3, <1>4, <1>8, Goings

LEMMA OpenOldKeeps == ASSUME IssuerInv, OpenOld PROVE IssuerInv'
<1>1. PICK c \in Cert : Born(c) /\ Opens(c)
  BY DEF OpenOld, Born
<1>2. UNCHANGED <<state, sub>> /\ at' = "detail" /\ batch' = NoBatch
  BY <1>1 DEF OpenOld, SameServer, Opens
<1>3. sub' \in [New -> Submission]
  BY <1>2 DEF IssuerInv, TypeOK, Submission
<1> QED
  BY <1>1, <1>2, <1>3, OpensIs, Goings

LEMMA IssueReturnsKeeps ==
  ASSUME IssuerInv, NEW n \in New, IssueReturns(n) PROVE IssuerInv'
<1>1. Born(n) /\ Opens(n) /\ UNCHANGED state /\ n \in Cert
  BY DEF IssueReturns, SameServer, IssuerInv, FormsInv, Cert
<1>2. at' = "detail" /\ batch' = NoBatch
  BY <1>1 DEF Opens
<1>3. sub \in [New -> Submission]
  BY DEF IssuerInv, TypeOK, Submission
<1>4. \A m \in New : LET r == [sub[m] EXCEPT !.mine = FALSE]
                     IN  r \in Submission /\ r.step = sub[m].step /\ ~r.mine
  BY <1>3 DEF Submission
<1>5. sub' = [m \in New |-> IF m = n THEN [step |-> "over", mine |-> FALSE]
                             ELSE [sub[m] EXCEPT !.mine = FALSE]]
  BY DEF IssueReturns
<1>6. [step |-> "over", mine |-> FALSE] \in Submission
  BY DEF Submission
<1>7. sub' \in [New -> Submission]
      /\ \A m \in New : \/ sub'[m].step = "over" /\ ~sub'[m].mine
                        \/ sub'[m].step = sub[m].step /\ ~sub'[m].mine
  BY <1>4, <1>5, <1>6
<1> QED
  BY <1>1, <1>2, <1>7, OpensIs, Goings

-----------------------------------------------------------------------------
(* The batch page. *)
LEMMA BatchKeeps ==
  ASSUME IssuerInv,
         Batching \/ Upload \/ startNewBatch \/ JobMoves
  PROVE  IssuerInv'
<1> USE DEF IssuerInv
<1> DEFINE Jobs == [jobs : [Job -> JobStatus], uploading : BOOLEAN, shown : 0..MaxJobs,
                    status : JobStatus, timer : BOOLEAN, polls : SUBSET Job, error : BOOLEAN]
           OK == batch' \in Jobs /\ (batch'.timer => batch'.shown \in Job /\ batch'.status \in Unfinished) /\ BatchFollowed'
<1>1. UNCHANGED <<state, at, page, tick, loads, strays, dialog, revokes, sub>>
  BY DEF Batching, Upload, Uploaded, UploadFails, BatchPolled, BatchPollFails, BatchTimer,
         startNewBatch, JobMoves, SameServer, detail
<1>2. /\ batch \in Jobs /\ {"PENDING", "PROCESSING", "COMPLETED", None} \subseteq JobStatus
      /\ batch.timer => batch.shown \in Job /\ batch.status \in Unfinished
      /\ batch.polls \subseteq Job /\ 0 \in 0..MaxJobs /\ Job \subseteq 0..MaxJobs
  BY IssuerPagesAssumption DEF TypeOK, JobStatus, Unfinished, Job
<1>3. OK
  <2>1. ASSUME NEW j \in Job, NEW st \in JobStatus, NEW up \in BOOLEAN, NEW err \in BOOLEAN,
               NEW polls \in SUBSET Job, batch.polls \subseteq polls, batch.error => err,
               batch' = [batch EXCEPT !.jobs[j] = st, !.uploading = up, !.error = err,
                                      !.polls = polls]
        PROVE  OK
    <3>1. [batch.jobs EXCEPT ![j] = st] \in [Job -> JobStatus]
      BY <1>2
    <3>2. /\ batch' \in Jobs /\ batch'.timer = batch.timer /\ batch'.shown = batch.shown
          /\ batch'.status = batch.status /\ batch'.polls = polls /\ batch'.error = err
      BY <1>2, <2>1, <3>1
    <3> QED
      BY <1>2, <2>1, <3>2 DEF BatchFollowed
  <2>2. CASE Upload
    BY <1>2, <2>2 DEF Upload, BatchFollowed, Unfinished, None
  <2>3. CASE Uploaded
    <3>1. PICK j \in Job : batch' = [batch EXCEPT !.jobs[j] = "PENDING", !.uploading = FALSE,
                                                  !.polls = batch.polls \cup {j}]
      BY <2>3 DEF Uploaded
    <3>2. batch.polls \cup {j} \in SUBSET Job /\ batch.error \in BOOLEAN
      BY <1>2
    <3>3. batch' = [batch EXCEPT !.jobs[j] = "PENDING", !.uploading = FALSE,
                                 !.error = batch.error, !.polls = batch.polls \cup {j}]
      BY <1>2, <3>1
    <3> QED
      BY <1>2, <2>1, <3>2, <3>3
  <2>4. CASE UploadFails
    <3>1. CASE batch' = [batch EXCEPT !.uploading = FALSE, !.error = TRUE]
      BY <1>2, <3>1 DEF BatchFollowed
    <3>2. ASSUME NEW j \in Job,
                 batch' = [batch EXCEPT !.jobs[j] = "PENDING", !.uploading = FALSE, !.error = TRUE]
          PROVE  OK
      <4>1. batch' = [batch EXCEPT !.jobs[j] = "PENDING", !.uploading = FALSE, !.error = TRUE,
                                   !.polls = batch.polls]
        BY <1>2, <3>2
      <4> QED
        BY <1>2, <2>1, <4>1
    <3> QED
      BY <2>4, <3>1, <3>2 DEF UploadFails
  <2>5. ASSUME NEW j \in batch.polls, BatchPolled(j)
        PROVE  OK
    <3>1. /\ batch' = [batch EXCEPT !.polls = batch.polls \ {j}, !.shown = j,
                                    !.status = batch.jobs[j],
                                    !.timer = batch.jobs[j] \in Unfinished]
          /\ j \in Job /\ batch.jobs[j] \in JobStatus
      BY <1>2, <2>5 DEF BatchPolled
    <3>2. (batch.jobs[j] \in Unfinished) \in BOOLEAN /\ batch.polls \ {j} \in SUBSET Job
      BY <1>2
    <3> QED
      BY <1>2, <3>1, <3>2 DEF BatchFollowed
  <2>6. ASSUME NEW j \in batch.polls, BatchPollFails(j)
        PROVE  OK
    BY <1>2, <2>6 DEF BatchPollFails, BatchFollowed
  <2>7. CASE BatchTimer
    BY <1>2, <2>7 DEF BatchTimer, BatchFollowed
  <2>8. CASE startNewBatch
    <3>1. batch' = [batch EXCEPT !.shown = 0, !.status = None, !.error = FALSE]
      BY <2>8 DEF startNewBatch
    <3>2. batch.status = "COMPLETED" /\ {"COMPLETED", None} \cap Unfinished = {}
      BY <2>8 DEF startNewBatch, Unfinished, None
    <3>3. batch' \in Jobs /\ batch'.status = None /\ batch'.timer = batch.timer
      BY <1>2, <3>1
    <3> QED
      BY <1>2, <3>2, <3>3 DEF BatchFollowed
  <2>9. CASE JobMoves
    <3>1. PICK j \in Job, st \in {"PROCESSING", "COMPLETED"} :
            batch' = [batch EXCEPT !.jobs[j] = st]
      BY <2>9 DEF JobMoves
    <3>2. batch' = [batch EXCEPT !.jobs[j] = st, !.uploading = batch.uploading,
                                 !.error = batch.error, !.polls = batch.polls]
      BY <1>2, <3>1
    <3> QED
      BY <1>2, <2>1, <3>2
  <2> QED
    BY <2>2, <2>3, <2>4, <2>5, <2>6, <2>7, <2>8, <2>9 DEF Batching
<1>4. DetailInv'
  BY <1>1, StateMoves DEF Born, Public
<1>5. RevokesInv' /\ FormsInv'
  BY <1>1 DEF RevokesInv, FormsInv, Born
<1>6. TypeOK'
  BY <1>1, <1>3 DEF TypeOK
<1> QED
  BY <1>3, <1>4, <1>5, <1>6

LEMMA NothingMoves == ASSUME IssuerInv, UNCHANGED vars PROVE IssuerInv'
<1>1. UNCHANGED <<state, at, page, tick, loads, strays, dialog, revokes, sub, batch>>
  BY DEF vars, detail
<1>2. DetailInv'
  BY <1>1, StateMoves DEF IssuerInv, Born, Public
<1> QED
  BY <1>1, <1>2 DEF IssuerInv, TypeOK, RevokesInv, FormsInv, BatchFollowed, Born

LEMMA IssuerStep == ASSUME IssuerInv, [Next]_vars PROVE IssuerInv'
<1>1. CASE User
  BY <1>1, GoesKeeps, OpenOldKeeps, TryAgainKeeps, RetryKeeps, DialogOpensAndCloses,
     SubmitRevokeKeeps, FormKeeps, BatchKeeps DEF User
<1>2. CASE Watching
  BY <1>2, ServeKeeps, LoadedKeeps, LoadFailsKeeps, TimerFiresKeeps, PolledKeeps,
     StrayPolledKeeps, StrayFailsKeeps DEF Watching
<1>3. CASE Revoking
  BY <1>3, RevokesKeeps, RevokeReturnsKeeps, RevokeRefusedKeeps DEF Revoking
<1>4. CASE Submitted
  BY <1>4, IssuesKeeps, IssueReturnsKeeps, FormKeeps DEF Submitted
<1>5. CASE Batching \/ JobMoves
  BY <1>5, BatchKeeps
<1>6. CASE \E c \in Cert : ServerMoves(c)
  BY <1>6, ServerMovesKeeps
<1>7. CASE UNCHANGED vars
  BY <1>7, NothingMoves
<1> QED
  BY <1>1, <1>2, <1>3, <1>4, <1>5, <1>6, <1>7 DEF Next

-----------------------------------------------------------------------------
(* The invariant of the issuer's pages (CertificateDetailPage.jsx,         *)
(* useCertificateStatus.js, RevokeDialog.jsx, IssuePage.jsx,               *)
(* BatchIssuePage.jsx): whatever says that a certificate is active or      *)
(* revoked, an answer on its way included, is right that it was anchored;  *)
(* the spinner turns while the chain of polls goes on; a chain ends with   *)
(* an outcome or an offer to refresh; a status that the poll has overtaken *)
(* is loaded again; and a dialog or form waits only for a request of its   *)
(* own.                                                                    *)
THEOREM IssuerInvariance == Spec => []IssuerInv
<1>1. Init => IssuerInv
  BY IssuerInitially
<1>2. IssuerInv /\ [Next]_vars => IssuerInv'
  BY IssuerStep
<1> QED
  BY <1>1, <1>2, PTL DEF Spec

(* For any certificates and bounds: a page that shows a certificate or a   *)
(* batch on its way is told of it, or says that it is not                  *)
(* (useCertificateStatus.js:24-79, BatchIssuePage.jsx).                    *)
THEOREM PagesStayInTouch == Spec => []StaysInTouch
<1>1. IssuerInv => StaysInTouch
  BY IssuerPromise
<1> QED
  BY <1>1, IssuerInvariance, PTL

(* For any certificates and bounds: the document and the revocation are    *)
(* offered for a certificate that was anchored, and a control is barred    *)
(* only by a request on its way (CertificateDetailPage.jsx,                *)
(* RevokeDialog.jsx, IssuePage.jsx).                                       *)
THEOREM PagesOfferTheTruth == Spec => []ControlsAreHonest
<1>1. IssuerInv => ControlsAreHonest
  BY IssuerPromise
<1> QED
  BY <1>1, IssuerInvariance, PTL
=============================================================================
