-------------------------- MODULE QuarantineProofs --------------------------
(***************************************************************************)
(* What the quarantine lets through, for any peers, blocks and handlers.   *)
(*                                                                         *)
(* A peer is put out by a scan only, and a scan runs with no reader of     *)
(* dmu: what a handler carries was admitted under a status that can only   *)
(* have become milder.  That a linked peer is not lost for good needs, of  *)
(* a scan under way, that whom it put out it has done with.  That another  *)
(* peer is left needs the book of offers: they are of linked peers in the  *)
(* rotation, for wants that these were asked for, but for late ones.       *)
(* Of two more properties that races refute, the last part says which      *)
(* races: there are no others.                                             *)
(***************************************************************************)
EXTENDS Quarantine, TLAPS

USE DEF offers

Said == [blocks : SUBSET Cids, haves : SUBSET Cids, dhs : SUBSET Cids, wants : BOOLEAN]

\* What is carried is a message of a peer.
Carried == {None} \cup [kind : {"msg"}, peer : Peers, ann : BOOLEAN, fwd : Said]

Kinds ==
  /\ led \in [Peers -> Ledgers]
  /\ haves \in [Cids -> SUBSET Peers]
  /\ check \in {"idle", "lock", "scan", "tell"}
  /\ todo \subseteq Peers /\ outs \subseteq Peers /\ backs \subseteq Peers
  /\ known \subseteq Peers
  /\ rx \in [Handlers -> Carried]
  /\ ev \in {None} \cup [kind : {"up", "down"}, peer : Peers]
  /\ sending \in [Peers -> {None} \cup Sents]

\* A message has parts, and what is left of one that is held back.
LEMMA MessageParts ==
  ASSUME NEW m \in Messages
  PROVE  /\ m \in Said /\ wantsOnly(m) \in Said /\ withoutHaves(m) \in Said /\ Empty \in Said
         /\ wantsOnly(m).haves = {} /\ wantsOnly(m).dhs = {} /\ wantsOnly(m).blocks = {}
         /\ withoutHaves(m).blocks = m.blocks /\ withoutHaves(m).dhs = m.dhs
         /\ withoutHaves(m).haves = {}
<1>1. m \in Said /\ m.wants \in BOOLEAN
  BY QuarantineAssumption DEF Said
<1>2. wantsOnly(m) = [blocks |-> {}, haves |-> {}, dhs |-> {}, wants |-> m.wants]
  BY DEF wantsOnly, Empty
<1>3. /\ withoutHaves(m) \in Said
      /\ withoutHaves(m).blocks = m.blocks /\ withoutHaves(m).dhs = m.dhs
      /\ withoutHaves(m).haves = {}
  BY <1>1 DEF withoutHaves, Said
<1>4. wantsOnly(m) \in Said /\ Empty \in Said
  BY <1>1, <1>2 DEF Said, Empty
<1> QED BY <1>1, <1>2, <1>3, <1>4

\* A ledger has parts, and what EXCEPT makes of it is a ledger.
LEMMA LedgerIs ==
  ASSUME NEW l \in Ledgers
  PROVE  /\ l.wanted \subseteq Cids /\ l.old \subseteq Cids /\ l.asked \subseteq Cids
         /\ l.owed \subseteq Cids /\ l.status \in {"in", "out", "probation"}
         /\ l.over \in BOOLEAN /\ l.linked \in BOOLEAN
BY DEF Ledgers

-----------------------------------------------------------------------------
(* What the steps do to a ledger: a section of a message keeps the peer's  *)
(* link, and makes nobody held who was not, or out who was not.            *)

\* A ledger whose sets change alone.
SetsChange(l, k) ==
  /\ k \in Ledgers
  /\ k.status = l.status /\ k.over = l.over /\ k.linked = l.linked

LEMMA NotedSets ==
  ASSUME NEW l \in Ledgers, NEW m \in Said
  PROVE  SetsChange(l, Noted(l, m)) /\ Noted(l, m).asked = l.asked \ (m.blocks \cup m.dhs)
BY LedgerIs DEF Ledgers, Said, Noted, SetsChange

LEMMA PaidSets ==
  ASSUME NEW l \in Ledgers, NEW m \in Said
  PROVE  SetsChange(l, Paid(l, m)) /\ Paid(l, m).asked = l.asked
BY LedgerIs DEF Ledgers, Said, Paid, SetsChange

LEMMA BaseSets ==
  ASSUME NEW l \in Ledgers, NEW m \in Sents
  PROVE  SetsChange(l, Base(l, m))
BY LedgerIs DEF Ledgers, Base, SetsChange

\* What a section makes of the ledger, l, of the message's peer: k; what it
\* hands on, to whom it makes the peer known again, and what it takes note of.
Admission(l, k, fwd, noted, ann) ==
  /\ k \in Ledgers /\ fwd \in Said /\ noted \in Said /\ ann \in BOOLEAN
  /\ k.linked = l.linked /\ k.asked = l.asked \ (noted.blocks \cup noted.dhs)
  /\ held(k) => held(l) /\ fwd.haves = {} /\ noted.haves = {}
  /\ k.status = "out" => l.status = "out"
  /\ held(k) /\ k.status = "out" => fwd.blocks = {} /\ fwd.dhs = {}
  /\ l.status = "out" /\ k.status # "out" /\ l.linked => ann = TRUE

LEMMA FreeAdmits ==
  ASSUME NEW l \in Ledgers, NEW m \in Messages, ~held(l)
  PROVE  Admission(l, Noted(l, m), m, m, FALSE)
<1>1. m \in Said
  BY MessageParts
<1>2. /\ Noted(l, m) \in Ledgers /\ Noted(l, m).linked = l.linked
      /\ Noted(l, m).status = l.status /\ Noted(l, m).over = l.over
      /\ Noted(l, m).asked = l.asked \ (m.blocks \cup m.dhs)
  BY <1>1, NotedSets DEF SetsChange
<1>3. ~held(Noted(l, m))
  BY <1>2 DEF held
<1> QED BY <1>1, <1>2, <1>3 DEF Admission

LEMMA SettledAdmits ==
  ASSUME NEW l \in Ledgers, NEW m \in Messages
  PROVE  Admission(l, Noted([Paid(l, m) EXCEPT !.status = "in"], m), m, m,
                   l.status = "out" /\ Paid(l, m).linked)
<1> DEFINE k == [Paid(l, m) EXCEPT !.status = "in"]
<1>1. m \in Said /\ Paid(l, m) \in Ledgers /\ Paid(l, m).linked = l.linked
      /\ Paid(l, m).asked = l.asked
  BY MessageParts, PaidSets DEF SetsChange
<1>2. /\ k \in Ledgers /\ k.status = "in" /\ k.linked = l.linked /\ k.asked = l.asked
  BY <1>1 DEF Ledgers
<1> HIDE DEF k
<1>3. /\ Noted(k, m) \in Ledgers /\ Noted(k, m).status = "in" /\ Noted(k, m).linked = l.linked
      /\ Noted(k, m).asked = l.asked \ (m.blocks \cup m.dhs)
  BY <1>1, <1>2, NotedSets DEF SetsChange
<1>4. l.linked \in BOOLEAN /\ Paid(l, m).linked \in BOOLEAN
  BY <1>1, LedgerIs
<1>5. Admission(l, Noted(k, m), m, m, l.status = "out" /\ Paid(l, m).linked)
  BY <1>1, <1>3, <1>4 DEF Admission, held
<1> QED BY <1>5 DEF k

LEMMA OutAdmits ==
  ASSUME NEW l \in Ledgers, NEW m \in Messages, held(l)
  PROVE  Admission(l, Paid(l, m), wantsOnly(m), Empty, FALSE)
<1>1. /\ m \in Said /\ wantsOnly(m) \in Said /\ Empty \in Said
      /\ wantsOnly(m).haves = {} /\ wantsOnly(m).dhs = {} /\ wantsOnly(m).blocks = {}
      /\ Empty.haves = {} /\ Empty.dhs = {} /\ Empty.blocks = {}
  BY MessageParts DEF Empty
<1>2. /\ Paid(l, m) \in Ledgers /\ Paid(l, m).linked = l.linked /\ Paid(l, m).asked = l.asked
      /\ Paid(l, m).status = l.status
  BY <1>1, PaidSets DEF SetsChange
<1> QED BY <1>1, <1>2 DEF Admission

LEMMA ProbationAdmits ==
  ASSUME NEW l \in Ledgers, NEW m \in Messages, held(l)
  PROVE  Admission(l, Noted([Paid(l, m) EXCEPT !.status = "probation"], m),
                   withoutHaves(m), withoutHaves(m), l.status = "out" /\ Paid(l, m).linked)
<1> DEFINE k == [Paid(l, m) EXCEPT !.status = "probation"]
<1>1. /\ m \in Said /\ withoutHaves(m) \in Said /\ withoutHaves(m).haves = {}
      /\ withoutHaves(m).blocks = m.blocks /\ withoutHaves(m).dhs = m.dhs
      /\ Paid(l, m) \in Ledgers /\ Paid(l, m).linked = l.linked
      /\ Paid(l, m).asked = l.asked
  BY MessageParts, PaidSets DEF SetsChange
<1>2. /\ k \in Ledgers /\ k.status = "probation" /\ k.linked = l.linked /\ k.asked = l.asked
  BY <1>1 DEF Ledgers
<1> HIDE DEF k
<1>3. /\ Noted(k, m) \in Ledgers /\ Noted(k, m).status = "probation"
      /\ Noted(k, m).linked = l.linked /\ Noted(k, m).asked = l.asked \ (m.blocks \cup m.dhs)
  BY <1>1, <1>2, NotedSets DEF SetsChange
<1>4. l.linked \in BOOLEAN /\ Paid(l, m).linked \in BOOLEAN
  BY <1>1, LedgerIs
<1>5. Admission(l, Noted(k, m), withoutHaves(m), withoutHaves(m),
                l.status = "out" /\ Paid(l, m).linked)
  BY <1>1, <1>3, <1>4 DEF Admission
<1> QED BY <1>5 DEF k

LEMMA ReceiveIs ==
  ASSUME Kinds, NEW h \in Handlers, NEW p \in Peers, NEW m \in Messages, Receive(h, p, m)
  PROVE  /\ rx[h] = None /\ check = "idle"
         /\ UNCHANGED <<check, todo, outs, backs, ev, sending, known>>
         /\ \E k, fwd, noted, ann : /\ Admission(led[p], k, fwd, noted, ann)
                                    /\ Admitted(h, p, k, fwd, noted, ann)
<1>1. /\ rx[h] = None /\ check = "idle"
      /\ UNCHANGED <<check, todo, outs, backs, ev, sending, known>>
      /\ led[p] \in Ledgers
  BY DEF Receive, RLock, Kinds
<1>2. \E k, fwd, noted, ann : /\ Admission(led[p], k, fwd, noted, ann)
                              /\ Admitted(h, p, k, fwd, noted, ann)
  <2>1. CASE AdmitFree(h, p, m)
    BY <1>1, <2>1, FreeAdmits DEF AdmitFree
  <2>2. CASE AdmitSettled(h, p, m)
    BY <1>1, <2>2, SettledAdmits DEF AdmitSettled
  <2>3. CASE AdmitOut(h, p, m)
    BY <1>1, <2>3, OutAdmits DEF AdmitOut
  <2>4. CASE AdmitProbation(h, p, m)
    BY <1>1, <2>4, ProbationAdmits DEF AdmitProbation
  <2> QED BY <2>1, <2>2, <2>3, <2>4 DEF Receive
<1> QED BY <1>1, <1>2

-----------------------------------------------------------------------------
(* The other steps.                                                        *)

LEMMA FreshIs ==
  /\ Fresh \in Ledgers /\ Fresh.status = "in" /\ Fresh.linked = FALSE /\ Fresh.asked = {}
  /\ ~held(Fresh)
BY DEF Fresh, Ledgers, held

LEMMA NextIs ==
  ASSUME [Next]_vars
  PROVE  \/ Tick \/ LockScan \/ (\E p \in Peers : Scan(p)) \/ ScanDone \/ Tell
         \/ \E p \in Peers, m \in Sents : Send(p, m)
         \/ \E p \in Peers : Note(p) \/ Connect(p) \/ Disconnect(p) \/ Age(p) \/ Expire(p)
         \/ \E h \in Handlers, p \in Peers, m \in Messages : Receive(h, p, m)
         \/ \E h \in Handlers : Announce(h) \/ Deliver(h)
         \/ PassEvent
         \/ UNCHANGED vars
BY DEF Next, Check

\* What a scan makes of the ledger of one peer.
LEMMA ScanIs ==
  ASSUME Kinds, NEW p \in Peers, Scan(p)
  PROVE  /\ check = "scan" /\ p \in todo /\ todo' = todo \ {p}
         /\ UNCHANGED <<check, rx, ev, sending, known>>
         /\ \E k \in Ledgers :
              /\ led' = [led EXCEPT ![p] = k]
              /\ \/ /\ k = Fresh /\ led[p].linked = FALSE
                    /\ UNCHANGED <<haves, outs, backs>>
                 \/ /\ k.status = "in" /\ k.linked = led[p].linked /\ k.asked = led[p].asked
                    /\ outs' = outs /\ haves' = haves
                    /\ backs' = IF led[p].status = "out" THEN backs \cup {p} ELSE backs
                 \/ /\ GoesOut(p)
                    /\ k.status = "out" /\ k.linked = led[p].linked /\ k.asked = {}
                    /\ outs' = outs \cup {p} /\ backs' = backs
                    /\ haves' = haveLess(p, led[p].asked)
                 \/ k = led[p] /\ UNCHANGED <<haves, outs, backs>>
<1>1. /\ check = "scan" /\ p \in todo /\ todo' = todo \ {p}
      /\ UNCHANGED <<check, rx, ev, sending, known>>
      /\ led[p] \in Ledgers /\ led \in [Peers -> Ledgers]
  BY DEF Scan, Kinds
<1>2. CASE ScanGone(p)
  <2>1. led' = [led EXCEPT ![p] = Fresh] /\ UNCHANGED <<haves, outs, backs>>
        /\ led[p].linked = FALSE
    BY <1>1, <1>2, LedgerIs DEF ScanGone, Gone
  <2> QED BY <1>1, <2>1, FreshIs
<1>3. CASE ScanEnded(p)
  <2> DEFINE k == [led[p] EXCEPT !.status = "in", !.over = FALSE, !.owed = {}]
  <2>1. k \in Ledgers /\ k.status = "in" /\ k.linked = led[p].linked /\ k.asked = led[p].asked
    BY <1>1, LedgerIs DEF Ledgers
  <2>2. /\ led' = [led EXCEPT ![p] = k] /\ outs' = outs /\ haves' = haves
        /\ backs' = IF led[p].status = "out" THEN backs \cup {p} ELSE backs
    BY <1>1, <1>3 DEF ScanEnded
  <2> QED BY <1>1, <2>1, <2>2
<1>4. CASE ScanOut(p)
  <2> DEFINE k == PutOut(led[p])
  <2>1. k \in Ledgers /\ k.status = "out" /\ k.linked = led[p].linked /\ k.asked = {}
    BY <1>1, LedgerIs DEF Ledgers, PutOut
  <2>2. /\ led' = [led EXCEPT ![p] = k] /\ outs' = outs \cup {p} /\ backs' = backs
        /\ haves' = haveLess(p, led[p].asked) /\ GoesOut(p)
    BY <1>1, <1>4 DEF ScanOut, Offered
  <2> QED BY <1>1, <2>1, <2>2
<1>5. CASE ScanStays(p)
  <2>1. led' = [led EXCEPT ![p] = led[p]] /\ UNCHANGED <<haves, outs, backs>>
    BY <1>1, <1>5 DEF ScanStays, ledger
  <2> QED BY <1>1, <2>1
<1> QED BY <1>2, <1>3, <1>4, <1>5 DEF Scan

\* What a connect event, a disconnect or neither makes of the peer's link.
LinkMoves(p, l, k) ==
  \/ ev' = ev /\ k.linked = l.linked
  \/ /\ ev = None /\ check = "idle" /\ k.linked = TRUE
     /\ (l.status = "out" /\ ev' = None) \/ ev' = [kind |-> "up", peer |-> p]
  \/ ev = None /\ check = "idle" /\ k.linked = FALSE /\ ev' = [kind |-> "down", peer |-> p]

\* Of the peer's own steps and the clock's: its sets, its link, or its hold's end.
LEMMA OwnStep ==
  ASSUME Kinds, NEW p \in Peers,
         Note(p) \/ Connect(p) \/ Disconnect(p) \/ Age(p) \/ Expire(p)
  PROVE  /\ check # "scan" /\ UNCHANGED <<check, todo, outs, backs, rx, known>>
         /\ \E k \in Ledgers :
              /\ led' = [led EXCEPT ![p] = k] /\ k.status = led[p].status
              /\ held(k) => held(led[p])
              /\ LinkMoves(p, led[p], k)
              /\ Connect(p) \/ Disconnect(p) \/ k.linked = led[p].linked
<1>1. led \in [Peers -> Ledgers] /\ led[p] \in Ledgers
  BY DEF Kinds
<1>2. CASE Note(p)
  <2>1. sending[p] \in Sents /\ check # "scan"
        /\ UNCHANGED <<check, todo, outs, backs, rx, known>> /\ ev' = ev
    BY <1>2 DEF Note, Kinds, muFree
  <2> DEFINE m == sending[p]
             b == Base(led[p], m)
  <2>2. SetsChange(led[p], b) /\ m.cid \in Cids
    BY <1>1, <2>1, BaseSets, QuarantineAssumption
  <2> HIDE DEF b
  <2>3. b \in Ledgers /\ b.status = led[p].status /\ b.over = led[p].over
        /\ b.linked = led[p].linked
    BY <2>2 DEF SetsChange
  <2>4. CASE NoteCancel(p, m)
    <3> DEFINE k == Canceled(b, m.cid)
    <3>1. k \in Ledgers /\ k.status = b.status /\ k.over = b.over /\ k.linked = b.linked
      BY <2>2, <2>3, LedgerIs DEF Ledgers, Canceled
    <3>2. led' = [led EXCEPT ![p] = k]
      BY <1>1, <2>4 DEF NoteCancel, b, Offered
    <3> HIDE DEF k
    <3> QED BY <2>1, <2>3, <3>1, <3>2 DEF held, LinkMoves
  <2>5. CASE NoteWant(p, m)
    <3> DEFINE k == Asked(b, m)
    <3>1. k \in Ledgers /\ k.status = b.status /\ k.over = b.over /\ k.linked = b.linked
      BY <2>2, <2>3, LedgerIs DEF Ledgers, Asked
    <3>2. led' = [led EXCEPT ![p] = k]
      BY <1>1, <2>5 DEF NoteWant, b, Offered
    <3> HIDE DEF k
    <3> QED BY <2>1, <2>3, <3>1, <3>2 DEF held, LinkMoves
  <2> QED BY <1>2, <2>4, <2>5 DEF Note
<1>3. CASE Connect(p)
  <2> DEFINE k == [led[p] EXCEPT !.linked = TRUE]
  <2>1. /\ k \in Ledgers /\ k.status = led[p].status /\ k.over = led[p].over
        /\ k.linked = TRUE
    BY <1>1, LedgerIs DEF Ledgers
  <2>2. /\ led' = [led EXCEPT ![p] = k] /\ check = "idle" /\ ev = None
        /\ UNCHANGED <<check, todo, outs, backs, rx, known>>
        /\ (led[p].status = "out" /\ ev' = None) \/ ev' = [kind |-> "up", peer |-> p]
    BY <1>1, <1>3 DEF Connect, RLock, outAt
  <2> HIDE DEF k
  <2> QED BY <1>3, <2>1, <2>2 DEF held, LinkMoves
<1>4. CASE Disconnect(p)
  <2> DEFINE k == [led[p] EXCEPT !.linked = FALSE, !.wanted = {}, !.old = {}, !.asked = {}]
  <2>1. /\ k \in Ledgers /\ k.status = led[p].status /\ k.over = led[p].over
        /\ k.linked = FALSE
    BY <1>1, LedgerIs DEF Ledgers
  <2>2. /\ led' = [led EXCEPT ![p] = k] /\ check = "idle" /\ ev = None
        /\ UNCHANGED <<check, todo, outs, backs, rx, known>>
        /\ ev' = [kind |-> "down", peer |-> p]
    BY <1>1, <1>4 DEF Disconnect, RLock, Offered
  <2> HIDE DEF k
  <2> QED BY <1>4, <2>1, <2>2 DEF held, LinkMoves
<1>5. CASE Age(p)
  <2>1. PICK C \in SUBSET led[p].wanted \ {{}} : led' = [led EXCEPT ![p].old = @ \cup C]
    BY <1>5 DEF Age
  <2> DEFINE k == [led[p] EXCEPT !.old = @ \cup C]
  <2>2. /\ k \in Ledgers /\ k.status = led[p].status /\ k.over = led[p].over
        /\ k.linked = led[p].linked
    BY <1>1, <2>1, LedgerIs DEF Ledgers
  <2>3. /\ led' = [led EXCEPT ![p] = k]
        /\ check # "scan" /\ UNCHANGED <<check, todo, outs, backs, rx, known>> /\ ev' = ev
    BY <1>1, <1>5, <2>1 DEF Age, muFree
  <2> HIDE DEF k
  <2> QED BY <2>2, <2>3 DEF held, LinkMoves
<1>6. CASE Expire(p)
  <2> DEFINE k == [led[p] EXCEPT !.over = TRUE]
  <2>1. k \in Ledgers /\ k.status = led[p].status /\ k.over = TRUE
        /\ k.linked = led[p].linked
    BY <1>1, LedgerIs DEF Ledgers
  <2>2. /\ led' = [led EXCEPT ![p] = k]
        /\ check # "scan" /\ UNCHANGED <<check, todo, outs, backs, rx, known>> /\ ev' = ev
    BY <1>1, <1>6 DEF Expire, muFree
  <2> HIDE DEF k
  <2> QED BY <2>1, <2>2 DEF held, LinkMoves
<1> QED BY <1>2, <1>3, <1>4, <1>5, <1>6

LEMMA NotedHavesKind ==
  ASSUME Kinds, NEW p \in Peers, NEW l \in Ledgers, NEW m
  PROVE  NotedHaves(p, l, m) \in [Cids -> SUBSET Peers]
BY DEF NotedHaves, Kinds

LEMMA HaveLessKind == ASSUME Kinds, NEW p, NEW C PROVE haveLess(p, C) \in [Cids -> SUBSET Peers]
BY DEF haveLess, Kinds

LEMMA CarriedIs ==
  ASSUME NEW r \in Carried, r # None
  PROVE  /\ r.peer \in Peers /\ r.fwd \in Said /\ r.ann \in BOOLEAN
         /\ [r EXCEPT !.ann = FALSE] \in Carried
         /\ [r EXCEPT !.ann = FALSE].peer = r.peer /\ [r EXCEPT !.ann = FALSE].fwd = r.fwd
<1>1. r \in [kind : {"msg"}, peer : Peers, ann : BOOLEAN, fwd : Said]
  BY DEF Carried
<1>2. /\ [r EXCEPT !.ann = FALSE] \in [kind : {"msg"}, peer : Peers, ann : BOOLEAN, fwd : Said]
      /\ [r EXCEPT !.ann = FALSE].peer = r.peer /\ [r EXCEPT !.ann = FALSE].fwd = r.fwd
  BY <1>1
<1> QED BY <1>1, <1>2 DEF Carried

LEMMA KindsStep == ASSUME Kinds, [Next]_vars PROVE Kinds'
<1>1. CASE Tick
  <2>1. led' \in [Peers -> Ledgers] /\ check' \in {"idle", "lock"}
        /\ UNCHANGED <<haves, todo, outs, backs, rx, ev, sending, known>>
    BY <1>1, FreshIs DEF Tick, Dropped, Kinds
  <2> QED BY <2>1 DEF Kinds
<1>2. CASE LockScan \/ ScanDone \/ Tell
  BY <1>2 DEF LockScan, ScanDone, Tell, Kinds, ledger
<1>3. ASSUME NEW p \in Peers, Scan(p) PROVE Kinds'
  <2>1. /\ todo' = todo \ {p} /\ UNCHANGED <<check, rx, ev, sending, known>>
        /\ \E k \in Ledgers : led' = [led EXCEPT ![p] = k]
        /\ \/ outs' = outs \/ outs' = outs \cup {p}
        /\ \/ backs' = backs \/ backs' = backs \cup {p}
        /\ \/ haves' = haves \/ haves' = haveLess(p, led[p].asked)
    BY <1>3, ScanIs
  <2>2. haveLess(p, led[p].asked) \in [Cids -> SUBSET Peers]
    BY DEF haveLess, Kinds
  <2> QED BY <2>1, <2>2 DEF Kinds
<1>4. ASSUME NEW p \in Peers, NEW m \in Sents, Send(p, m) PROVE Kinds'
  BY <1>4 DEF Send, Kinds, ledger
<1>5. ASSUME NEW p \in Peers, Note(p) \/ Connect(p) \/ Disconnect(p) \/ Age(p) \/ Expire(p)
      PROVE  Kinds'
  <2>1. /\ UNCHANGED <<check, todo, outs, backs, rx, known>>
        /\ led' \in [Peers -> Ledgers]
    BY <1>5, OwnStep DEF Kinds
  <2>2. haves' \in [Cids -> SUBSET Peers]
    <3> DEFINE m == sending[p]
    <3>1. BaseHaves(p, m) \in [Cids -> SUBSET Peers]
      BY HaveLessKind DEF BaseHaves, Kinds
    <3>2. \/ haves' = BaseHaves(p, m) \/ haves' = [BaseHaves(p, m) EXCEPT ![m.cid] = {}]
          \/ haves' = haves \/ haves' = haveLess(p, led[p].asked)
      BY <1>5 DEF Note, NoteCancel, NoteWant, Connect, Disconnect, Age, Expire, Offered
    <3> QED BY <3>1, <3>2, HaveLessKind DEF Kinds
  <2>3. /\ ev' \in {None} \cup [kind : {"up", "down"}, peer : Peers]
        /\ sending' \in [Peers -> {None} \cup Sents]
    BY <1>5 DEF Note, Connect, Disconnect, Age, Expire, Kinds, Offered
  <2> QED BY <2>1, <2>2, <2>3 DEF Kinds
<1>6. ASSUME NEW h \in Handlers, NEW p \in Peers, NEW m \in Messages, Receive(h, p, m)
      PROVE  Kinds'
  <2>1. PICK k, fwd, noted, ann : /\ Admission(led[p], k, fwd, noted, ann)
                                  /\ Admitted(h, p, k, fwd, noted, ann)
    BY <1>6, ReceiveIs
  <2>2. UNCHANGED <<check, todo, outs, backs, ev, sending, known>>
    BY <1>6, ReceiveIs
  <2>3. led' \in [Peers -> Ledgers] /\ haves' \in [Cids -> SUBSET Peers]
    BY <2>1, NotedHavesKind DEF Admission, Admitted, Kinds, Offered
  <2>4. rx' \in [Handlers -> Carried]
    BY <2>1 DEF Admission, Admitted, Kinds, Carried, Offered
  <2> QED BY <2>2, <2>3, <2>4 DEF Kinds
<1>7. ASSUME NEW h \in Handlers, Announce(h) \/ Deliver(h) PROVE Kinds'
  <2>1. /\ UNCHANGED <<ledger, check, todo, outs, backs, ev, sending>>
        /\ rx[h] \in Carried \ {None}
        /\ known' \in {known, known \cup {rx[h].peer}}
        /\ \/ rx' = [rx EXCEPT ![h] = None] \/ rx' = [rx EXCEPT ![h] = [rx[h] EXCEPT !.ann = FALSE]]
    BY <1>7 DEF Announce, Deliver, Kinds
  <2>2. rx' \in [Handlers -> Carried]
    <3>1. None \in Carried /\ [rx[h] EXCEPT !.ann = FALSE] \in Carried
      BY <2>1, CarriedIs DEF Carried
    <3> QED BY <2>1, <3>1 DEF Kinds
  <2>3. known' \subseteq Peers
    <3>1. rx[h].peer \in Peers /\ known \subseteq Peers
      BY <2>1, CarriedIs DEF Kinds
    <3> QED BY <2>1, <3>1
  <2> QED BY <2>1, <2>2, <2>3 DEF Kinds, ledger
<1>8. CASE PassEvent \/ UNCHANGED vars
  BY <1>8 DEF PassEvent, Kinds, vars, ledger
<1> QED BY <1>1, <1>2, <1>3, <1>4, <1>5, <1>6, <1>7, <1>8, NextIs

LEMMA KindsInit == Init => Kinds
BY FreshIs DEF Init, Kinds, Carried

-----------------------------------------------------------------------------
(* What a held peer gets to the client.                                    *)

\* Nobody moves peers while a message or an event is on its way.
ScansAlone == check \in {"scan", "tell"} => NoReaders

Holding == Kinds /\ ScansAlone /\ HeldOffersNothing

LEMMA ScansAloneStep == ASSUME Kinds, ScansAlone, [Next]_vars PROVE ScansAlone'
<1> USE DEF ScansAlone, NoReaders
<1>1. CASE Tick \/ LockScan \/ ScanDone \/ Tell \/ (\E p \in Peers : Scan(p))
  BY <1>1 DEF Tick, LockScan, ScanDone, Tell, Scan
<1>2. ASSUME NEW p \in Peers, (\E m \in Sents : Send(p, m)) \/ Note(p) \/ Age(p) \/ Expire(p)
      PROVE  ScansAlone'
  BY <1>2 DEF Send, Note, Age, Expire
<1>3. ASSUME NEW p \in Peers, Connect(p) \/ Disconnect(p) PROVE ScansAlone'
  BY <1>3 DEF Connect, Disconnect, RLock, Offered
<1>4. ASSUME NEW h \in Handlers, NEW p \in Peers, NEW m \in Messages, Receive(h, p, m)
      PROVE  ScansAlone'
  BY <1>4 DEF Receive, RLock
<1>5. ASSUME NEW h \in Handlers, Announce(h) \/ Deliver(h) PROVE ScansAlone'
  BY <1>5 DEF Announce, Deliver
<1>6. CASE PassEvent \/ UNCHANGED vars
  BY <1>6 DEF PassEvent, vars
<1> QED BY <1>1, <1>2, <1>3, <1>4, <1>5, <1>6, NextIs

\* What is carried stays right while nobody becomes held, or out.
LEMMA HoldKept ==
  ASSUME HeldOffersNothing,
         \A h \in Handlers : rx'[h] # None =>
           /\ rx[h] # None /\ rx'[h].peer = rx[h].peer /\ rx'[h].fwd = rx[h].fwd,
         \A h \in Handlers, p \in Peers : Carries(h, p) =>
           /\ held(led'[p]) => held(led[p])
           /\ led'[p].status = "out" => led[p].status = "out"
  PROVE  HeldOffersNothing'
BY DEF HeldOffersNothing, Carries

LEMMA HoldStep == ASSUME Holding, [Next]_vars PROVE HeldOffersNothing'
<1> USE DEF Holding
<1>1. CASE Tick
  <2>1. \A p \in Peers : led'[p] = Fresh \/ led'[p] = led[p]
    BY <1>1 DEF Tick, Dropped
  <2> QED BY <1>1, <2>1, FreshIs, HoldKept DEF Tick
<1>2. CASE LockScan \/ ScanDone \/ Tell
  BY <1>2, HoldKept DEF LockScan, ScanDone, Tell, ledger
<1>3. ASSUME NEW p \in Peers, Scan(p) PROVE HeldOffersNothing'
  BY <1>3, ScanIs DEF HeldOffersNothing, Carries, ScansAlone, NoReaders
<1>4. ASSUME NEW p \in Peers, NEW m \in Sents, Send(p, m) PROVE HeldOffersNothing'
  BY <1>4, HoldKept DEF Send, ledger
<1>5. ASSUME NEW p \in Peers, Note(p) \/ Connect(p) \/ Disconnect(p) \/ Age(p) \/ Expire(p)
      PROVE  HeldOffersNothing'
  <2>1. PICK k \in Ledgers : /\ led' = [led EXCEPT ![p] = k] /\ k.status = led[p].status
                             /\ held(k) => held(led[p])
    BY <1>5, OwnStep
  <2>2. rx' = rx
    BY <1>5, OwnStep
  <2>3. \A q \in Peers : /\ held(led'[q]) => held(led[q])
                         /\ led'[q].status = "out" => led[q].status = "out"
    BY <2>1 DEF Kinds
  <2> QED BY <2>2, <2>3, HoldKept
<1>6. ASSUME NEW h \in Handlers, NEW p \in Peers, NEW m \in Messages, Receive(h, p, m)
      PROVE  HeldOffersNothing'
  <2>1. PICK k, fwd, noted, ann : /\ Admission(led[p], k, fwd, noted, ann)
                                  /\ Admitted(h, p, k, fwd, noted, ann)
    BY <1>6, ReceiveIs
  <2>2. /\ led' = [led EXCEPT ![p] = k]
        /\ rx' = [rx EXCEPT ![h] = IF fwd = Empty /\ ~ann THEN None
                                     ELSE [kind |-> "msg", peer |-> p, fwd |-> fwd, ann |-> ann]]
    BY <2>1 DEF Admitted, Offered
  <2>3. SUFFICES ASSUME NEW g \in Handlers, NEW q \in Peers, Carries(g, q)', held(led'[q])
                 PROVE  /\ rx'[g].fwd.haves = {}
                        /\ led'[q].status = "out" => rx'[g].fwd.dhs = {} /\ rx'[g].fwd.blocks = {}
    BY DEF HeldOffersNothing
  <2>4. CASE g = h
    <3>1. rx'[g].fwd = fwd /\ q = p /\ led'[q] = k
      BY <2>2, <2>3, <2>4 DEF Kinds, Carries
    <3> QED BY <2>1, <2>3, <3>1 DEF Admission
  <2>5. CASE g # h
    <3>1. rx'[g] = rx[g] /\ Carries(g, q)
      BY <2>2, <2>3, <2>5 DEF Kinds, Carries
    <3>2. held(led[q]) /\ (led'[q].status = "out" => led[q].status = "out")
      BY <2>1, <2>2, <2>3 DEF Kinds, Admission
    <3> QED BY <3>1, <3>2 DEF HeldOffersNothing
  <2> QED BY <2>4, <2>5
<1>7. ASSUME NEW h \in Handlers, Announce(h) \/ Deliver(h) PROVE HeldOffersNothing'
  <2>1. /\ led' = led /\ rx[h] \in Carried /\ rx[h] # None
        /\ \/ rx' = [rx EXCEPT ![h] = None] \/ rx' = [rx EXCEPT ![h] = [rx[h] EXCEPT !.ann = FALSE]]
    BY <1>7 DEF Announce, Deliver, Kinds, ledger
  <2>2. \A g \in Handlers : rx'[g] # None =>
          rx[g] # None /\ rx'[g].peer = rx[g].peer /\ rx'[g].fwd = rx[g].fwd
    BY <2>1, CarriedIs DEF Kinds
  <2> QED BY <2>1, <2>2, HoldKept
<1>8. CASE PassEvent \/ UNCHANGED vars
  BY <1>8, HoldKept DEF PassEvent, vars, ledger
<1> QED BY <1>1, <1>2, <1>3, <1>4, <1>5, <1>6, <1>7, <1>8, NextIs

\* A held peer gets no offer to the client, and one that is out nothing but its
\* wants to our server, whatever a message waits for between admit and the
\* client: HeldOffersNothing (ReceiveMessage and admit).
THEOREM HeldIsKeptOut == Spec => []HeldOffersNothing
<1>1. Init => Holding
  BY KindsInit DEF Init, Holding, ScansAlone, HeldOffersNothing, Carries
<1>2. Holding /\ [Next]_vars => Holding'
  BY KindsStep, ScansAloneStep, HoldStep DEF Holding
<1>3. Holding => HeldOffersNothing
  BY DEF Holding
<1> QED BY <1>1, <1>2, <1>3, PTL DEF Spec

-----------------------------------------------------------------------------
(* That a linked peer is not lost for good.                                *)

GoneBelow == ev # None /\ ev.kind = "down" => ~led[ev.peer].linked

\* Of a scan: whom it moved is known while it is under way only, and it has done
\* with whom it put out.
MovedBy ==
  /\ check \in {"idle", "lock"} => outs = {} /\ backs = {}
  /\ \A p \in outs : led[p].status = "out" /\ (check = "scan" => p \notin todo)

LinkedInv == Kinds /\ ScansAlone /\ GoneBelow /\ MovedBy /\ LinkedIsKnown

\* A step that brings no peer the link, or back into the rotation, and takes no
\* note of a peer from where it waits, leaves nobody behind.
LEMMA KnownKept ==
  ASSUME LinkedIsKnown,
         \A p \in Peers : led'[p].linked => led[p].linked,
         \A p \in Peers : led'[p].linked /\ led'[p].status # "out" =>
           led[p].status # "out" \/ p \in backs',
         outs \subseteq outs', backs \subseteq backs',
         UNCHANGED <<known, ev, rx>>
  PROVE  LinkedIsKnown'
BY DEF LinkedIsKnown, Carries

LEMMA GoneStep == ASSUME Kinds, GoneBelow, [Next]_vars PROVE GoneBelow'
<1>1. CASE Tick
  <2>1. \A p \in Peers : led'[p] = Fresh \/ led'[p] = led[p]
    BY <1>1 DEF Tick, Dropped
  <2> QED BY <1>1, <2>1, FreshIs DEF Tick, GoneBelow, Kinds
<1>2. CASE LockScan \/ ScanDone \/ Tell
  BY <1>2 DEF LockScan, ScanDone, Tell, ledger, GoneBelow
<1>3. ASSUME NEW p \in Peers, Scan(p) PROVE GoneBelow'
  <2>1. PICK k \in Ledgers : /\ led' = [led EXCEPT ![p] = k]
                             /\ k.linked = FALSE \/ k.linked = led[p].linked
    BY <1>3, ScanIs, FreshIs
  <2> QED BY <1>3, <2>1 DEF Scan, GoneBelow, Kinds
<1>4. ASSUME NEW p \in Peers, NEW m \in Sents, Send(p, m) PROVE GoneBelow'
  BY <1>4 DEF Send, ledger, GoneBelow
<1>5. ASSUME NEW p \in Peers, Note(p) \/ Connect(p) \/ Disconnect(p) \/ Age(p) \/ Expire(p)
      PROVE  GoneBelow'
  <2>1. PICK k \in Ledgers : led' = [led EXCEPT ![p] = k] /\ LinkMoves(p, led[p], k)
    BY <1>5, OwnStep
  <2> QED BY <2>1 DEF LinkMoves, GoneBelow, Kinds
<1>6. ASSUME NEW h \in Handlers, NEW p \in Peers, NEW m \in Messages, Receive(h, p, m)
      PROVE  GoneBelow'
  <2>1. PICK k, fwd, noted, ann : /\ Admission(led[p], k, fwd, noted, ann)
                                  /\ Admitted(h, p, k, fwd, noted, ann)
    BY <1>6, ReceiveIs
  <2>2. ev' = ev
    BY <1>6, ReceiveIs
  <2>3. led' = [led EXCEPT ![p] = k] /\ k.linked = led[p].linked
    BY <2>1 DEF Admission, Admitted, Offered
  <2> QED BY <2>2, <2>3 DEF GoneBelow, Kinds
<1>7. ASSUME NEW h \in Handlers, Announce(h) \/ Deliver(h) PROVE GoneBelow'
  BY <1>7 DEF Announce, Deliver, ledger, GoneBelow
<1>8. CASE PassEvent \/ UNCHANGED vars
  BY <1>8 DEF PassEvent, vars, ledger, GoneBelow
<1> QED BY <1>1, <1>2, <1>3, <1>4, <1>5, <1>6, <1>7, <1>8, NextIs

LEMMA MovedStep == ASSUME Kinds, MovedBy, [Next]_vars PROVE MovedBy'
<1>1. CASE Tick
  BY <1>1 DEF Tick, MovedBy
<1>2. CASE LockScan \/ ScanDone \/ Tell
  BY <1>2 DEF LockScan, ScanDone, Tell, ledger, MovedBy
<1>3. ASSUME NEW p \in Peers, Scan(p) PROVE MovedBy'
  <2>1. check = "scan" /\ p \in todo /\ todo' = todo \ {p} /\ check' = check /\ p \notin outs
    BY <1>3, ScanIs DEF MovedBy
  <2>2. PICK k \in Ledgers : /\ led' = [led EXCEPT ![p] = k]
                             /\ \/ outs' = outs
                                \/ outs' = outs \cup {p} /\ k.status = "out"
    BY <1>3, ScanIs
  <2> QED BY <2>1, <2>2 DEF MovedBy, Kinds
<1>4. ASSUME NEW p \in Peers, NEW m \in Sents, Send(p, m) PROVE MovedBy'
  BY <1>4 DEF Send, ledger, MovedBy
<1>5. ASSUME NEW p \in Peers, Note(p) \/ Connect(p) \/ Disconnect(p) \/ Age(p) \/ Expire(p)
      PROVE  MovedBy'
  <2>1. PICK k \in Ledgers : led' = [led EXCEPT ![p] = k] /\ k.status = led[p].status
    BY <1>5, OwnStep
  <2>2. UNCHANGED <<check, todo, outs, backs>>
    BY <1>5, OwnStep
  <2> QED BY <2>1, <2>2 DEF MovedBy, Kinds
<1>6. ASSUME NEW h \in Handlers, NEW p \in Peers, NEW m \in Messages, Receive(h, p, m)
      PROVE  MovedBy'
  BY <1>6, ReceiveIs DEF MovedBy
<1>7. ASSUME NEW h \in Handlers, Announce(h) \/ Deliver(h) PROVE MovedBy'
  BY <1>7 DEF Announce, Deliver, ledger, MovedBy
<1>8. CASE PassEvent \/ UNCHANGED vars
  BY <1>8 DEF PassEvent, vars, ledger, MovedBy
<1> QED BY <1>1, <1>2, <1>3, <1>4, <1>5, <1>6, <1>7, <1>8, NextIs

LEMMA LinkedStep == ASSUME LinkedInv, [Next]_vars PROVE LinkedIsKnown'
<1> USE DEF LinkedInv
<1>1. CASE Tick
  <2>1. \A p \in Peers : led'[p] = Fresh \/ led'[p] = led[p]
    BY <1>1 DEF Tick, Dropped
  <2> QED BY <1>1, <2>1, FreshIs, KnownKept DEF Tick
<1>2. CASE LockScan \/ ScanDone
  BY <1>2, KnownKept DEF LockScan, ScanDone, ledger
<1>3. CASE Tell
  BY <1>3 DEF Tell, ledger, LinkedIsKnown, MovedBy, Carries
<1>4. ASSUME NEW p \in Peers, Scan(p) PROVE LinkedIsKnown'
  <2>1. UNCHANGED <<rx, ev, known>>
    BY <1>4, ScanIs
  <2>2. PICK k \in Ledgers :
          /\ led' = [led EXCEPT ![p] = k] /\ outs \subseteq outs' /\ backs \subseteq backs'
          /\ k.linked => led[p].linked
          /\ k.linked /\ k.status # "out" => led[p].status # "out" \/ p \in backs'
    BY <1>4, ScanIs, FreshIs
  <2> QED BY <2>1, <2>2, KnownKept DEF Kinds
<1>5. ASSUME NEW p \in Peers, NEW m \in Sents, Send(p, m) PROVE LinkedIsKnown'
  BY <1>5, KnownKept DEF Send, ledger
<1>6. ASSUME NEW p \in Peers, Note(p) \/ Connect(p) \/ Disconnect(p) \/ Age(p) \/ Expire(p)
      PROVE  LinkedIsKnown'
  <2>1. PICK k \in Ledgers : /\ led' = [led EXCEPT ![p] = k] /\ k.status = led[p].status
                             /\ LinkMoves(p, led[p], k)
    BY <1>6, OwnStep
  <2>2. UNCHANGED <<outs, backs, rx, known>>
    BY <1>6, OwnStep
  <2>3. SUFFICES ASSUME NEW q \in Peers, led'[q].linked, led'[q].status # "out",
                        q \notin outs \cup backs, q \notin known,
                        ev' # [kind |-> "up", peer |-> q]
                 PROVE  \E g \in Handlers : Carries(g, q) /\ rx[g].ann
    BY <2>2 DEF LinkedIsKnown, Carries
  <2>4. led[q].linked /\ led[q].status # "out"
    BY <2>1, <2>3 DEF LinkMoves, Kinds
  <2>5. ev # [kind |-> "up", peer |-> q]
    BY <2>1, <2>3 DEF LinkMoves, None
  <2> QED BY <2>3, <2>4, <2>5 DEF LinkedIsKnown
<1>7. ASSUME NEW h \in Handlers, NEW p \in Peers, NEW m \in Messages, Receive(h, p, m)
      PROVE  LinkedIsKnown'
  <2>1. PICK k, fwd, noted, ann : /\ Admission(led[p], k, fwd, noted, ann)
                                  /\ Admitted(h, p, k, fwd, noted, ann)
    BY <1>7, ReceiveIs
  <2>2. /\ led' = [led EXCEPT ![p] = k]
        /\ rx' = [rx EXCEPT ![h] = IF fwd = Empty /\ ~ann THEN None
                                     ELSE [kind |-> "msg", peer |-> p, fwd |-> fwd, ann |-> ann]]
    BY <2>1 DEF Admitted, Offered
  <2>3. rx[h] = None /\ UNCHANGED <<outs, backs, ev, known>>
    BY <1>7, ReceiveIs
  <2>4. SUFFICES ASSUME NEW q \in Peers, led'[q].linked, led'[q].status # "out",
                        q \notin outs' \cup backs', q \notin known',
                        ev' # [kind |-> "up", peer |-> q]
                 PROVE  \E g \in Handlers : Carries(g, q)' /\ rx'[g].ann
    BY DEF LinkedIsKnown
  <2>5. CASE led[q].linked /\ led[q].status # "out"
    <3>1. PICK g \in Handlers : Carries(g, q) /\ rx[g].ann
      BY <2>3, <2>4, <2>5 DEF LinkedIsKnown
    <3>2. rx'[g] = rx[g]
      BY <2>2, <2>3, <3>1 DEF Kinds, Carries
    <3> QED BY <3>1, <3>2 DEF Carries
  <2>6. CASE ~(led[q].linked /\ led[q].status # "out")
    <3>1. q = p /\ ann = TRUE
      BY <2>1, <2>2, <2>4, <2>6 DEF Admission, Kinds
    <3>2. rx'[h] = [kind |-> "msg", peer |-> p, fwd |-> fwd, ann |-> ann]
      BY <2>2, <3>1 DEF Kinds
    <3> QED BY <3>1, <3>2 DEF Carries, None
  <2> QED BY <2>5, <2>6
<1>8. ASSUME NEW h \in Handlers, Announce(h) \/ Deliver(h) PROVE LinkedIsKnown'
  <2>1. /\ rx[h] # None /\ UNCHANGED <<led, outs, backs, ev>>
        /\ \A g \in Handlers \ {h} : rx'[g] = rx[g]
        /\ known \subseteq known' /\ (rx[h].ann => rx[h].peer \in known')
    BY <1>8 DEF Announce, Deliver, ledger, Kinds
  <2> QED BY <2>1 DEF LinkedIsKnown, Carries
<1>9. CASE PassEvent
  BY <1>9 DEF PassEvent, ledger, LinkedIsKnown, GoneBelow, Carries, Kinds
<1>10. CASE UNCHANGED vars
  BY <1>10, KnownKept DEF vars, ledger
<1> QED BY <1>1, <1>2, <1>3, <1>4, <1>5, <1>6, <1>7, <1>8, <1>9, <1>10, NextIs

\* A linked peer that is not out is known to the client, or is about to be, by a
\* connect event, an announcement or the end of the scan: LinkedIsKnown (check,
\* PeerConnected and ReceiveMessage).
THEOREM LinkedStaysKnown == Spec => []LinkedIsKnown
<1>1. Init => LinkedInv
  BY KindsInit, FreshIs DEF Init, LinkedInv, ScansAlone, GoneBelow, MovedBy, LinkedIsKnown
<1>2. LinkedInv /\ [Next]_vars => LinkedInv'
  BY KindsStep, ScansAloneStep, GoneStep, MovedStep, LinkedStep DEF LinkedInv
<1>3. LinkedInv => LinkedIsKnown
  BY DEF LinkedInv
<1> QED BY <1>1, <1>2, <1>3, PTL DEF Spec

-----------------------------------------------------------------------------
(* That another peer is left.                                              *)

\* An offer stays late while it is there, and what comes of a peer that has gone is.
LateKept ==
  \A c \in Cids : \A q \in haves'[c] :
    q \in late[c] \/ (q \notin haves[c] /\ ~led[q].linked) => q \in late'[c]

LEMMA OfferedKeeps ==
  ASSUME NEW H, Offered(H), H \in [Cids -> SUBSET Peers]
  PROVE  LateKept /\ late' \in [Cids -> SUBSET Peers]
BY DEF Offered, LateKept

LEMMA UnchangedKeeps ==
  ASSUME UNCHANGED offers, late \in [Cids -> SUBSET Peers]
  PROVE  LateKept /\ late' \in [Cids -> SUBSET Peers]
BY DEF LateKept

\* The late offers move with the offers.
LEMMA LateStep ==
  ASSUME Kinds, late \in [Cids -> SUBSET Peers], [Next]_vars
  PROVE  LateKept /\ late' \in [Cids -> SUBSET Peers]
<1>1. CASE UNCHANGED offers
  BY <1>1, UnchangedKeeps
<1>2. CASE Offered(haves')
  BY <1>2, KindsStep, OfferedKeeps DEF Kinds
<1>3. CASE Tick \/ LockScan \/ ScanDone \/ Tell
  BY <1>1, <1>3 DEF Tick, LockScan, ScanDone, Tell, ledger
<1>4. ASSUME NEW p \in Peers, Scan(p) PROVE UNCHANGED offers \/ Offered(haves')
  BY <1>4 DEF Scan, ScanGone, ScanEnded, ScanOut, ScanStays, ledger, Offered
<1>5. ASSUME NEW p \in Peers, NEW m \in Sents, Send(p, m) PROVE UNCHANGED offers
  BY <1>5 DEF Send, ledger
<1>6. ASSUME NEW p \in Peers, Note(p) \/ Connect(p) \/ Disconnect(p) \/ Age(p) \/ Expire(p)
      PROVE  UNCHANGED offers \/ Offered(haves')
  BY <1>6 DEF Note, NoteCancel, NoteWant, Connect, Disconnect, Age, Expire, Offered
<1>7. ASSUME NEW h \in Handlers, NEW p \in Peers, NEW m \in Messages, Receive(h, p, m)
      PROVE  Offered(haves')
  <2>1. PICK k, fwd, noted, ann : Admitted(h, p, k, fwd, noted, ann)
    BY <1>7, ReceiveIs
  <2> QED BY <2>1 DEF Admitted, Offered
<1>8. ASSUME NEW h \in Handlers, Announce(h) \/ Deliver(h) PROVE UNCHANGED offers
  BY <1>8 DEF Announce, Deliver, ledger
<1>9. CASE PassEvent \/ UNCHANGED vars
  BY <1>1, <1>9 DEF PassEvent, vars, ledger
<1> QED BY <1>1, <1>2, <1>3, <1>4, <1>5, <1>6, <1>7, <1>8, <1>9, NextIs

LateTyped == Kinds /\ late \in [Cids -> SUBSET Peers]

\* The types of the quarantine's state, for any peers, blocks and handlers.
THEOREM Types == Spec => []TypeOK
<1>1. LateTyped /\ [Next]_vars => LateTyped'
  BY KindsStep, LateStep DEF LateTyped
<1>2. LateTyped => TypeOK
  BY DEF LateTyped, Kinds, TypeOK
<1>3. Init => LateTyped
  BY KindsInit DEF Init, LateTyped
<1> QED BY <1>1, <1>2, <1>3, PTL DEF Spec

\* The book of offers: but for those that came late, they are of linked peers in
\* the rotation, for wants that these were asked for.
Offers ==
  \A c \in Cids : \A o \in haves[c] \ late[c] :
    c \in led[o].asked /\ led[o].linked /\ ~held(led[o])

\* A step on one peer's ledger keeps the book when the other peers' offers get
\* fewer, and its own are right.
LEMMA OffersKept ==
  ASSUME Kinds, Offers, LateKept, NEW p \in Peers, NEW k \in Ledgers,
         led' = [led EXCEPT ![p] = k], haves' \in [Cids -> SUBSET Peers],
         \A c \in Cids : haves'[c] \ {p} \subseteq haves[c],
         \A c \in Cids : p \in haves'[c] \ late'[c] => c \in k.asked /\ k.linked /\ ~held(k)
  PROVE  Offers'
<1>1. SUFFICES ASSUME NEW c \in Cids, NEW o \in haves'[c] \ late'[c]
               PROVE  c \in led'[o].asked /\ led'[o].linked /\ ~held(led'[o])
  BY DEF Offers
<1>2. CASE o = p
  <2>1. led'[o] = k
    BY <1>2 DEF Kinds
  <2> QED BY <1>2, <2>1
<1>3. CASE o # p
  <2>1. o \in haves[c] /\ o \notin late[c] /\ o \in Peers
    BY <1>3 DEF LateKept
  <2>2. led'[o] = led[o]
    BY <1>3, <2>1 DEF Kinds
  <2> QED BY <2>1, <2>2 DEF Offers
<1> QED BY <1>2, <1>3

\* A peer's offers are gone with what it was asked for, but for the late ones.
LEMMA OffersGo ==
  ASSUME Kinds, Offers, NEW p \in Peers
  PROVE  \A c \in Cids : /\ haveLess(p, led[p].asked)[c] \subseteq haves[c]
                         /\ p \in haveLess(p, led[p].asked)[c] => p \in late[c]
BY DEF Offers, haveLess

LEMMA LessOffers ==
  ASSUME Kinds, Offers, LateKept, NEW p \in Peers, haves' = haveLess(p, led[p].asked)
  PROVE  /\ haves' \in [Cids -> SUBSET Peers]
         /\ \A c \in Cids : haves'[c] \subseteq haves[c] /\ p \notin haves'[c] \ late'[c]
<1>1. haves' \in [Cids -> SUBSET Peers]
  BY HaveLessKind
<1>2. ASSUME NEW c \in Cids
      PROVE  haves'[c] \subseteq haves[c] /\ p \notin haves'[c] \ late'[c]
  BY OffersGo DEF LateKept
<1> QED BY <1>1, <1>2

LEMMA SameOffers ==
  ASSUME Kinds, LateKept, haves' = haves
  PROVE  /\ haves' \in [Cids -> SUBSET Peers]
         /\ \A c \in Cids : haves'[c] \ late'[c] \subseteq haves[c] \ late[c]
BY DEF Kinds, LateKept

LEMMA NoteOffers ==
  ASSUME Kinds, Offers, LateKept, NEW p \in Peers, Note(p)
  PROVE  Offers'
<1> DEFINE m == sending[p]
           b == Base(led[p], m)
           bh == BaseHaves(p, m)
<1>1. /\ led[p] \in Ledgers /\ led \in [Peers -> Ledgers] /\ m \in Sents /\ m.cid \in Cids
  BY QuarantineAssumption DEF Note, Kinds
<1>2. SetsChange(led[p], b)
  BY <1>1, BaseSets
<1>3. b \in Ledgers /\ b.linked = led[p].linked /\ (held(b) <=> held(led[p]))
  BY <1>2 DEF SetsChange, held
<1>4. /\ bh \in [Cids -> SUBSET Peers]
      /\ \A c \in Cids : bh[c] \subseteq haves[c]
      /\ \A c \in Cids : p \in bh[c] \ late[c] => c \in b.asked /\ b.linked /\ ~held(b)
  <2>1. CASE m.full
    <3>1. bh = haveLess(p, led[p].asked)
      BY <2>1 DEF BaseHaves
    <3> QED BY <3>1, OffersGo, HaveLessKind
  <2>2. CASE ~m.full
    <3>1. bh = haves /\ b = led[p]
      BY <2>2 DEF BaseHaves, Base
    <3> QED BY <3>1 DEF Offers, Kinds
  <2> QED BY <2>1, <2>2
<1>5. CASE NoteCancel(p, m)
  <2> DEFINE k == Canceled(b, m.cid)
  <2>1. led' = [led EXCEPT ![p] = k] /\ haves' = [bh EXCEPT ![m.cid] = {}]
    BY <1>1, <1>5 DEF NoteCancel, Offered
  <2> HIDE DEF b, bh
  <2>2. /\ k \in Ledgers /\ k.linked = b.linked /\ k.asked = b.asked \ {m.cid}
        /\ k.status = b.status /\ k.over = b.over
    BY <1>1, <1>3, LedgerIs DEF Ledgers, Canceled
  <2> HIDE DEF k
  <2>3. held(k) <=> held(b)
    BY <2>2 DEF held
  <2>4. /\ haves' \in [Cids -> SUBSET Peers]
        /\ \A c \in Cids : haves'[c] \subseteq haves[c]
        /\ \A c \in Cids : p \in haves'[c] \ late'[c] => p \in bh[c] \ late[c] /\ c # m.cid
    BY <1>1, <1>4, <2>1 DEF LateKept
  <2> QED BY <1>4, <2>1, <2>2, <2>3, <2>4, OffersKept
<1>6. CASE NoteWant(p, m)
  <2> DEFINE k == Asked(b, m)
  <2>1. led' = [led EXCEPT ![p] = k] /\ haves' = bh
    BY <1>1, <1>6 DEF NoteWant, Offered
  <2> HIDE DEF b, bh
  <2>2. /\ k \in Ledgers /\ k.linked = b.linked /\ k.asked = b.asked \cup {m.cid}
        /\ k.status = b.status /\ k.over = b.over
    BY <1>1, <1>3, LedgerIs DEF Ledgers, Asked
  <2> HIDE DEF k
  <2>3. held(k) <=> held(b)
    BY <2>2 DEF held
  <2>4. \A c \in Cids : p \in haves'[c] \ late'[c] => p \in bh[c] \ late[c]
    BY <2>1 DEF LateKept
  <2> QED BY <1>4, <2>1, <2>2, <2>3, <2>4, OffersKept
<1> QED BY <1>5, <1>6 DEF Note

\* The book and what a message says: an offer it adds is late or of a linked peer,
\* and what a peer is held for keeps it from offering.
LEMMA ReceiveOffers ==
  ASSUME Kinds, Offers, LateKept, NEW h \in Handlers, NEW p \in Peers, NEW m \in Messages,
         Receive(h, p, m)
  PROVE  Offers'
<1>1. PICK k, fwd, noted, ann : /\ Admission(led[p], k, fwd, noted, ann)
                                /\ Admitted(h, p, k, fwd, noted, ann)
  BY ReceiveIs
<1>2. /\ led' = [led EXCEPT ![p] = k] /\ haves' = NotedHaves(p, led[p], noted)
      /\ led[p] \in Ledgers
  BY <1>1 DEF Admitted, Kinds, Offered
<1>3. /\ k \in Ledgers /\ noted \in Said /\ k.linked = led[p].linked
      /\ k.asked = led[p].asked \ (noted.blocks \cup noted.dhs)
      /\ held(k) => held(led[p]) /\ noted.haves = {}
  BY <1>1 DEF Admission
<1>4. Noted(led[p], noted).asked = k.asked
  BY <1>2, <1>3, NotedSets
<1>5. haves' \in [Cids -> SUBSET Peers]
  BY <1>2, NotedHavesKind
<1>6. ASSUME NEW c \in Cids
      PROVE  /\ haves'[c] \ {p} \subseteq haves[c]
             /\ p \in haves'[c] => \/ p \in haves[c] /\ c \notin noted.blocks \cup noted.dhs
                                   \/ c \in noted.haves \cap k.asked
  BY <1>2, <1>4 DEF NotedHaves
<1>7. ASSUME NEW c \in Cids, p \in haves'[c] \ late'[c]
      PROVE  c \in k.asked /\ k.linked /\ ~held(k)
  <2>1. p \notin late[c] /\ (p \notin haves[c] => led[p].linked)
    BY <1>7 DEF LateKept
  <2> QED BY <1>3, <1>6, <1>7, <2>1 DEF Offers
<1> QED BY <1>2, <1>3, <1>5, <1>6, <1>7, OffersKept

LEMMA OffersStep == ASSUME LateTyped, Offers, [Next]_vars PROVE Offers'
<1>0. Kinds /\ LateKept
  BY LateStep DEF LateTyped
<1>1. CASE Tick
  <2>1. \A p \in Peers : led'[p] = led[p] \/ ~led[p].linked
    BY <1>0, <1>1 DEF Tick, Dropped, Gone
  <2> QED BY <1>0, <1>1, <2>1 DEF Tick, Offers, Kinds
<1>2. CASE LockScan \/ ScanDone \/ Tell
  BY <1>2 DEF LockScan, ScanDone, Tell, ledger, Offers
<1>3. ASSUME NEW p \in Peers, Scan(p) PROVE Offers'
  <2>1. PICK k \in Ledgers :
          /\ led' = [led EXCEPT ![p] = k]
          /\ \/ haves' = haves /\ led[p].linked = FALSE
             \/ /\ haves' = haves
                /\ k.status = "in" /\ k.linked = led[p].linked /\ k.asked = led[p].asked
             \/ haves' = haveLess(p, led[p].asked)
             \/ haves' = haves /\ k = led[p]
    BY <1>0, <1>3, ScanIs
  <2>3. CASE haves' = haves /\ led[p].linked = FALSE
    BY <1>0, <2>1, <2>3, OffersKept, SameOffers DEF Offers
  <2>4. CASE /\ haves' = haves
             /\ k.status = "in" /\ k.linked = led[p].linked /\ k.asked = led[p].asked
    BY <1>0, <2>1, <2>4, OffersKept, SameOffers DEF Offers, held
  <2>5. CASE haves' = haveLess(p, led[p].asked)
    BY <1>0, <2>1, <2>5, OffersKept, LessOffers
  <2>6. CASE haves' = haves /\ k = led[p]
    BY <1>0, <2>1, <2>6, OffersKept, SameOffers DEF Offers
  <2> QED BY <2>1, <2>3, <2>4, <2>5, <2>6
<1>4. ASSUME NEW p \in Peers, NEW m \in Sents, Send(p, m) PROVE Offers'
  BY <1>4 DEF Send, ledger, Offers
<1>5. ASSUME NEW p \in Peers, Note(p) PROVE Offers'
  BY <1>0, <1>5, NoteOffers
<1>6. ASSUME NEW p \in Peers, Connect(p) \/ Disconnect(p) \/ Age(p) \/ Expire(p)
      PROVE  Offers'
  <2>1. PICK k \in Ledgers : /\ led' = [led EXCEPT ![p] = k] /\ k.status = led[p].status
                             /\ held(k) => held(led[p])
                             /\ LinkMoves(p, led[p], k)
    BY <1>0, <1>6, OwnStep
  <2>2. CASE Disconnect(p)
    <3>1. haves' = haveLess(p, led[p].asked)
      BY <2>2 DEF Disconnect, Offered
    <3> QED BY <1>0, <2>1, <3>1, OffersKept, LessOffers
  <2>3. CASE Connect(p)
    <3>1. led'[p].asked = led[p].asked /\ led'[p].linked = TRUE /\ haves' = haves
      BY <1>0, <2>3 DEF Connect, Kinds
    <3> QED BY <1>0, <2>1, <3>1, OffersKept, SameOffers DEF Offers, Kinds
  <2>4. CASE Age(p) \/ Expire(p)
    <3>1. haves' = haves /\ led'[p] = k
      BY <1>0, <2>1, <2>4 DEF Age, Expire, Kinds
    <3>2. \/ \E C : led' = [led EXCEPT ![p].old = led[p].old \cup C]
          \/ led' = [led EXCEPT ![p].over = TRUE]
      BY <2>4 DEF Age, Expire
    <3>3. led[p] \in Ledgers /\ led \in [Peers -> Ledgers]
      BY <1>0 DEF Kinds
    <3>4. led'[p].asked = led[p].asked /\ led'[p].linked = led[p].linked
      BY <3>2, <3>3, LedgerIs DEF Ledgers
    <3> QED BY <1>0, <2>1, <3>1, <3>4, OffersKept, SameOffers DEF Offers, Kinds
  <2> QED BY <1>6, <2>2, <2>3, <2>4
<1>7. ASSUME NEW h \in Handlers, NEW p \in Peers, NEW m \in Messages, Receive(h, p, m)
      PROVE  Offers'
  BY <1>0, <1>7, ReceiveOffers
<1>8. ASSUME NEW h \in Handlers, Announce(h) \/ Deliver(h) PROVE Offers'
  BY <1>8 DEF Announce, Deliver, ledger, Offers
<1>9. CASE PassEvent \/ UNCHANGED vars
  BY <1>9 DEF PassEvent, vars, ledger, Offers
<1> QED BY <1>1, <1>2, <1>3, <1>4, <1>5, <1>6, <1>7, <1>8, <1>9, NextIs

\* A peer goes out in a scan only.
LEMMA OutByScan ==
  ASSUME Kinds, [Next]_vars, NEW p \in Peers, led[p].status # "out", led'[p].status = "out"
  PROVE  GoesOut(p)
<1>1. CASE Tick
  BY <1>1, FreshIs DEF Tick, Dropped
<1>2. CASE LockScan \/ ScanDone \/ Tell
  BY <1>2 DEF LockScan, ScanDone, Tell, ledger
<1>3. ASSUME NEW q \in Peers, Scan(q) PROVE GoesOut(p)
  <2>1. PICK k \in Ledgers :
          /\ led' = [led EXCEPT ![q] = k]
          /\ k = Fresh \/ k.status = "in" \/ GoesOut(q) \/ k = led[q]
    BY <1>3, ScanIs
  <2>2. q = p /\ led'[p] = k
    BY <2>1 DEF Kinds
  <2> QED BY <2>1, <2>2, FreshIs
<1>4. ASSUME NEW q \in Peers, NEW m \in Sents, Send(q, m) PROVE FALSE
  BY <1>4 DEF Send, ledger
<1>5. ASSUME NEW q \in Peers, Note(q) \/ Connect(q) \/ Disconnect(q) \/ Age(q) \/ Expire(q)
      PROVE  FALSE
  <2>1. PICK k \in Ledgers : led' = [led EXCEPT ![q] = k] /\ k.status = led[q].status
    BY <1>5, OwnStep
  <2> QED BY <2>1 DEF Kinds
<1>6. ASSUME NEW h \in Handlers, NEW q \in Peers, NEW m \in Messages, Receive(h, q, m)
      PROVE  FALSE
  <2>1. PICK k, fwd, noted, ann : /\ Admission(led[q], k, fwd, noted, ann)
                                  /\ Admitted(h, q, k, fwd, noted, ann)
    BY <1>6, ReceiveIs
  <2>2. led' = [led EXCEPT ![q] = k] /\ (k.status = "out" => led[q].status = "out")
    BY <2>1 DEF Admission, Admitted, Offered
  <2> QED BY <2>2 DEF Kinds
<1>7. ASSUME NEW h \in Handlers, Announce(h) \/ Deliver(h) PROVE FALSE
  BY <1>7 DEF Announce, Deliver, ledger
<1>8. CASE PassEvent \/ UNCHANGED vars
  BY <1>8 DEF PassEvent, vars, ledger
<1> QED BY <1>1, <1>2, <1>3, <1>4, <1>5, <1>6, <1>7, <1>8, NextIs

\* Whoever offers is linked and in the rotation, and who is put out leaves such a
\* peer that said HAVE for a want it sat on, but for the offers that were noted of
\* a peer whose connection was gone: OffersAreInRotation and SoleProviderStays
\* (stuck, offeredElsewhere and noteReceived).
THEOREM OnlyALateOfferMisleads == Spec => []OffersAreInRotation /\ SoleProviderStays
<1> DEFINE Book == LateTyped /\ Offers
<1>1. Init => Book
  BY KindsInit DEF Init, Offers, LateTyped
<1>2. Book /\ [Next]_vars => Book'
  BY KindsStep, LateStep, OffersStep DEF LateTyped
<1>3. Book /\ [Next]_vars => [LeavesAnother]_vars
  <2> SUFFICES ASSUME Kinds, Offers, [Next]_vars, NEW p \in Peers,
                      led[p].status # "out", led'[p].status = "out"
               PROVE  \E c \in led[p].old, o \in Peers \ {p} :
                        /\ o \in haves[c]
                        /\ o \in late[c] \/ (led[o].linked /\ ~held(led[o]))
    BY DEF LeavesAnother, LateTyped
  <2>1. PICK c \in led[p].old : haves[c] \ {p} # {}
    BY OutByScan DEF GoesOut, offeredElsewhere
  <2>2. c \in Cids
    BY LedgerIs DEF Kinds
  <2>3. PICK o \in haves[c] : o # p
    BY <2>1
  <2>4. o \in Peers
    BY <2>2, <2>3 DEF Kinds
  <2> QED BY <2>1, <2>2, <2>3, <2>4 DEF Offers
<1>4. Book => OffersAreInRotation
  BY DEF Offers, OffersAreInRotation
<1> QED BY <1>1, <1>2, <1>3, <1>4, PTL DEF Spec, SoleProviderStays

-----------------------------------------------------------------------------
(* What the client is told of peers that come and go.  Handlers and the    *)
(* network's worker share dmu: a delivery that brings its peer back tells  *)
(* the client after its section, when the peer may have left, or another   *)
(* delivery of it have passed.                                             *)

Delivers(p) == \E h \in Handlers, m \in Messages : Receive(h, p, m)

LateAnnouncement == \E h \in Handlers : Announce(h) /\ ~led[rx[h].peer].linked
Overtaking == \E p \in Peers : Delivers(p) /\ \E g \in Handlers : Carries(g, p) /\ rx[g].ann
CooledUnseen == \E p \in Peers : Delivers(p) /\ led[p].status = "out" /\ led[p].over

Down(p) == [kind |-> "down", peer |-> p]
Up(p) == [kind |-> "up", peer |-> p]

\* Only a disconnect takes the link of a peer.
LEMMA LinkStays ==
  ASSUME Kinds, [Next]_vars, NEW p \in Peers, led[p].linked
  PROVE  led'[p].linked \/ (ev = None /\ ev' = Down(p))
<1>1. CASE Tick
  BY <1>1 DEF Tick, Dropped, Gone
<1>2. CASE LockScan \/ ScanDone \/ Tell
  BY <1>2 DEF LockScan, ScanDone, Tell, ledger
<1>3. ASSUME NEW q \in Peers, Scan(q) PROVE led'[p].linked
  <2>1. PICK k \in Ledgers : /\ led' = [led EXCEPT ![q] = k]
                             /\ led[q].linked = FALSE \/ k.linked = led[q].linked
    BY <1>3, ScanIs
  <2> QED BY <2>1 DEF Kinds
<1>4. ASSUME NEW q \in Peers, NEW m \in Sents, Send(q, m) PROVE led'[p].linked
  BY <1>4 DEF Send, ledger
<1>5. ASSUME NEW q \in Peers, Note(q) \/ Connect(q) \/ Disconnect(q) \/ Age(q) \/ Expire(q)
      PROVE  led'[p].linked \/ (ev = None /\ ev' = Down(p))
  <2>1. PICK k \in Ledgers : led' = [led EXCEPT ![q] = k] /\ LinkMoves(q, led[q], k)
    BY <1>5, OwnStep
  <2> QED BY <2>1 DEF LinkMoves, Kinds, Down
<1>6. ASSUME NEW h \in Handlers, NEW q \in Peers, NEW m \in Messages, Receive(h, q, m)
      PROVE  led'[p].linked
  <2>1. PICK k, fwd, noted, ann : /\ Admission(led[q], k, fwd, noted, ann)
                                  /\ Admitted(h, q, k, fwd, noted, ann)
    BY <1>6, ReceiveIs
  <2>2. led' = [led EXCEPT ![q] = k] /\ k.linked = led[q].linked
    BY <2>1 DEF Admission, Admitted, Offered
  <2> QED BY <2>2 DEF Kinds
<1>7. ASSUME NEW h \in Handlers, Announce(h) \/ Deliver(h) PROVE led'[p].linked
  BY <1>7 DEF Announce, Deliver, ledger
<1>8. CASE PassEvent \/ UNCHANGED vars
  BY <1>8 DEF PassEvent, vars, ledger
<1> QED BY <1>1, <1>2, <1>3, <1>4, <1>5, <1>6, <1>7, <1>8, NextIs

\* Whom the client knows, or is to be told of, is linked, but for the peer whose
\* disconnect is on its way.
KnownAreLinked ==
  /\ \A p \in known : led[p].linked \/ ev = Down(p)
  /\ \A p \in backs : led[p].linked
  /\ \A p \in Peers : ev = Up(p) => led[p].linked

GoneInv == Kinds /\ MovedBy /\ KnownAreLinked

\* A step that brings nobody to the client keeps it.
LEMMA KnownLinkedKept ==
  ASSUME GoneInv, [Next]_vars, known' \subseteq known, check # "idle" \/ backs' = {},
         ev' = ev \/ ev = None,
         \A p \in Peers : ev' = Up(p) => ev = Up(p) \/ led'[p].linked,
         \A p \in backs' : p \in Peers /\ (p \in backs \/ led[p].linked),
         check # "idle" => ev' = ev
  PROVE  KnownAreLinked'
<1> USE DEF GoneInv, Kinds
<1>1. \A p \in Peers : led[p].linked => led'[p].linked \/ (ev = None /\ ev' = Down(p))
  BY LinkStays
<1>2. \A p \in Peers : Down(p) # None /\ Up(p) # None /\ \A q \in Peers : Up(p) # Down(q)
  BY DEF Down, Up, None
<1>3. \A p \in known' : led'[p].linked \/ ev' = Down(p)
  BY <1>1, <1>2 DEF KnownAreLinked
<1>4. \A p \in backs' : led'[p].linked
  BY <1>1, <1>2 DEF KnownAreLinked
<1>5. \A p \in Peers : ev' = Up(p) => led'[p].linked
  BY <1>1, <1>2 DEF KnownAreLinked
<1> QED BY <1>3, <1>4, <1>5 DEF KnownAreLinked, Down, Up

LEMMA KnownLinkedStep ==
  ASSUME GoneInv, [Next]_vars, ~LateAnnouncement \/ UNCHANGED vars
  PROVE  KnownAreLinked'
<1> USE DEF GoneInv
<1>1. CASE Tick
  BY <1>1, KnownLinkedKept DEF Tick, MovedBy
<1>2. CASE LockScan
  BY <1>2, KnownLinkedKept DEF LockScan, Kinds, ledger
<1>3. CASE ScanDone
  BY <1>3, KnownLinkedKept DEF ScanDone, Kinds, ledger
<1>4. ASSUME NEW p \in Peers, Scan(p) PROVE KnownAreLinked'
  <2>1. check = "scan" /\ UNCHANGED <<ev, known>>
    BY <1>4, ScanIs
  <2>2. backs' = backs \/ (backs' = backs \cup {p} /\ led[p].linked)
    BY <1>4 DEF Scan, ScanGone, ScanEnded, ScanOut, ScanStays, Gone, Ended, ledger, Offered
  <2> QED BY <2>1, <2>2, KnownLinkedKept DEF Kinds
<1>5. CASE Tell
  BY <1>5 DEF Tell, ledger, KnownAreLinked, Down, Up
<1>6. ASSUME NEW p \in Peers, NEW m \in Sents, Send(p, m) PROVE KnownAreLinked'
  BY <1>6 DEF Send, ledger, KnownAreLinked, Down, Up
<1>7. ASSUME NEW p \in Peers, Note(p) \/ Connect(p) \/ Disconnect(p) \/ Age(p) \/ Expire(p)
      PROVE  KnownAreLinked'
  <2>1. PICK k \in Ledgers : led' = [led EXCEPT ![p] = k] /\ LinkMoves(p, led[p], k)
    BY <1>7, OwnStep
  <2>2. check # "scan" /\ UNCHANGED <<check, backs, known>>
    BY <1>7, OwnStep
  <2>3. ev' = ev \/ (ev = None /\ check = "idle")
    BY <2>1 DEF LinkMoves
  <2>4. \A q \in Peers : ev' = Up(q) => ev = Up(q) \/ led'[q].linked
    BY <2>1 DEF LinkMoves, Up, None, Kinds
  <2>5. check # "idle" \/ backs' = {}
    BY <2>2 DEF MovedBy
  <2> QED BY <2>2, <2>3, <2>4, <2>5, KnownLinkedKept DEF Kinds
<1>8. ASSUME NEW h \in Handlers, NEW p \in Peers, NEW m \in Messages, Receive(h, p, m)
      PROVE  KnownAreLinked'
  BY <1>8, ReceiveIs, KnownLinkedKept DEF MovedBy
<1>9. ASSUME NEW h \in Handlers, Announce(h) PROVE KnownAreLinked'
  <2>1. led[rx[h].peer].linked \/ UNCHANGED vars
    BY <1>9 DEF LateAnnouncement
  <2>2. UNCHANGED <<led, ev, backs>> /\ known' = known \cup {rx[h].peer}
    BY <1>9 DEF Announce, ledger
  <2>3. CASE led[rx[h].peer].linked
    BY <2>2, <2>3 DEF KnownAreLinked, Down, Up
  <2>4. CASE UNCHANGED vars
    BY <2>4 DEF vars, ledger, KnownAreLinked, Down, Up
  <2> QED BY <2>1, <2>3, <2>4
<1>10. ASSUME NEW h \in Handlers, Deliver(h) PROVE KnownAreLinked'
  BY <1>10 DEF Deliver, ledger, KnownAreLinked, Down, Up
<1>11. CASE PassEvent
  <2>1. UNCHANGED <<led, backs>> /\ ev # None /\ ev' = None
    BY <1>11 DEF PassEvent, ledger
  <2>2. \A p \in Peers : Up(p) # None
    BY DEF Up, None
  <2>3. \A p \in known' : led[p].linked
    <3>1. CASE ev.kind = "up"
      <4>1. ev = Up(ev.peer) /\ ev.peer \in Peers
        BY <2>1, <3>1 DEF Kinds, Up
      <4>2. \A p \in known : ev # Down(p)
        BY <4>1 DEF Up, Down
      <4> QED BY <1>11, <3>1, <4>1, <4>2 DEF PassEvent, KnownAreLinked
    <3>2. CASE ev.kind # "up"
      BY <1>11, <3>2 DEF PassEvent, KnownAreLinked, Down
    <3> QED BY <3>1, <3>2
  <2> QED BY <2>1, <2>2, <2>3 DEF KnownAreLinked, Down, Up
<1>12. CASE UNCHANGED vars
  BY <1>12 DEF vars, ledger, KnownAreLinked, Down, Up
<1> QED BY <1>1, <1>2, <1>3, <1>4, <1>5, <1>6, <1>7, <1>8, <1>9, <1>10, <1>11, <1>12, NextIs

\* A peer that left is not known to the client as there, once the calls on their way
\* are through, unless a delivery that brought it back announces it after its
\* disconnect: check, PeerDisconnected and ReceiveMessage, which hold dmu shared.
THEOREM OnlyALateAnnouncementMisleads ==
  Spec /\ [][~LateAnnouncement]_vars => []GoneIsUnknown
<1>1. Init => GoneInv
  BY KindsInit, FreshIs DEF Init, GoneInv, MovedBy, KnownAreLinked, None, Up
<1>2. GoneInv /\ [Next]_vars /\ [~LateAnnouncement]_vars => GoneInv'
  BY KindsStep, MovedStep, KnownLinkedStep DEF GoneInv
<1>3. GoneInv => GoneIsUnknown
  <2>1. \A p \in Peers : Down(p) # None
    BY DEF Down, None
  <2> QED BY <2>1 DEF GoneInv, KnownAreLinked, GoneIsUnknown, Kinds
<1> QED BY <1>1, <1>2, <1>3, PTL DEF Spec

\* What a handler has still to deliver is of a peer the client knows, or hears of
\* first.
Told ==
  \A h \in Handlers :
    rx[h] # None /\ ~rx[h].ann /\ led[rx[h].peer].linked /\ rx[h].fwd.blocks # {}
      => rx[h].peer \in known \/ ev = Up(rx[h].peer)

ToldInv == LinkedInv /\ HeldOffersNothing /\ Told

\* A step of neither the handlers nor the worker, that takes nobody from the client.
LEMMA ToldKept ==
  ASSUME Told, \A p \in Peers : led'[p].linked => led[p].linked, Kinds,
         UNCHANGED <<rx, ev>>, known \subseteq known'
  PROVE  Told'
BY CarriedIs DEF Told, Kinds

\* Who delivers, linked, without overtaking and not cooled unseen, is known to the
\* client or about to be.
LEMMA ReceiveTells ==
  ASSUME LinkedInv, NEW h \in Handlers, NEW p \in Peers, NEW m \in Messages, Receive(h, p, m),
         ~Overtaking, ~CooledUnseen, led[p].linked, rx'[h] # None
  PROVE  rx'[h].ann \/ rx'[h].fwd.blocks = {} \/ p \in known \/ ev = Up(p)
<1> USE DEF LinkedInv
<1>1. Delivers(p) /\ check = "idle" /\ led[p] \in Ledgers /\ m \in Said
  BY ReceiveIs, MessageParts DEF Delivers, Kinds
<1>2. CASE led[p].status # "out"
  <2>1. p \notin outs \cup backs
    BY <1>1 DEF MovedBy
  <2>2. p \in known \/ ev = Up(p) \/ \E g \in Handlers : Carries(g, p) /\ rx[g].ann
    BY <1>2, <2>1 DEF LinkedIsKnown, Up
  <2> QED BY <1>1, <2>2 DEF Overtaking
<1>3. CASE led[p].status = "out"
  <2>1. ~led[p].over
    BY <1>1, <1>3 DEF CooledUnseen
  <2>2. held(led[p])
    BY <1>3, <2>1 DEF held
  <2>3. Paid(led[p], m).linked = led[p].linked
    BY <1>1, PaidSets DEF SetsChange
  <2>4. \A k, fwd, noted, ann : Admitted(h, p, k, fwd, noted, ann) =>
          rx'[h] = [kind |-> "msg", peer |-> p, fwd |-> fwd, ann |-> ann]
    BY DEF Admitted, Kinds, Offered
  <2>5. CASE AdmitSettled(h, p, m)
    <3>1. rx'[h] = [kind |-> "msg", peer |-> p, fwd |-> m,
                    ann |-> led[p].status = "out" /\ Paid(led[p], m).linked]
      BY <2>4, <2>5 DEF AdmitSettled
    <3>2. rx'[h].ann = (led[p].status = "out" /\ Paid(led[p], m).linked)
      BY <3>1
    <3> QED BY <1>3, <2>3, <3>2
  <2>6. CASE AdmitProbation(h, p, m)
    <3>1. rx'[h] = [kind |-> "msg", peer |-> p, fwd |-> withoutHaves(m),
                    ann |-> led[p].status = "out" /\ Paid(led[p], m).linked]
      BY <2>4, <2>6 DEF AdmitProbation
    <3>2. rx'[h].ann = (led[p].status = "out" /\ Paid(led[p], m).linked)
      BY <3>1
    <3> QED BY <1>3, <2>3, <3>2
  <2>7. CASE AdmitOut(h, p, m)
    <3>1. rx'[h] = [kind |-> "msg", peer |-> p, fwd |-> wantsOnly(m), ann |-> FALSE]
      BY <2>4, <2>7 DEF AdmitOut
    <3> QED BY <3>1, MessageParts
  <2> QED BY <2>2, <2>5, <2>6, <2>7 DEF Receive, AdmitFree
<1> QED BY <1>2, <1>3

LEMMA ToldStep ==
  ASSUME ScansAlone, ToldInv, [Next]_vars, (~Overtaking /\ ~CooledUnseen) \/ UNCHANGED vars
  PROVE  Told'
<1> USE DEF ToldInv, LinkedInv
<1>1. CASE Tick
  <2>1. \A p \in Peers : led'[p] = Fresh \/ led'[p] = led[p]
    BY <1>1 DEF Tick, Dropped
  <2>2. UNCHANGED <<rx, ev, known>>
    BY <1>1 DEF Tick
  <2> QED BY <2>1, <2>2, FreshIs, ToldKept
<1>2. CASE LockScan \/ ScanDone
  BY <1>2, ToldKept DEF LockScan, ScanDone, ledger
<1>3. CASE Tell \/ \E p \in Peers : Scan(p)
  BY <1>3 DEF Tell, Scan, ScansAlone, NoReaders, Told
<1>4. ASSUME NEW p \in Peers, NEW m \in Sents, Send(p, m) PROVE Told'
  BY <1>4, ToldKept DEF Send, ledger
<1>5. ASSUME NEW p \in Peers, Connect(p) PROVE Told'
  <2>1. /\ ev = None /\ UNCHANGED <<rx, known>>
        /\ \A q \in Peers : q # p => led'[q] = led[q]
        /\ ~outAt(led[p]) => ev' = Up(p)
    BY <1>5 DEF Connect, Up, Kinds
  <2>2. \A q \in Peers : Up(q) # None
    BY DEF Up, None
  <2>3. ASSUME NEW h \in Handlers, rx[h] # None, ~rx[h].ann, rx[h].fwd.blocks # {},
               led'[rx[h].peer].linked
        PROVE  rx[h].peer \in known \/ ev' = Up(rx[h].peer)
    <3>1. rx[h].peer \in Peers
      BY <2>3, CarriedIs DEF Kinds
    <3>2. CASE rx[h].peer = p
      <4>1. ~outAt(led[p])
        BY <2>3, <3>2 DEF HeldOffersNothing, Carries, outAt
      <4> QED BY <2>1, <3>2, <4>1
    <3>3. CASE rx[h].peer # p
      BY <2>1, <2>2, <2>3, <3>1, <3>3 DEF Told
    <3> QED BY <3>2, <3>3
  <2> QED BY <2>1, <2>3 DEF Told
<1>6. ASSUME NEW p \in Peers, Disconnect(p) PROVE Told'
  <2>1. /\ ev = None /\ UNCHANGED <<rx, known>> /\ ~led'[p].linked
        /\ \A q \in Peers : q # p => led'[q] = led[q]
    BY <1>6 DEF Disconnect, Kinds, Ledgers, Offered
  <2>2. \A q \in Peers : Up(q) # None
    BY DEF Up, None
  <2>3. \A h \in Handlers : rx[h] # None => rx[h].peer \in Peers
    BY CarriedIs DEF Kinds
  <2> QED BY <2>1, <2>2, <2>3 DEF Told
<1>7. ASSUME NEW p \in Peers, Note(p) \/ Age(p) \/ Expire(p), ~Connect(p), ~Disconnect(p)
      PROVE  Told'
  <2>1. PICK k \in Ledgers : led' = [led EXCEPT ![p] = k] /\ k.linked = led[p].linked
    BY <1>7, OwnStep
  <2>2. UNCHANGED <<rx, known, ev>>
    BY <1>7 DEF Note, Age, Expire
  <2> QED BY <2>1, <2>2, ToldKept DEF Kinds
<1>8. ASSUME NEW h \in Handlers, NEW p \in Peers, NEW m \in Messages, Receive(h, p, m)
      PROVE  Told'
  <2>1. PICK k, fwd, noted, ann : /\ Admission(led[p], k, fwd, noted, ann)
                                  /\ Admitted(h, p, k, fwd, noted, ann)
    BY <1>8, ReceiveIs
  <2>2. UNCHANGED <<ev, known>> /\ rx[h] = None
    BY <1>8, ReceiveIs
  <2>3. /\ \A q \in Peers : led'[q].linked = led[q].linked
        /\ \A g \in Handlers : g # h => rx'[g] = rx[g]
        /\ rx'[h] = None \/ rx'[h] = [kind |-> "msg", peer |-> p, fwd |-> fwd, ann |-> ann]
    BY <2>1 DEF Admission, Admitted, Kinds, Offered
  <2>4. rx'[h] # None => rx'[h].peer = p
    BY <2>3
  <2>5. CASE ~Overtaking /\ ~CooledUnseen
    <3>1. led[p].linked /\ rx'[h] # None =>
            rx'[h].ann \/ rx'[h].fwd.blocks = {} \/ p \in known \/ ev = Up(p)
      BY <1>8, <2>5, ReceiveTells
    <3>2. \A g \in Handlers : rx[g] # None => rx[g].peer \in Peers
      BY CarriedIs DEF Kinds
    <3> QED BY <2>2, <2>3, <2>4, <3>1, <3>2 DEF Told
  <2>6. CASE UNCHANGED vars
    BY <2>6 DEF vars, ledger, Told
  <2> QED BY <2>5, <2>6
<1>9. ASSUME NEW h \in Handlers, Announce(h) \/ Deliver(h) PROVE Told'
  <2>1. /\ rx[h] # None /\ rx[h] \in Carried /\ UNCHANGED <<led, ev>> /\ known \subseteq known'
        /\ \A g \in Handlers : g # h => rx'[g] = rx[g]
        /\ rx'[h] = None \/ (rx'[h].peer = rx[h].peer /\ rx[h].peer \in known')
    <3>1. rx[h] # None /\ rx[h] \in Carried /\ rx \in [Handlers -> Carried]
      BY <1>9 DEF Announce, Deliver, Kinds
    <3>2. CASE Announce(h)
      <4>1. /\ known' = known \cup {rx[h].peer} /\ UNCHANGED <<led, ev>>
            /\ \/ rx' = [rx EXCEPT ![h] = None]
               \/ rx' = [rx EXCEPT ![h] = [rx[h] EXCEPT !.ann = FALSE]]
        BY <3>1, <3>2 DEF Announce, ledger
      <4> QED BY <3>1, <4>1, CarriedIs
    <3>3. CASE Deliver(h)
      BY <3>1, <3>3 DEF Deliver, ledger
    <3> QED BY <1>9, <3>2, <3>3
  <2> QED BY <2>1 DEF Told
<1>10. CASE PassEvent
  <2>1. UNCHANGED <<led, rx>> /\ ev # None
    BY <1>10 DEF PassEvent, ledger
  <2>2. \A h \in Handlers : rx[h] # None => rx[h].peer \in Peers
    BY CarriedIs DEF Kinds
  <2>3. CASE ev.kind = "up"
    <3>1. known' = known \cup {ev.peer}
      BY <1>10, <2>3 DEF PassEvent
    <3>2. \A p \in Peers : ev = Up(p) => ev.peer = p
      BY DEF Up
    <3> QED BY <2>1, <2>2, <3>1, <3>2 DEF Told
  <2>4. CASE ev.kind # "up"
    <3>1. known' = known \ {ev.peer} /\ ~led[ev.peer].linked
      BY <1>10, <2>1, <2>4 DEF PassEvent, GoneBelow, Kinds
    <3>2. \A p \in Peers : ev # Up(p)
      BY <2>4 DEF Up
    <3> QED BY <2>1, <2>2, <3>1, <3>2 DEF Told
  <2> QED BY <2>3, <2>4
<1>11. CASE UNCHANGED vars
  BY <1>11 DEF vars, ledger, Told
<1> QED BY <1>1, <1>2, <1>3, <1>4, <1>5, <1>6, <1>7, <1>8, <1>9, <1>10, <1>11, NextIs

\* What a linked peer delivers reaches the client after the client is told that it
\* is back, unless it comes while the announcement of another delivery is on its way,
\* or after the cooldown and before the scan that ends it: BackIsToldFirst
\* (ReceiveMessage and admit).
THEOREM OnlyTwoOrdersHideADelivery ==
  Spec /\ [][~Overtaking /\ ~CooledUnseen]_vars => []BackIsToldFirst
<1>1. Init => ToldInv
  BY KindsInit, FreshIs DEF Init, ToldInv, LinkedInv, ScansAlone, GoneBelow, MovedBy,
     LinkedIsKnown, HeldOffersNothing, Carries, Told
<1>2. ToldInv /\ [Next]_vars /\ [~Overtaking /\ ~CooledUnseen]_vars => ToldInv'
  <2>1. ToldInv => Holding /\ LinkedInv /\ ScansAlone
    BY DEF ToldInv, LinkedInv, Holding
  <2>2. LinkedInv /\ [Next]_vars => LinkedInv'
    BY KindsStep, ScansAloneStep, GoneStep, MovedStep, LinkedStep DEF LinkedInv
  <2> QED BY <2>1, <2>2, HoldStep, ToldStep DEF ToldInv
<1>3. ToldInv => BackIsToldFirst
  <2>1. \A p \in Peers : Up(p) # None
    BY DEF Up, None
  <2>2. Kinds => \A h \in Handlers : rx[h] # None => rx[h].peer \in Peers
    BY CarriedIs DEF Kinds
  <2> QED BY <2>1, <2>2 DEF ToldInv, LinkedInv, Told, BackIsToldFirst
<1> QED BY <1>1, <1>2, <1>3, PTL DEF Spec
=============================================================================
