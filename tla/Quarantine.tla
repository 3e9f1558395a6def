----------------------------- MODULE Quarantine -----------------------------
(***************************************************************************)
(* The quarantine (quarantine.go): between the bitswap client and the      *)
(* network, it takes a peer that sits on want-blocks out of the client's   *)
(* rotation while another peer offers them, and brings it back.            *)
(*                                                                         *)
(* Two locks: mu makes each bookkeeping section one step, dmu is held      *)
(* shared while a message or a connect event reaches bitswap, exclusively  *)
(* while check moves peers.  A handler is the pair of its section and its  *)
(* calls of the client, which come later.  The clock is left out: a want   *)
(* gets old, a cooldown ends and a record is forgotten at any time.        *)
(***************************************************************************)
EXTENDS Naturals, FiniteSets

CONSTANTS
  Peers, Cids,
  Handlers, \* the goroutines that bring messages of the peers
  Messages, \* what a peer may say in one message
  Sents,    \* what the client may send in one message
  MaxUnnoted \* how many of its messages are out and not noted yet

ASSUME QuarantineAssumption ==
  /\ Messages \subseteq [blocks : SUBSET Cids, haves : SUBSET Cids,
                         dhs : SUBSET Cids, wants : BOOLEAN]
  /\ Sents \subseteq [kind : {"block", "have", "cancel"}, cid : Cids, full : BOOLEAN]
  /\ MaxUnnoted \in Nat

VARIABLES
  led,     \* q.peers; a missing ledger is Fresh
  haves,   \* q.haves
  late,    \* history: the offers of q.haves that were noted of a peer that had gone
  check,   \* where q.check is: "idle", "lock" (dmu), "scan" (mu) or "tell"
  todo,    \* the ledgers its scan has not come to
  outs, backs, \* what its scan moved
  rx,      \* what each handler has admitted and not handed on
  ev,      \* the connect event on its way, in the network's one worker
  sending, \* what went out to a peer and is not noted yet
  known    \* external: the peers the client takes for connected

offers == <<haves, late>>
ledger == <<led, offers>>
vars == <<ledger, check, todo, outs, backs, rx, ev, sending, known>>

\* wanted, asked, owed as in the code; old: the wants neither answered nor
\* followed by a block for hold(); over: until has passed.  The offences, which
\* only set how long until is, are left out.
Fresh == [wanted |-> {}, old |-> {}, asked |-> {}, owed |-> {},
          status |-> "in", over |-> FALSE, linked |-> FALSE]

Ledgers ==
  [wanted : SUBSET Cids, old : SUBSET Cids, asked : SUBSET Cids,
   owed : SUBSET Cids, status : {"in", "out", "probation"}, over : BOOLEAN, linked : BOOLEAN]

Empty == [blocks |-> {}, haves |-> {}, dhs |-> {}, wants |-> FALSE]

None == [kind |-> "none"]

\* held and outAt.
held(l) == l.status # "in" /\ ~l.over
outAt(l) == l.status = "out" /\ held(l)

muFree == check # "scan"
\* A writer that waits keeps new readers out.
RLock == check = "idle"
NoReaders == ev = None /\ \A h \in Handlers : rx[h] = None

(***************************************************************************)
(* run and check                                                           *)
(***************************************************************************)
offeredElsewhere(c, p) == haves[c] \ {p} # {}

Gone(l) == ~l.linked /\ ~held(l)
Ended(l) == l.status # "in" /\ ~held(l)
GoesOut(p) ==
  ~Ended(led[p]) /\ ~outAt(led[p]) /\ \E c \in led[p].old : offeredElsewhere(c, p)

Dropped == [p \in Peers |-> IF Gone(led[p]) THEN Fresh ELSE led[p]]

\* scan(false): only a tick that moves someone goes on.
Tick ==
  /\ check = "idle"
  /\ led' = Dropped
  /\ check' = IF \E p \in Peers : ~Gone(led[p]) /\ (Ended(led[p]) \/ GoesOut(p))
                THEN "lock" ELSE "idle"
  /\ UNCHANGED <<offers, todo, outs, backs, rx, ev, sending, known>>

\* dmu.Lock, and scan(true) takes mu: it looks again.
LockScan ==
  /\ check = "lock" /\ NoReaders
  /\ check' = "scan" /\ todo' = Peers
  /\ UNCHANGED <<ledger, outs, backs, rx, ev, sending, known>>

\* q.haves becomes H; what it gains is late if the peer it comes from is not linked.
Offered(H) ==
  /\ haves' = H
  /\ late' = [c \in Cids |->
       {p \in H[c] : p \in late[c] \/ (p \notin haves[c] /\ ~led[p].linked)}]

\* dropAsked and forgetHave over its offers.
haveLess(p, C) == [c \in Cids |-> IF c \in C THEN haves[c] \ {p} ELSE haves[c]]

ScanGone(p) ==
  /\ Gone(led[p])
  /\ led' = [led EXCEPT ![p] = Fresh]
  /\ UNCHANGED <<offers, outs, backs>>

ScanEnded(p) ==
  /\ ~Gone(led[p]) /\ Ended(led[p])
  /\ led' = [led EXCEPT ![p].status = "in", ![p].over = FALSE, ![p].owed = {}]
  /\ backs' = IF led[p].status = "out" THEN backs \cup {p} ELSE backs
  /\ UNCHANGED <<offers, outs>>

\* Put out: it owes what it was wanted to send, and no want is with it.
PutOut(l) == [l EXCEPT !.status = "out", !.over = FALSE, !.owed = @ \cup l.wanted,
                       !.wanted = {}, !.old = {}, !.asked = {}]

\* A peer that is put out and keeps its offers.
ScanOutOffering(p) ==
  /\ ~Gone(led[p]) /\ GoesOut(p)
  /\ led' = [led EXCEPT ![p] = PutOut(@)]
  /\ outs' = outs \cup {p}
  /\ UNCHANGED <<offers, backs>>

ScanOut(p) ==
  /\ ~Gone(led[p]) /\ GoesOut(p)
  /\ led' = [led EXCEPT ![p] = PutOut(@)]
  /\ Offered(haveLess(p, led[p].asked))
  /\ outs' = outs \cup {p}
  /\ UNCHANGED backs

ScanStays(p) ==
  /\ ~Gone(led[p]) /\ ~Ended(led[p]) /\ ~GoesOut(p)
  /\ UNCHANGED <<ledger, outs, backs>>

\* The map is ranged over in any order, and who went out offers nothing to the
\* ledgers that come later.
Scan(p) ==
  /\ check = "scan" /\ p \in todo
  /\ todo' = todo \ {p}
  /\ ScanGone(p) \/ ScanEnded(p) \/ ScanOut(p) \/ ScanStays(p)
  /\ UNCHANGED <<check, rx, ev, sending, known>>

ScanDone ==
  /\ check = "scan" /\ todo = {}
  /\ check' = "tell"
  /\ UNCHANGED <<ledger, todo, outs, backs, rx, ev, sending, known>>

\* The client is told, and dmu is given back.
Tell ==
  /\ check = "tell"
  /\ check' = "idle"
  /\ known' = (known \ outs) \cup backs
  /\ outs' = {} /\ backs' = {}
  /\ UNCHANGED <<ledger, todo, rx, ev, sending>>

(***************************************************************************)
(* The client's messages, noted after they went out: noteSent              *)
(***************************************************************************)
Send(p, m) ==
  /\ p \in known /\ sending[p] = None
  /\ Cardinality({o \in Peers : sending[o] # None}) < MaxUnnoted
  /\ sending' = [sending EXCEPT ![p] = m]
  /\ UNCHANGED <<ledger, check, todo, outs, backs, rx, ev, known>>

\* A full message replaces the wants before it.
Base(l, m) == IF m.full THEN [l EXCEPT !.wanted = {}, !.old = {}, !.asked = {}] ELSE l
BaseHaves(p, m) == IF m.full THEN haveLess(p, led[p].asked) ELSE haves

Canceled(l, c) == [l EXCEPT !.wanted = @ \ {c}, !.old = @ \ {c}, !.asked = @ \ {c}]

NoteCancel(p, m) ==
  /\ m.kind = "cancel"
  /\ led' = [led EXCEPT ![p] = Canceled(Base(@, m), m.cid)]
  /\ Offered([BaseHaves(p, m) EXCEPT ![m.cid] = {}])

\* A want-block that reached it while out is not held against it.
Asked(l, m) == [l EXCEPT !.asked = @ \cup {m.cid},
                         !.wanted = IF m.kind = "block" /\ ~outAt(l) THEN @ \cup {m.cid} ELSE @]

NoteWant(p, m) ==
  /\ m.kind # "cancel"
  /\ led' = [led EXCEPT ![p] = Asked(Base(@, m), m)]
  /\ Offered(BaseHaves(p, m))

Note(p) ==
  /\ sending[p] # None /\ muFree
  /\ NoteCancel(p, sending[p]) \/ NoteWant(p, sending[p])
  /\ sending' = [sending EXCEPT ![p] = None]
  /\ UNCHANGED <<check, todo, outs, backs, rx, ev, known>>

(***************************************************************************)
(* ReceiveMessage: admit under mu, then the calls of the client.           *)
(***************************************************************************)
\* noteReceived, and one that takes any message for progress.
NotedProgress(l, m) ==
  [l EXCEPT !.wanted = @ \ (m.blocks \cup m.dhs), !.asked = @ \ (m.blocks \cup m.dhs),
            !.old = {}]

Noted(l, m) ==
  [l EXCEPT !.wanted = @ \ (m.blocks \cup m.dhs), !.asked = @ \ (m.blocks \cup m.dhs),
            !.old = IF m.blocks = {} THEN @ \ m.dhs ELSE {}]

NotedHaves(p, l, m) ==
  [c \in Cids |->
     ((IF c \in m.blocks THEN {} ELSE haves[c]) \ (IF c \in m.dhs THEN {p} ELSE {}))
       \cup (IF c \in m.haves \cap Noted(l, m).asked THEN {p} ELSE {})]

wantsOnly(m) == [Empty EXCEPT !.wants = m.wants]
withoutHaves(m) == [m EXCEPT !.haves = {}]

\* What it holds pays what it owes.
Paid(l, m) == [l EXCEPT !.owed = @ \ (m.blocks \cup m.dhs)]

Admitted(h, p, l, fwd, noted, ann) ==
  /\ led' = [led EXCEPT ![p] = l]
  /\ Offered(NotedHaves(p, led[p], noted))
  /\ rx' = [rx EXCEPT ![h] = IF fwd = Empty /\ ~ann THEN None
                              ELSE [kind |-> "msg", peer |-> p, fwd |-> fwd, ann |-> ann]]

AdmitFree(h, p, m) ==
  /\ ~held(led[p])
  /\ Admitted(h, p, Noted(led[p], m), m, m, FALSE)

\* Paid in full: back, and for blocks with a clear record.
AdmitSettled(h, p, m) ==
  LET l == Paid(led[p], m) IN
  /\ held(led[p]) /\ l.owed = {}
  /\ Admitted(h, p, Noted([l EXCEPT !.status = "in"], m), m, m,
              led[p].status = "out" /\ l.linked)

\* Out, and it delivers nothing: its wants for our server.
AdmitOut(h, p, m) ==
  LET l == Paid(led[p], m) IN
  /\ held(led[p]) /\ l.owed # {}
  /\ l.status = "out" /\ m.blocks = {}
  /\ Admitted(h, p, l, wantsOnly(m), Empty, FALSE)

\* On probation that lets its offers through.
AdmitProbationOffers(h, p, m) ==
  LET l == Paid(led[p], m) IN
  /\ held(led[p]) /\ l.owed # {}
  /\ l.status = "probation" \/ m.blocks # {}
  /\ Admitted(h, p, Noted([l EXCEPT !.status = "probation"], m), m,
              m, led[p].status = "out" /\ l.linked)

\* On probation that never tells the client.
AdmitProbationSilent(h, p, m) ==
  LET l == Paid(led[p], m) IN
  /\ held(led[p]) /\ l.owed # {}
  /\ l.status = "probation" \/ m.blocks # {}
  /\ Admitted(h, p, Noted([l EXCEPT !.status = "probation"], m), withoutHaves(m),
              withoutHaves(m), FALSE)

AdmitProbation(h, p, m) ==
  LET l == Paid(led[p], m) IN
  /\ held(led[p]) /\ l.owed # {}
  /\ l.status = "probation" \/ m.blocks # {}
  /\ Admitted(h, p, Noted([l EXCEPT !.status = "probation"], m), withoutHaves(m),
              withoutHaves(m), led[p].status = "out" /\ l.linked)

\* The goroutine of a stream, whatever the worker has said of the peer's
\* connection in the meantime: it may have gone.
Receive(h, p, m) ==
  /\ rx[h] = None /\ RLock /\ muFree
  /\ AdmitFree(h, p, m) \/ AdmitSettled(h, p, m) \/ AdmitOut(h, p, m)
       \/ AdmitProbation(h, p, m)
  /\ UNCHANGED <<check, todo, outs, backs, ev, sending, known>>

Announce(h) ==
  /\ rx[h] # None /\ rx[h].ann
  /\ known' = known \cup {rx[h].peer}
  /\ rx' = [rx EXCEPT ![h] = IF @.fwd = Empty THEN None ELSE [@ EXCEPT !.ann = FALSE]]
  /\ UNCHANGED <<ledger, check, todo, outs, backs, ev, sending>>

Deliver(h) ==
  /\ rx[h] # None /\ ~rx[h].ann
  /\ rx' = [rx EXCEPT ![h] = None]
  /\ UNCHANGED <<ledger, check, todo, outs, backs, ev, sending, known>>

(***************************************************************************)
(* PeerConnected and PeerDisconnected: one at a time, from the network's   *)
(* worker.                                                                 *)
(***************************************************************************)
Connect(p) ==
  /\ ev = None /\ RLock /\ muFree /\ ~led[p].linked
  /\ led' = [led EXCEPT ![p].linked = TRUE]
  /\ ev' = IF outAt(led[p]) THEN None ELSE [kind |-> "up", peer |-> p]
  /\ UNCHANGED <<offers, check, todo, outs, backs, rx, sending, known>>

Disconnect(p) ==
  /\ ev = None /\ RLock /\ muFree /\ led[p].linked
  /\ led' = [led EXCEPT ![p] = [@ EXCEPT !.linked = FALSE, !.wanted = {}, !.old = {},
                                          !.asked = {}]]
  /\ Offered(haveLess(p, led[p].asked))
  /\ ev' = [kind |-> "down", peer |-> p]
  /\ UNCHANGED <<check, todo, outs, backs, rx, sending, known>>

PassEvent ==
  /\ ev # None
  /\ known' = IF ev.kind = "up" THEN known \cup {ev.peer} ELSE known \ {ev.peer}
  /\ ev' = None
  /\ UNCHANGED <<ledger, check, todo, outs, backs, rx, sending>>

(***************************************************************************)
(* The clock: a want, or the ledger's last block, is hold() old; a         *)
(* cooldown is over.                                                       *)
(***************************************************************************)
Age(p) ==
  /\ muFree
  /\ \E C \in SUBSET led[p].wanted \ {{}} : led' = [led EXCEPT ![p].old = @ \cup C]
  /\ UNCHANGED <<offers, check, todo, outs, backs, rx, ev, sending, known>>

Expire(p) ==
  /\ muFree /\ held(led[p])
  /\ led' = [led EXCEPT ![p].over = TRUE]
  /\ UNCHANGED <<offers, check, todo, outs, backs, rx, ev, sending, known>>

Init ==
  /\ led = [p \in Peers |-> Fresh] /\ haves = [c \in Cids |-> {}]
  /\ late = [c \in Cids |-> {}]
  /\ check = "idle" /\ todo = {} /\ outs = {} /\ backs = {}
  /\ rx = [h \in Handlers |-> None] /\ ev = None
  /\ sending = [p \in Peers |-> None] /\ known = {}

Check == Tick \/ LockScan \/ (\E p \in Peers : Scan(p)) \/ ScanDone \/ Tell

Next ==
  \/ Check
  \/ \E p \in Peers : \/ \E m \in Sents : Send(p, m)
                      \/ Note(p) \/ Connect(p) \/ Disconnect(p) \/ Age(p) \/ Expire(p)
                      \/ \E h \in Handlers, m \in Messages : Receive(h, p, m)
  \/ \E h \in Handlers : Announce(h) \/ Deliver(h)
  \/ PassEvent

Spec == Init /\ [][Next]_vars

\* The ticker goes on, calls of the client return, and clocks advance (each
\* subscript is all that its steps change).
FairSpec ==
  /\ Spec
  /\ WF_vars(Check) /\ WF_ev(PassEvent)
  /\ \A h \in Handlers : WF_rx(Announce(h) \/ Deliver(h))
  /\ \A p \in Peers : WF_led(Age(p)) /\ WF_led(Expire(p))

(***************************************************************************)
(* Properties                                                              *)
(***************************************************************************)
TypeOK ==
  /\ led \in [Peers -> Ledgers]
  /\ haves \in [Cids -> SUBSET Peers] /\ late \in [Cids -> SUBSET Peers]
  /\ check \in {"idle", "lock", "scan", "tell"}
  /\ todo \subseteq Peers /\ outs \subseteq Peers /\ backs \subseteq Peers
  /\ known \subseteq Peers

\* What a handler is handing on.
Carries(h, p) == rx[h] # None /\ rx[h].peer = p

\* Whatever a message waits for between admit and the client, a peer that is
\* out gets nothing to the client but its wants to the server, and a held peer
\* gets no offer there.
HeldOffersNothing ==
  \A h \in Handlers, p \in Peers : Carries(h, p) /\ held(led[p]) =>
    /\ rx[h].fwd.haves = {}
    /\ led[p].status = "out" => rx[h].fwd.dhs = {} /\ rx[h].fwd.blocks = {}

\* A linked peer that is not out is known to the client, once the calls on
\* their way are through: a peer that is taken out is not lost for good.
LinkedIsKnown ==
  \A p \in Peers :
    led[p].linked /\ led[p].status # "out" /\ p \notin outs \cup backs
      => p \in known \/ ev = [kind |-> "up", peer |-> p]
           \/ \E h \in Handlers : Carries(h, p) /\ rx[h].ann

\* Who goes out leaves another peer that said HAVE for a want it sat on, and that
\* peer is linked and in the rotation: a sole provider is never taken out.  Unless
\* the offer is a late one: a want noted after a disconnect, which dropped what the
\* peer was asked for, lets its HAVE in, and nothing takes that out again.
LeavesAnother ==
  \A p \in Peers : led[p].status # "out" /\ led'[p].status = "out" =>
    \E c \in led[p].old, o \in Peers \ {p} :
      /\ o \in haves[c]
      /\ o \in late[c] \/ (led[o].linked /\ ~held(led[o]))
SoleProviderStays == [][LeavesAnother]_vars

\* A want does not stay with a peer that delivers nothing, whatever else it
\* says, while another peer offers the block (a full wantlist, which only a new
\* connection gets, starts the wait again).
Silent(p) ==
  /\ <>[][\A h \in Handlers, m \in Messages : m.blocks # {} => ~Receive(h, p, m)]_rx
  /\ <>[][Note(p) => ~sending[p].full]_sending
StuckIsMoved ==
  \A p \in Peers, c \in {m.cid : m \in Sents} :
    Silent(p) => []<>~(c \in led[p].wanted /\ offeredElsewhere(c, p))

\* Whoever offers is in the rotation ("a peer's offers go when it goes out or
\* away", offeredElsewhere), but for the offers that came late.
OffersAreInRotation ==
  \A c \in Cids : \A o \in haves[c] \ late[c] : led[o].linked /\ ~held(led[o])

\* What the comments say, and the races refute: all offers are in the rotation;
AllOffersAreInRotation == OffersAreInRotation /\ \A c \in Cids : late[c] = {}

\* moving a peer is exclusive with the events, so that the client does not keep a
\* peer that is gone;
GoneIsUnknown ==
  ev = None /\ NoReaders /\ check = "idle" =>
    \A p \in known : led[p].linked

\* and what a peer delivers while the client thinks it gone reaches the
\* client after the client is told that it is back.
BackIsToldFirst ==
  \A h \in Handlers :
    rx[h] # None /\ ~rx[h].ann /\ led[rx[h].peer].linked /\ rx[h].fwd.blocks # {}
      => rx[h].peer \in known \/ ev # None
=============================================================================
