----------------------------- MODULE TunSession -----------------------------
(***************************************************************************)
(* One game session after another on the overlay's datapath (overlay.go):  *)
(* VgOverlayServe listens for the TUN of a launch, a goroutine receives it *)
(* from the sandbox and attaches it, VgOverlayStop detaches it, the read   *)
(* loop pumps the game's packets and frames of a friend are written into   *)
(* whatever TUN is attached.  The app makes its calls one at a time; every *)
(* other actor meets them, and the next launch's, between any two of its   *)
(* sections under o.mu.                                                    *)
(*                                                                         *)
(* The things a session makes (its socket, context, TUN, NAT gateway,      *)
(* reflector and the reflector's ports) are pairs of a kind and a launch.  *)
(***************************************************************************)
EXTENDS Naturals, Sequences

CONSTANTS
  Launches,  \* how many games are launched, one after the other
  Wants,     \* the planes beside the LAN that a launch may ask for
  Settings   \* what may happen in a behavior, of:
             \*   "planes"    the launches may want gateway and reflector, no
             \*               frame comes in
             \*   "datagram"  a friend's frames come in as datagrams, over launches
             \*   "stream"    ... over streams             that want the LAN alone

ASSUME TunAssumption ==
  /\ Launches \in Nat /\ Wants \subseteq SUBSET {"gw", "relay"}
  /\ Settings \subseteq {"planes", "datagram", "stream"}

Games == 1 .. Launches
None == 0
App == None  \* the app's own call of detach, beside the one of each attach

VARIABLES
  setting,   \* the what this behavior may have, of Settings
  svc,       \* the fields of overlayService: running, link, gw, relay, sock, want
  open,      \* the things that exist
  handoff,   \* where the goroutine of each launch's serve is
  teardown,  \* what each detach has still to close, in order
  pump,      \* the read loop of each launch's TUN, and the reflector it holds
  app,       \* between which calls the app is
  launched,  \* how many games it has launched
  alive,     \* the sandboxes that live
  wish,      \* gwWant and relayWant as an attach has read them
  rx,        \* the friend's receive loop, and the TUN it is about to write
  contact,   \* the peer is an accepted contact, which linkm.has follows
  route      \* o.routes has it, since the last configure

session == <<svc, open, handoff, teardown, wish>>
social == <<setting, contact, route>>
tunVars == <<session, pump, app, launched, alive, rx, social>>

Exists(kind, g) == <<kind, g>> \in open

\* Everything that exists of a kind.
All(kind) == {g \in Games : Exists(kind, g)}

TunTypeOK ==
  /\ setting \in Settings
  /\ svc \in [running : BOOLEAN, link : Games \cup {None}, gw : Games \cup {None},
              relay : Games \cup {None}, sock : Games \cup {None}, want : Wants \cup {{}}]
  /\ open \subseteq {"sock", "ctx", "link", "gw", "relay", "port"} \X Games
  /\ handoff \in [Games -> {"none", "listening", "gate", "detach", "closing",
                            "gw", "relay", "pump", "done"}]
  /\ pump \in [Games -> [at : {"none", "reading", "reflecting", "exiting", "down"},
                         relay : Games \cup {None}]]
  /\ app \in {"idle", "configured", "up", "stopping", "closing"}
  /\ launched \in 0 .. Launches /\ alive \subseteq Games
  /\ wish \in [Games -> Wants \cup {{}}]
  /\ rx \in [up : BOOLEAN, link : Games \cup {None}]
  /\ contact \in BOOLEAN /\ route \in BOOLEAN

-----------------------------------------------------------------------------
(* detach: the fields are taken and cleared in one section, and what they  *)
(* held is closed after it.                                                *)

\* What a field names, if it names anything.
Held(kind, g) == IF g = None THEN <<>> ELSE <<<<kind, g>>>>

Snapshot(d) ==
  /\ teardown' = [teardown EXCEPT ![d] =
       Held("sock", svc.sock) \o Held("ctx", svc.link) \o Held("link", svc.link)
       \o Held("gw", svc.gw) \o Held("relay", svc.relay)]
  /\ svc' = [svc EXCEPT !.running = FALSE, !.link = None, !.gw = None,
                        !.relay = None, !.sock = None]

\* A reflector's close closes its ports with it.
Close(x) == open' = open \ (IF x[1] = "relay" THEN {x, <<"port", x[2]>>} ELSE {x})

CloseNext(d) ==
  /\ teardown[d] # <<>>
  /\ Close(Head(teardown[d]))
  /\ teardown' = [teardown EXCEPT ![d] = Tail(@)]
  /\ UNCHANGED <<svc, handoff, wish, pump, app, launched, alive, rx, social>>

-----------------------------------------------------------------------------
(* The app.                                                                *)

\* VgOverlayServe: configure sets the routes, then what the launch wants.
Configure(want) ==
  /\ setting # "planes" => want = {}
  /\ app = "idle" /\ launched < Launches
  /\ app' = "configured"
  /\ launched' = launched + 1
  /\ route' = contact
  /\ svc' = [svc EXCEPT !.want = want]
  /\ UNCHANGED <<open, handoff, teardown, wish, pump, alive, rx, setting, contact>>

\* serve, after which the app spawns the sandbox.
Serve ==
  /\ app = "configured"
  /\ app' = "up"
  /\ open' = open \cup {<<"sock", launched>>}
  /\ svc' = [svc EXCEPT !.sock = launched]
  /\ handoff' = [handoff EXCEPT ![launched] = "listening"]
  /\ alive' = alive \cup {launched}
  /\ UNCHANGED <<teardown, wish, pump, launched, rx, social>>

\* The game ends, with its sandbox and the netns of its TUN.
GameEnds(g) ==
  /\ g \in alive
  /\ alive' = alive \ {g}
  /\ UNCHANGED <<session, pump, app, launched, rx, social>>

VgOverlayStop ==
  /\ app = "up"
  /\ app' = "stopping"
  /\ UNCHANGED <<session, pump, launched, alive, rx, social>>

Detach ==
  /\ app = "stopping"
  /\ app' = "closing"
  /\ Snapshot(App)
  /\ UNCHANGED <<open, handoff, wish, pump, launched, alive, rx, social>>

VgOverlayStopReturns ==
  /\ app = "closing" /\ teardown[App] = <<>>
  /\ app' = "idle"
  /\ UNCHANGED <<session, pump, launched, alive, rx, social>>

-----------------------------------------------------------------------------
(* The goroutine of serve: accept, recvFD, attach.                         *)

To(g, stage) == handoff' = [handoff EXCEPT ![g] = stage]

\* The sandbox's TUN arrives: its fd is open here from now on.
HandOver(g) ==
  /\ handoff[g] = "listening" /\ Exists("sock", g) /\ g \in alive
  /\ open' = open \cup {<<"link", g>>}
  /\ To(g, "gate")
  /\ UNCHANGED <<svc, teardown, wish, pump, app, launched, alive, rx, social>>

\* The socket is closed, or the sandbox dies with the handoff half done.
HandOverFails(g) ==
  /\ handoff[g] = "listening"
  /\ g \notin alive \/ ~Exists("sock", g)
  /\ To(g, "done")
  /\ UNCHANGED <<svc, open, teardown, wish, pump, app, launched, alive, rx, social>>

\* attach sets the new session up in the section that found no other, or in a
\* later one, its own detach done.
Install(g) ==
  /\ svc' = [svc EXCEPT !.running = TRUE, !.link = g]
  /\ open' = open \cup {<<"ctx", g>>}
  /\ wish' = [wish EXCEPT ![g] = svc.want]
  /\ To(g, "gw")

Leftover == svc.running \/ svc.link # None \/ svc.gw # None \/ svc.relay # None

AttachGate(g) ==
  /\ handoff[g] = "gate"
  /\ IF Leftover
       THEN To(g, "detach") /\ UNCHANGED <<svc, open, wish>>
       ELSE Install(g)
  /\ UNCHANGED <<teardown, pump, app, launched, alive, rx, social>>

AttachDetaches(g) ==
  /\ handoff[g] = "detach"
  /\ Snapshot(g)
  /\ To(g, "closing")
  /\ UNCHANGED <<open, wish, pump, app, launched, alive, rx, social>>

AttachAfter(g) ==
  /\ handoff[g] = "closing" /\ teardown[g] = <<>>
  /\ Install(g)
  /\ UNCHANGED <<teardown, pump, app, launched, alive, rx, social>>

\* A bug: what a concurrent detach has torn down is installed all the same.
StillOursUnchecked(g) == TRUE

StillOurs(g) == svc.running /\ svc.link = g

\* A plane that is wanted, and can be made, is made, and installed or closed.
MakePlane(kind, g) ==
  \/ /\ kind \in wish[g]
     /\ StillOurs(g)
     /\ svc' = [svc EXCEPT ![kind] = g]
     /\ open' = open \cup {<<kind, g>>}
  \/ /\ kind \notin wish[g] \/ kind = "gw" \/ ~StillOurs(g)
     /\ UNCHANGED <<svc, open>>

AttachGateway(g) ==
  /\ handoff[g] = "gw"
  /\ MakePlane("gw", g)
  /\ To(g, "relay")
  /\ UNCHANGED <<teardown, wish, pump, app, launched, alive, rx, social>>

AttachRelay(g) ==
  /\ handoff[g] = "relay"
  /\ MakePlane("relay", g)
  /\ To(g, "pump")
  /\ UNCHANGED <<teardown, wish, pump, app, launched, alive, rx, social>>

AttachPump(g) ==
  /\ handoff[g] = "pump"
  /\ pump' = [pump EXCEPT ![g].at = "reading"]
  /\ To(g, "done")
  /\ UNCHANGED <<svc, open, teardown, wish, app, launched, alive, rx, social>>

-----------------------------------------------------------------------------
(* readLoop and handleOutbound: a broadcast of the game goes to the        *)
(* reflector its packet found, which listens on the packet's ports.        *)

Readable(g) == Exists("link", g) /\ g \in alive

PumpReads(g) ==
  /\ pump[g].at = "reading" /\ Readable(g)
  /\ pump' = [pump EXCEPT ![g] = IF Exists("ctx", g)
                THEN [at |-> IF svc.relay = None THEN "reading" ELSE "reflecting",
                      relay |-> svc.relay]
                ELSE [at |-> "exiting", relay |-> None]]
  /\ UNCHANGED <<session, app, launched, alive, rx, social>>

\* ensure: a reflector that is done listens nowhere any more.
ensure(r) == IF Exists("relay", r) THEN open \cup {<<"port", r>>} ELSE open

PumpReflects(g) ==
  /\ pump[g].at = "reflecting"
  /\ open' = ensure(pump[g].relay)
  /\ pump' = [pump EXCEPT ![g] = [at |-> "reading", relay |-> None]]
  /\ UNCHANGED <<svc, handoff, teardown, wish, app, launched, alive, rx, social>>

PumpFails(g) ==
  /\ pump[g].at = "reading" /\ ~Readable(g)
  /\ pump' = [pump EXCEPT ![g] = [at |-> "exiting", relay |-> None]]
  /\ UNCHANGED <<session, app, launched, alive, rx, social>>

\* A bug: whichever session runs now is said to be down.
ClearRunningOfAny(g) == svc' = [svc EXCEPT !.running = FALSE]

\* The defer of readLoop: running falls if the session is still this one.
ClearRunning(g) == svc' = IF StillOurs(g) THEN [svc EXCEPT !.running = FALSE] ELSE svc

PumpExits(g) ==
  /\ pump[g].at = "exiting"
  /\ pump' = [pump EXCEPT ![g].at = "down"]
  /\ ClearRunning(g)
  /\ UNCHANGED <<open, handoff, teardown, wish, app, launched, alive, rx, social>>

-----------------------------------------------------------------------------
(* datagramRecvLoop and handleInbound: the TUN is read in a section of its *)
(* own, and the frame written to it after.                                 *)

authorized == route \/ contact

\* A frame arrives; that of a stream is checked, that of a datagram was when
\* its loop started.
FrameArrives ==
  /\ rx.up /\ rx.link = None
  /\ IF setting = "stream" /\ ~authorized
       THEN rx' = [rx EXCEPT !.up = FALSE]
       ELSE svc.link # None /\ rx' = [rx EXCEPT !.link = svc.link]
  /\ UNCHANGED <<session, pump, app, launched, alive, social>>

\* A TUN that was closed meanwhile, or has lost its sandbox, ends the loop.
FrameWritten ==
  /\ rx.link # None
  /\ rx' = [up |-> Readable(rx.link), link |-> None]
  /\ UNCHANGED <<session, pump, app, launched, alive, social>>

\* A bug: only a new connection starts a loop.
MayRestartByNotifeeOnly == setting = "stream" /\ authorized

\* The maintainer's tick starts the loops of a friend's connections again
\* (ensureRecvLoops), and a peer's forwardStream opens a fresh stream.
MayRestart ==
  \/ setting = "datagram" /\ contact
  \/ setting = "stream" /\ authorized

Restart ==
  /\ ~rx.up /\ MayRestart
  /\ rx' = [rx EXCEPT !.up = TRUE]
  /\ UNCHANGED <<session, pump, app, launched, alive, social>>

FriendTurns ==
  /\ setting # "planes"
  /\ contact' = ~contact
  /\ UNCHANGED <<session, pump, app, launched, alive, rx, setting, route>>

-----------------------------------------------------------------------------

TunInit ==
  /\ setting \in Settings
  /\ svc = [running |-> FALSE, link |-> None, gw |-> None, relay |-> None,
            sock |-> None, want |-> {}]
  /\ open = {} /\ alive = {}
  /\ handoff = [g \in Games |-> "none"]
  /\ teardown = [d \in Games \cup {App} |-> <<>>]
  /\ pump = [g \in Games |-> [at |-> "none", relay |-> None]]
  /\ app = "idle" /\ launched = 0
  /\ wish = [g \in Games |-> {}]
  /\ contact \in (IF setting = "planes" THEN {FALSE} ELSE BOOLEAN)
  /\ rx = [up |-> setting = "datagram" /\ contact, link |-> None]
  /\ route = FALSE

Handing(g) ==
  \/ HandOver(g) \/ HandOverFails(g) \/ AttachGate(g) \/ AttachDetaches(g)
  \/ AttachAfter(g) \/ AttachGateway(g) \/ AttachRelay(g) \/ AttachPump(g)

Pumping(g) == PumpReads(g) \/ PumpReflects(g) \/ PumpFails(g) \/ PumpExits(g)

Receiving == FrameArrives \/ FrameWritten

TunNext ==
  \/ \E want \in Wants \cup {{}} : Configure(want)
  \/ Serve \/ VgOverlayStop \/ Detach \/ VgOverlayStopReturns \/ FriendTurns
  \/ \E d \in Games \cup {App} : CloseNext(d)
  \/ \E g \in Games : GameEnds(g) \/ Handing(g) \/ Pumping(g)
  \/ Receiving \/ Restart

TunSpec == TunInit /\ [][TunNext]_tunVars

\* Goroutines run, the friend keeps sending while it can, the tick recurs.
FairTunSpec ==
  /\ TunSpec
  /\ \A g \in Games : WF_tunVars(Handing(g)) /\ WF_tunVars(Pumping(g))
  /\ \A d \in Games \cup {App} : WF_tunVars(CloseNext(d))
  /\ WF_tunVars(Receiving) /\ WF_tunVars(Restart)

-----------------------------------------------------------------------------
(* What makes it correct.                                                  *)

Attaching(g) == handoff[g] \notin {"none", "listening", "done"}

Settled == teardown[App] = <<>> /\ \A g \in Games : ~Attaching(g) /\ teardown[g] = <<>>

\* Whatever meets a detach (an attach halfway through its planes, a pump that
\* has noticed the end first, a packet bound for the reflector), what exists
\* once all calls have returned is what the fields name and the next detach
\* will close: no second reflector on the real LAN, no gateway behind a dead
\* TUN (attach, detach and readLoop of overlay.go).
NothingLeaks ==
  Settled =>
    /\ All("link") \cup All("ctx") \subseteq {svc.link}
    /\ All("gw") \subseteq {svc.gw}
    /\ All("relay") \cup All("port") \subseteq {svc.relay}
    /\ All("sock") \subseteq {svc.sock}

\* While a TUN is attached, running says exactly that its pump has not gone
\* down: VgOverlayActive and the health screen are never told of a dead pump as
\* forwarding, nor of a live one as down (the defer of readLoop, overlay.go).
RunningIsExact ==
  \A g \in Games : svc.link = g => (svc.running <=> pump[g].at # "down")

\* A friend's frames come to reach the game that stays attached, though a
\* write to the TUN of the session before may have ended the loop that carries
\* them (datagramRecvLoop, handleInbound, ensureRecvLoops).
FriendIsHeard ==
  \A g \in Games :
    (setting # "planes" /\ svc.link = g /\ contact)
      ~> (rx.link = g \/ svc.link # g \/ g \notin alive \/ ~contact)
=============================================================================
