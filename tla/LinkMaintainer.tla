--------------------------- MODULE LinkMaintainer ---------------------------
(***************************************************************************)
(* The link of the virtual LAN to one friend (overlaylink.go): a tick      *)
(* every linkBeatEvery beats each direct QUIC connection, a pong proves    *)
(* the connection it came on, and the overlay's datagrams may ride only    *)
(* that one.  evaluate looks at the connections outside m.mu and takes     *)
(* m.mu for each part of its verdict, so receive loops, dials and the      *)
(* overlay's sender act between its steps.                                 *)
(*                                                                         *)
(* The links of two friends have nothing but m.mu in common: one friend is *)
(* modelled.  Durations are not: a deadline passes when it likes.          *)
(***************************************************************************)
EXTENDS Naturals

CONSTANTS
  Conns,         \* direct QUIC connections to the friend; each opens once
  NoConn,        \* provenConnID = ""
  linkBeatMiss,  \* beats in a row without an answer that cost a path its trust
  Scenes         \* what may happen in a behavior, of:
                 \*   "paths"  the node is up behind a relay, no upgrade is due
                 \*   "dials"  nothing but dials, no direct path carries a pong
                 \*   "all"    anything

ASSUME LinkAssumption ==
  linkBeatMiss \in Nat \ {0} /\ NoConn \notin Conns /\ Scenes \subseteq {"paths", "dials", "all"}

VARIABLES
  scene,       \* the scene of this behavior
  friend,      \* peersFn lists the peer
  reachable,   \* its node answers a dial
  path,        \* each connection: not there yet, both ways, silent one way, closed
  relay,       \* a relayed or TCP connection to it is open
  echo,        \* connections with a ping or its pong under way
  loop,        \* ... with a datagram receive loop
  tracked,     \* links has the peer, and what its peerLink holds:
  everPonged, provenConn, missed, dialing,
  quiet,       \* lastPong, as the beats sent since: two are more than linkBeatEvery
  waiting,     \* nextDial is ahead
  due,         \* lastUp is linkUpgradeTry ago
  pc,          \* where the tick is
  connected, conns, \* what evaluate has read
  dial,        \* the goroutine of kickDial
  panicked,    \* it has panicked: once, a bound
  sending,     \* the overlay's sender has passed the gate of sendDatagram
  proof,       \* history: connections with a pong since trust was last lost
  deaf         \* history: beats the proven path has outlived its silence

world == <<scene, friend, reachable, path, relay, echo, loop>>
trust == <<everPonged, provenConn, missed, quiet, proof, deaf>>
dials == <<dialing, waiting, due, dial, panicked>>
read == <<connected, conns>>
vars == <<world, tracked, trust, dials, pc, read, sending>>

Live == {c \in Conns : path[c] \in {"good", "mute"}}
Connected == relay \/ Live # {}

\* trustedConnFor: the one connection datagrams may ride.
Trusted == IF tracked /\ everPonged /\ missed < linkBeatMiss THEN provenConn ELSE NoConn

TypeOK ==
  /\ friend \in BOOLEAN /\ reachable \in BOOLEAN /\ relay \in BOOLEAN
  /\ tracked \in BOOLEAN /\ everPonged \in BOOLEAN /\ dialing \in BOOLEAN
  /\ waiting \in BOOLEAN /\ due \in BOOLEAN /\ panicked \in BOOLEAN
  /\ connected \in BOOLEAN /\ sending \in BOOLEAN
  /\ path \in [Conns -> {"new", "good", "mute", "shut"}]
  /\ echo \subseteq Conns /\ loop \subseteq Conns /\ conns \subseteq Conns
  /\ proof \subseteq Conns
  /\ provenConn \in Conns \cup {NoConn} /\ (everPonged => provenConn # NoConn)
  /\ missed \in 0..linkBeatMiss /\ quiet \in 0..2
  /\ pc \in {"idle", "look", "conns", "gone", "prepare", "beat", "judge",
             "upgrade", "force", "dial", "finish"}
  /\ dial \in {"none", "plain", "forced", "returned"}
  /\ scene \in Scenes /\ deaf \in 0..linkBeatMiss + 2

Init ==
  /\ scene \in Scenes
  /\ friend \in BOOLEAN /\ reachable \in IF scene = "paths" THEN {TRUE} ELSE BOOLEAN
  /\ relay = (scene = "paths")
  /\ path \in [Conns -> IF reachable /\ scene # "dials" THEN {"new", "good"} ELSE {"new"}]
  /\ echo = {} /\ loop = {}
  /\ everPonged = FALSE /\ provenConn = NoConn /\ missed = 0 /\ quiet = 2
  /\ tracked = FALSE /\ dial = "none" /\ panicked = FALSE
  /\ dialing = FALSE /\ waiting = FALSE /\ due = (scene # "paths")
  /\ pc = "idle" /\ connected = FALSE /\ conns = {}
  /\ sending = FALSE /\ proof = {} /\ deaf = 0

-----------------------------------------------------------------------------
(* The friend, the network and the receive loops.                          *)

Befriend ==
  /\ friend' = ~friend
  /\ UNCHANGED <<scene, reachable, path, relay, echo, loop, tracked, trust, dials, pc, read, sending>>

ComeOrGo ==
  /\ scene # "paths"
  /\ reachable' = ~reachable
  /\ UNCHANGED <<scene, friend, path, relay, echo, loop, tracked, trust, dials, pc, read, sending>>

\* A connection comes up: maybeStartDatagramLoop serves it if the peer is a friend.
Carries == IF scene = "dials" THEN {"mute"} ELSE {"good", "mute"}
Open(c) ==
  /\ path[c] = "new"
  /\ \E p \in Carries : path' = [path EXCEPT ![c] = p]
  /\ loop' = IF tracked THEN loop \cup {c} ELSE loop

\* The friend's node dials this one, or hole punching brings a path.
PeerDials(c) ==
  /\ reachable /\ Open(c)
  /\ UNCHANGED <<scene, friend, reachable, relay, echo, tracked, trust, dials, pc, read, sending>>

\* A path goes silent, comes back, or its connection closes.  What was on its way
\* is lost, unless the receive loop has it already.
Turn(c, p) ==
  /\ path[c] \in {"good", "mute"} \ {p} /\ p \in Carries \cup {"shut"} /\ path' = [path EXCEPT ![c] = p]
  /\ echo' \in {echo, echo \ {c}}
  /\ deaf' = IF p = "good" THEN 0 ELSE deaf
  /\ UNCHANGED <<scene, friend, reachable, relay, loop, tracked, everPonged, provenConn, missed,
                 quiet, proof, dials, pc, read, sending>>

RelayTurns ==
  /\ scene # "paths"
  /\ relay \/ reachable
  /\ relay' = ~relay
  /\ UNCHANGED <<scene, friend, reachable, path, echo, loop, tracked, trust, dials, pc, read, sending>>

Lose(c) ==
  /\ c \in echo /\ echo' = echo \ {c}
  /\ UNCHANGED <<scene, friend, reachable, path, relay, loop, tracked, trust, dials, pc, read, sending>>

\* Mutant: the connection proven first stays the one that is named.
PongKeepsConn(c) ==
  /\ c \in echo \cap loop /\ echo' = echo \ {c}
  /\ IF tracked
     THEN /\ everPonged' = TRUE /\ provenConn' = (IF provenConn = NoConn THEN c ELSE provenConn) /\ missed' = 0 /\ quiet' = 0
          /\ proof' = proof \cup {c} /\ deaf' = 0
     ELSE UNCHANGED trust
  /\ UNCHANGED <<scene, friend, reachable, path, relay, loop, tracked, dials, pc, read, sending>>

\* handleHeartbeat, of a pong.
Pong(c) ==
  /\ c \in echo \cap loop /\ echo' = echo \ {c}
  /\ IF tracked
     THEN /\ everPonged' = TRUE /\ provenConn' = c /\ missed' = 0 /\ quiet' = 0
          /\ proof' = proof \cup {c} /\ deaf' = 0
     ELSE UNCHANGED trust
  /\ UNCHANGED <<scene, friend, reachable, path, relay, loop, tracked, dials, pc, read, sending>>

-----------------------------------------------------------------------------
(* The tick.                                                               *)

Distrusted == everPonged' = FALSE /\ missed' = 0 /\ proof' = {} /\ deaf' = 0

\* Membership, under m.mu; a dropped peerLink takes its dial with it, whose only
\* trace is a connection, the like of PeerDials.
Sync ==
  /\ pc = "idle" /\ (friend \/ tracked)
  /\ tracked' = friend /\ pc' = IF friend THEN "look" ELSE "idle"
  /\ IF friend = tracked THEN UNCHANGED <<trust, dials>>
     ELSE /\ Distrusted /\ provenConn' = NoConn /\ quiet' = 2
          /\ dialing' = FALSE /\ waiting' = FALSE /\ due' = (scene # "paths")
          /\ dial' = "none" /\ UNCHANGED panicked
  /\ UNCHANGED <<world, read, sending>>

Look ==
  /\ pc = "look" /\ connected' = Connected /\ pc' = "conns"
  /\ UNCHANGED <<world, tracked, trust, dials, conns, sending>>

\* Mutant: one connection is taken for all, as quicConnTo does.
ReadFirstConn ==
  /\ pc = "conns" /\ conns' = (IF Live = {} THEN {} ELSE {CHOOSE c \in Live : TRUE}) /\ pc' = "gone"
  /\ UNCHANGED <<world, tracked, trust, dials, connected, sending>>

ReadConns ==
  /\ pc = "conns" /\ conns' = Live /\ pc' = "gone"
  /\ UNCHANGED <<world, tracked, trust, dials, connected, sending>>

\* The proven connection is not among those read: trust dies with it.
GoneCheck ==
  /\ pc = "gone" /\ pc' = "prepare"
  /\ IF everPonged /\ provenConn \notin conns
     THEN Distrusted /\ provenConn' = NoConn /\ UNCHANGED quiet
     ELSE UNCHANGED trust
  /\ UNCHANGED <<world, tracked, dials, connected, conns, sending>>

\* Mutant: without it.
PrepareWithoutLoops ==
  /\ pc = "prepare"
  /\ loop' = loop
  /\ pc' = IF conns # {} THEN "beat" ELSE IF connected THEN "upgrade" ELSE "dial"
  /\ UNCHANGED <<scene, friend, reachable, path, relay, echo, tracked, trust, dials,
                 connected, conns, sending>>

\* ensureRecvLoops.
Prepare ==
  /\ pc = "prepare"
  /\ loop' = IF connected THEN loop \cup Live ELSE loop
  /\ pc' = IF conns # {} THEN "beat" ELSE IF connected THEN "upgrade" ELSE "dial"
  /\ UNCHANGED <<scene, friend, reachable, path, relay, echo, tracked, trust, dials,
                 connected, conns, sending>>

\* Mutant: a beat sent counts as a sign of life.
BeatCounts ==
  /\ pc = "beat" /\ pc' = "judge"
  /\ echo' = echo \cup {c \in conns : path[c] = "good"}
  /\ quiet' = 1
  /\ UNCHANGED <<scene, friend, reachable, path, relay, loop, tracked, everPonged, provenConn,
                 missed, proof, deaf, dials, read, sending>>

Beat ==
  /\ pc = "beat" /\ pc' = "judge"
  /\ echo' = echo \cup {c \in conns : path[c] = "good"}
  /\ quiet' = IF quiet < 2 THEN quiet + 1 ELSE 2
  /\ UNCHANGED <<scene, friend, reachable, path, relay, loop, tracked, everPonged, provenConn,
                 missed, proof, deaf, dials, read, sending>>

\* missed, if this verdict stands.
Misses == IF everPonged /\ quiet = 2 THEN missed + 1 ELSE missed

Judge ==
  /\ pc = "judge"
  /\ IF everPonged /\ Misses >= linkBeatMiss
     THEN /\ Distrusted /\ pc' = "upgrade"
     ELSE /\ missed' = Misses
          /\ deaf' = IF everPonged /\ path[provenConn] = "mute" /\ provenConn \notin echo
                     THEN deaf + 1 ELSE deaf
          /\ pc' = IF everPonged THEN "finish" ELSE "upgrade"
          /\ UNCHANGED <<everPonged, proof>>
  /\ UNCHANGED <<world, tracked, provenConn, quiet, dials, connected, conns, sending>>

\* kickUpgrade: the cadence is spent even where kickDial then declines.
KickUpgrade ==
  /\ pc = "upgrade" /\ due' = FALSE /\ pc' = IF due THEN "force" ELSE "finish"
  /\ UNCHANGED <<world, tracked, trust, dialing, waiting, dial, panicked, read, sending>>

KickDial ==
  /\ pc \in {"dial", "force"} /\ pc' = "finish"
  /\ IF dialing \/ waiting THEN UNCHANGED <<dialing, dial>>
     ELSE dialing' = TRUE /\ dial' = IF pc = "dial" THEN "plain" ELSE "forced"
  /\ UNCHANGED <<world, tracked, trust, waiting, due, panicked, read, sending>>

Finish ==
  /\ pc = "finish" /\ pc' = "idle" /\ connected' = FALSE /\ conns' = {}
  /\ UNCHANGED <<world, tracked, trust, dials, sending>>

Tick == Sync \/ Look \/ ReadConns \/ GoneCheck \/ Prepare \/ Beat \/ Judge
        \/ KickUpgrade \/ KickDial \/ Finish

-----------------------------------------------------------------------------
(* A dial, and the two deadlines.                                          *)

DialReturns ==
  /\ dial' = "returned"
  /\ UNCHANGED <<scene, friend, reachable, echo, tracked, trust, dialing, due, panicked,
                 pc, read, sending>>

\* dialPeer is content with any connection, dialPeerDirect with a direct one.
DialFindsOne ==
  /\ (dial = "plain" /\ Connected) \/ (dial = "forced" /\ Live # {})
  /\ waiting' = FALSE /\ DialReturns /\ UNCHANGED <<path, relay, loop>>

DialConnects ==
  /\ dial \in {"plain", "forced"} /\ reachable
  /\ \/ (\E c \in Conns : Open(c)) /\ UNCHANGED relay
     \/ dial = "plain" /\ ~Connected /\ relay' = TRUE /\ UNCHANGED <<path, loop>>
  /\ waiting' = FALSE /\ DialReturns

DialFails ==
  /\ (dial = "plain" /\ ~Connected /\ ~reachable) \/ dial = "forced"
  /\ waiting' = TRUE /\ DialReturns /\ UNCHANGED <<path, relay, loop>>

DialEnds ==
  /\ dial = "returned" /\ dial' = "none" /\ dialing' = FALSE
  /\ UNCHANGED <<world, tracked, trust, waiting, due, panicked, pc, read, sending>>

\* Mutant: the reset is the goroutine's last statement.
DialPanicsEarly ==
  /\ dial \in {"plain", "forced"} /\ ~panicked
  /\ panicked' = TRUE /\ dial' = "none"
  /\ UNCHANGED <<world, tracked, trust, dialing, waiting, due, pc, read, sending>>

\* safeGo swallows a panic in the dial; the deferred reset has run.
DialPanics ==
  /\ dial \in {"plain", "forced"} /\ ~panicked
  /\ panicked' = TRUE /\ dial' = "none" /\ dialing' = FALSE
  /\ UNCHANGED <<world, tracked, trust, waiting, due, pc, read, sending>>

Dial == DialFindsOne \/ DialConnects \/ DialFails \/ DialEnds \/ DialPanics

BackoffPasses ==
  /\ waiting /\ waiting' = FALSE
  /\ UNCHANGED <<world, tracked, trust, dialing, due, dial, panicked, pc, read, sending>>

UpgradeFallsDue ==
  /\ ~due /\ tracked /\ scene # "paths" /\ due' = TRUE
  /\ UNCHANGED <<world, tracked, trust, dialing, waiting, dial, panicked, pc, read, sending>>

-----------------------------------------------------------------------------
(* The overlay's sender.                                                   *)

\* The gate; where it says no the packet takes the stream.
Gate ==
  /\ ~sending /\ Trusted # NoConn /\ sending' = TRUE
  /\ UNCHANGED <<world, tracked, trust, dials, pc, read>>

\* The datagram leaves, or the connection is not listed any more.
Send ==
  /\ sending /\ sending' = FALSE
  /\ UNCHANGED <<world, tracked, trust, dials, pc, read>>

\* Sending fails, and suspect takes the trust of whatever connection is proven by now.
SendFails ==
  /\ sending /\ sending' = FALSE
  /\ IF tracked /\ everPonged THEN missed' = linkBeatMiss /\ proof' = {}
     ELSE UNCHANGED <<missed, proof>>
  /\ UNCHANGED <<world, tracked, everPonged, provenConn, quiet, deaf, dials, pc, read>>

Sender == Gate \/ Send \/ SendFails

Next ==
  \/ Befriend \/ ComeOrGo \/ RelayTurns \/ Tick \/ Dial \/ BackoffPasses
  \/ UpgradeFallsDue \/ Sender
  \/ \E c \in Conns : PeerDials(c) \/ Lose(c) \/ Pong(c) \/ \E p \in {"good", "mute", "shut"} : Turn(c, p)

Spec == Init /\ [][Next]_vars

\* The ticker ticks, a dial times out at the latest, deadlines pass, and a path that
\* is up does not lose every heartbeat.
FairSpec ==
  /\ Spec /\ WF_vars(Tick) /\ WF_vars(Dial) /\ WF_vars(BackoffPasses)
  /\ WF_vars(UpgradeFallsDue) /\ \A c \in Conns : SF_vars(Pong(c))

-----------------------------------------------------------------------------

\* Trust is per connection and lost as a whole: whatever took it (a closed
\* connection, missed beats, a failed send, a friend removed and added again), the
\* connection that is trusted next has ponged since, and no sibling answered for it
\* (trustedConnFor, overlaylink.go:178-193).
TrustIsEarned == Trusted # NoConn => Trusted \in proof

\* A path that has gone silent is ridden for linkBeatMiss beats at most after the one
\* its last pong was in time for, whatever pongs of other connections come in meanwhile (evaluate, overlaylink.go:345-366).
TrustIsBrief == Trusted # NoConn => deaf <= linkBeatMiss + 1

\* evaluate reads the connections before it takes m.mu, and pongs are handled in
\* between: still, "proven conn gone" is only said of a connection that is closed.
LiveConnKeepsTrust ==
  [][GoneCheck /\ everPonged /\ ~everPonged' => path[provenConn] = "shut"]_vars

\* A path that works is used, however many others are dead, whichever was there
\* before the friendship, and after every suspicion.
GoodPathIsUsed ==
  \A c \in Conns :
    (friend /\ path[c] = "good")
      ~> (~friend \/ path[c] # "good" \/ (Trusted # NoConn /\ path[Trusted] = "good"))

\* A friend whose node answers is connected to: no failed, panicked or forced dial,
\* and no backoff, keeps kickDial shut for good.
FriendIsReached == (friend /\ reachable) ~> (~friend \/ ~reachable \/ Connected)
=============================================================================
