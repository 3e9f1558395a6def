---------------------------- MODULE OverlayProofs ----------------------------
(***************************************************************************)
(* The virtual LAN: what the link to a friend promises for any number of   *)
(* connections and any linkBeatMiss, what running says of the attached TUN *)
(* and what a session leaves behind, for any number of launches and any    *)
(* planes.                                                                 *)
(***************************************************************************)
EXTENDS LinkMaintainer, TunSession, TLAPS

-----------------------------------------------------------------------------
(* The link.  Brief relates the count of missed beats to the silence that  *)
(* is really there: a pong handled between the beat and the verdict on it  *)
(* is one beat ahead of lastPong.  Known is why a stale look at the        *)
(* connections condemns no live one: only a connection some look has       *)
(* listed is pinged.                                                       *)


Earned == everPonged /\ missed < linkBeatMiss => provenConn \in proof

Brief ==
  /\ quiet = 0 => deaf <= IF pc = "judge" THEN missed ELSE missed + 1
  /\ quiet = 1 => deaf <= IF pc = "judge" THEN missed + 1 ELSE missed + 2
  /\ quiet = 2 => deaf <= missed + 2

Known ==
  \A c \in Conns :
    c \in echo \/ (everPonged /\ provenConn = c) =>
      path[c] # "new" /\ (pc = "gone" => c \in conns \/ path[c] = "shut")

\* The type as it is inductive: the bound on deaf comes of Brief.
Types ==
  /\ path \in [Conns -> {"new", "good", "mute", "shut"}]
  /\ echo \subseteq Conns /\ loop \subseteq Conns /\ conns \subseteq Conns
  /\ proof \subseteq Conns
  /\ provenConn \in Conns \cup {NoConn} /\ (everPonged => provenConn # NoConn)
  /\ missed \in 0..linkBeatMiss /\ quiet \in 0..2 /\ deaf \in Nat

\* ... and the rest of it.
Flags ==
  /\ friend \in BOOLEAN /\ reachable \in BOOLEAN /\ relay \in BOOLEAN
  /\ tracked \in BOOLEAN /\ everPonged \in BOOLEAN /\ dialing \in BOOLEAN
  /\ waiting \in BOOLEAN /\ due \in BOOLEAN /\ panicked \in BOOLEAN
  /\ connected \in BOOLEAN /\ sending \in BOOLEAN
Places ==
  /\ pc \in {"idle", "look", "conns", "gone", "prepare", "beat", "judge",
             "upgrade", "force", "dial", "finish"}
  /\ dial \in {"none", "plain", "forced", "returned"} /\ scene \in Scenes

IInv == Types /\ Earned /\ Brief /\ Known

USE LinkAssumption

\* A link that is new promises it all.
LEMMA Start == Init => IInv
<1> SUFFICES ASSUME Init PROVE IInv
  OBVIOUS
<1>1. Types
  BY SMTT(60) DEF Init, Types
<1>2. Earned /\ Brief /\ Known
  BY DEF Init, Earned, Brief, Known
<1> QED BY <1>1, <1>2 DEF IInv

\* What happens outside the link's own fields.
LEMMA WorldStep ==
  ASSUME IInv, Befriend \/ ComeOrGo \/ RelayTurns \/ Dial \/ BackoffPasses \/ UpgradeFallsDue
               \/ (\E c \in Conns : PeerDials(c) \/ Lose(c))
  PROVE  IInv'
<1>1. Types'
  BY SMTT(60) DEF IInv, Types, Befriend, ComeOrGo, RelayTurns, Dial, BackoffPasses, UpgradeFallsDue,
     PeerDials, Lose, DialFindsOne, DialConnects, DialFails, DialEnds, DialPanics, DialReturns,
     Open, Carries, world, trust, dials, read
<1>2. UNCHANGED <<everPonged, missed, provenConn, proof, deaf, quiet, pc, conns>>
  BY DEF Befriend, ComeOrGo, RelayTurns, Dial, BackoffPasses, UpgradeFallsDue,
     PeerDials, Lose, DialFindsOne, DialConnects, DialFails, DialEnds, DialPanics, DialReturns,
     world, trust, dials, read
<1>3. echo' \subseteq echo /\ \A c \in Conns : path'[c] = path[c] \/ path[c] = "new"
  BY DEF IInv, Types, Befriend, ComeOrGo, RelayTurns, Dial, BackoffPasses, UpgradeFallsDue,
     PeerDials, Lose, DialFindsOne, DialConnects, DialFails, DialEnds, DialPanics, DialReturns,
     Open, Carries, world, trust, dials, read
<1>4. Known'
  BY <1>2, <1>3 DEF IInv, Known
<1> QED BY <1>1, <1>2, <1>4 DEF IInv, Earned, Brief

\* Paths turn, pongs come in, sends fail.
LEMMA PathStep ==
  ASSUME IInv, \E c \in Conns : Pong(c) \/ \E p \in {"good", "mute", "shut"} : Turn(c, p)
  PROVE  IInv'
<1> PICK c \in Conns : Pong(c) \/ \E p \in {"good", "mute", "shut"} : Turn(c, p)
  OBVIOUS
<1>1. CASE Pong(c)
  <2>1. Types'
    BY <1>1, SMTT(60) DEF Pong, IInv, Types, trust, dials, read
  <2>2. Earned' /\ Brief'
    BY <1>1, SMTT(60) DEF Pong, IInv, Types, Earned, Brief, trust, dials, read
  <2>3. Known'
    BY <1>1, SMTT(60) DEF Pong, IInv, Types, Known, trust, dials, read
  <2> QED BY <2>1, <2>2, <2>3 DEF IInv
<1>2. CASE \E p \in {"good", "mute", "shut"} : Turn(c, p)
  <2> PICK p \in {"good", "mute", "shut"} : Turn(c, p)
    BY <1>2
  <2>1. Types'
    BY SMTT(60) DEF Turn, Carries, IInv, Types, dials, read
  <2>2. Earned' /\ Brief'
    BY SMTT(60) DEF Turn, IInv, Types, Earned, Brief, dials, read
  <2>3. Known'
    BY SMTT(60) DEF Turn, IInv, Types, Known, dials, read
  <2> QED BY <2>1, <2>2, <2>3 DEF IInv
<1> QED BY <1>1, <1>2

\* The overlay's sender: a failed send saturates missed, which takes the trust.
LEMMA SenderStep == ASSUME IInv, Sender PROVE IInv'
<1>1. Types'
  BY SMTT(60) DEF Sender, Gate, Send, SendFails, IInv, Types, world, trust, dials, read
<1>2. Earned' /\ Brief'
  BY SMTT(60) DEF Sender, Gate, Send, SendFails, IInv, Types, Earned, Brief, world, trust, dials, read
<1>3. Known'
  BY SMTT(60) DEF Sender, Gate, Send, SendFails, IInv, Types, Known, world, trust, dials, read
<1> QED BY <1>1, <1>2, <1>3 DEF IInv

\* The tick, section by section.
LEMMA TickStep == ASSUME IInv, Tick PROVE IInv'
<1>1. CASE Sync
  <2>1. Types'
    BY <1>1, SMTT(60) DEF Sync, Distrusted, world, trust, dials, read, IInv, Types
  <2>2. Earned' /\ Brief'
    BY <1>1, SMTT(60) DEF Sync, Distrusted, world, trust, dials, read, IInv, Types, Earned, Brief
  <2>3. Known'
    BY <1>1, SMTT(60) DEF Sync, Distrusted, world, trust, dials, read, IInv, Types, Known
  <2> QED BY <2>1, <2>2, <2>3 DEF IInv
<1>2. CASE Look \/ Finish \/ KickUpgrade \/ KickDial
  <2>1. Types'
    BY <1>2, SMTT(60) DEF Look, Finish, KickUpgrade, KickDial, Connected, world, trust, dials, read, IInv, Types
  <2>2. Earned' /\ Brief'
    BY <1>2, SMTT(60) DEF Look, Finish, KickUpgrade, KickDial, Connected, world, trust, dials, read, IInv, Types, Earned, Brief
  <2>3. Known'
    BY <1>2, SMTT(60) DEF Look, Finish, KickUpgrade, KickDial, Connected, world, trust, dials, read, IInv, Types, Known
  <2> QED BY <2>1, <2>2, <2>3 DEF IInv
<1>3. CASE ReadConns
  <2>1. Types'
    BY <1>3, SMTT(60) DEF ReadConns, Live, world, trust, dials, read, IInv, Types
  <2>2. Earned' /\ Brief'
    BY <1>3, SMTT(60) DEF ReadConns, Live, world, trust, dials, read, IInv, Types, Earned, Brief
  <2>3. Known'
    BY <1>3, SMTT(60) DEF ReadConns, Live, world, trust, dials, read, IInv, Types, Known
  <2> QED BY <2>1, <2>2, <2>3 DEF IInv
<1>4. CASE GoneCheck
  <2>1. Types'
    BY <1>4, SMTT(60) DEF GoneCheck, Distrusted, world, trust, dials, IInv, Types
  <2>2. Earned' /\ Brief'
    BY <1>4, SMTT(60) DEF GoneCheck, Distrusted, world, trust, dials, IInv, Types, Earned, Brief
  <2>3. Known'
    BY <1>4, SMTT(60) DEF GoneCheck, Distrusted, world, trust, dials, IInv, Types, Known
  <2> QED BY <2>1, <2>2, <2>3 DEF IInv
<1>5. CASE Prepare
  <2>1. Types'
    BY <1>5, SMTT(60) DEF Prepare, Live, trust, dials, IInv, Types
  <2>2. Earned' /\ Brief'
    BY <1>5, SMTT(60) DEF Prepare, Live, trust, dials, IInv, Types, Earned, Brief
  <2>3. Known'
    BY <1>5, SMTT(60) DEF Prepare, Live, trust, dials, IInv, Types, Known
  <2> QED BY <2>1, <2>2, <2>3 DEF IInv
<1>6. CASE Beat
  <2>1. Types'
    BY <1>6, SMTT(60) DEF Beat, IInv, Types, dials, read
  <2>2. Earned' /\ Brief'
    BY <1>6, SMTT(60) DEF Beat, IInv, Types, Earned, Brief, dials, read
  <2>3. Known'
    BY <1>6, SMTT(60) DEF Beat, IInv, Types, Known, dials, read
  <2> QED BY <2>1, <2>2, <2>3 DEF IInv
<1>7. CASE Judge
  <2>1. Types'
    BY <1>7, SMTT(60) DEF Judge, Misses, Distrusted, IInv, Types, world, dials
  <2>2. Earned' /\ Brief'
    BY <1>7, SMTT(60) DEF Judge, Misses, Distrusted, IInv, Types, Earned, Brief, world, dials
  <2>3. Known'
    BY <1>7, SMTT(60) DEF Judge, Misses, Distrusted, IInv, Types, Known, world, dials
  <2> QED BY <2>1, <2>2, <2>3 DEF IInv
<1> QED BY <1>1, <1>2, <1>3, <1>4, <1>5, <1>6, <1>7 DEF Tick

\* The inductive invariant holds throughout.
THEOREM Invariance == Spec => []IInv
<1>1. IInv /\ [Next]_vars => IInv'
  <2> SUFFICES ASSUME IInv, [Next]_vars PROVE IInv'
    OBVIOUS
  <2>1. CASE Next
    BY <2>1, WorldStep, PathStep, SenderStep, TickStep DEF Next
  <2>2. CASE UNCHANGED vars
    BY <2>2 DEF vars, world, trust, dials, read, IInv, Types, Earned, Brief, Known
  <2> QED BY <2>1, <2>2
<1> QED BY Start, <1>1, PTL DEF Spec

\* What is a flag stays one, whatever the rest of the state.
LEMMA FlagsStep == ASSUME Flags, [Next]_vars PROVE Flags'
<1>1. CASE Tick
  <2>1. CASE Sync \/ GoneCheck \/ Judge
    BY ZenonT(60), <2>1 DEF Sync, GoneCheck, Judge, Distrusted, Flags, world, trust, dials, read
  <2>2. CASE Look \/ ReadConns \/ Prepare \/ Beat
    BY ZenonT(60), <2>2 DEF Look, ReadConns, Prepare, Beat, Connected, Flags, world, trust, dials, read
  <2>3. CASE KickUpgrade \/ KickDial \/ Finish
    BY ZenonT(60), <2>3 DEF KickUpgrade, KickDial, Finish, Flags, world, trust, dials, read
  <2> QED BY <1>1, <2>1, <2>2, <2>3 DEF Tick
<1>2. CASE Dial \/ BackoffPasses \/ UpgradeFallsDue
  BY ZenonT(60), <1>2 DEF Dial, DialFindsOne, DialConnects, DialFails, DialEnds, DialPanics, DialReturns,
     Open, BackoffPasses, UpgradeFallsDue, Flags, world, trust, dials, read
<1>3. CASE Sender \/ Befriend \/ ComeOrGo \/ RelayTurns
  BY ZenonT(60), <1>3 DEF Sender, Gate, Send, SendFails, Befriend, ComeOrGo, RelayTurns, Flags, world, trust, dials, read
<1>4. CASE \E c \in Conns : PeerDials(c) \/ Lose(c) \/ Pong(c)
                         \/ \E p \in {"good", "mute", "shut"} : Turn(c, p)
  BY ZenonT(60), <1>4 DEF PeerDials, Lose, Pong, Turn, Open, Flags, trust, dials, read
<1>5. CASE UNCHANGED vars
  BY ZenonT(60), <1>5 DEF vars, world, trust, dials, read, Flags
<1> QED BY <1>1, <1>2, <1>3, <1>4, <1>5 DEF Next

\* So is a place.
LEMMA PlacesStep == ASSUME Places, [Next]_vars PROVE Places'
<1>1. CASE Tick
  BY SMTT(30), <1>1 DEF Tick, Sync, Look, ReadConns, GoneCheck, Prepare, Beat, Judge, KickUpgrade, KickDial,
     Finish, Distrusted, Connected, Places, world, trust, dials, read
<1>2. CASE Dial \/ BackoffPasses \/ UpgradeFallsDue
  BY SMTT(30), <1>2 DEF Dial, DialFindsOne, DialConnects, DialFails, DialEnds, DialPanics, DialReturns,
     Open, BackoffPasses, UpgradeFallsDue, Places, world, trust, dials, read
<1>3. CASE Sender \/ Befriend \/ ComeOrGo \/ RelayTurns
  BY SMTT(30), <1>3 DEF Sender, Gate, Send, SendFails, Befriend, ComeOrGo, RelayTurns, Places, world, trust, dials, read
<1>4. CASE \E c \in Conns : PeerDials(c) \/ Lose(c) \/ Pong(c)
                         \/ \E p \in {"good", "mute", "shut"} : Turn(c, p)
  BY SMTT(30), <1>4 DEF PeerDials, Lose, Pong, Turn, Open, Places, trust, dials, read
<1>5. CASE UNCHANGED vars
  BY <1>5 DEF vars, world, trust, dials, read, Places
<1> QED BY <1>1, <1>2, <1>3, <1>4, <1>5 DEF Next

\* The types, with the bound on deaf that Brief gives.
THEOREM TypeCorrect == Spec => []TypeOK
<1>1. Init => Flags /\ Places
  BY DEF Init, Flags, Places
<1>2. Spec => [](Flags /\ Places)
  BY <1>1, FlagsStep, PlacesStep, PTL DEF Spec
<1>3. IInv /\ Flags /\ Places => TypeOK
  BY SMTT(60) DEF IInv, Types, Brief, Flags, Places, TypeOK
<1> QED BY Invariance, <1>2, <1>3, PTL

\* Trust is only ever in a connection that has ponged since trust was last lost.
THEOREM Earning == Spec => []TrustIsEarned
<1>1. IInv => TrustIsEarned
  BY DEF IInv, Types, Earned, TrustIsEarned, Trusted
<1> QED BY Invariance, <1>1, PTL

\* No silent path keeps its trust for more than linkBeatMiss + 1 beats.
THEOREM Brevity == Spec => []TrustIsBrief
<1>1. IInv => TrustIsBrief
  BY SMTT(60) DEF IInv, Types, Brief, TrustIsBrief, Trusted
<1> QED BY Invariance, <1>1, PTL

\* "Proven conn gone" is said of closed connections only.
THEOREM LiveKeepsTrust == Spec => LiveConnKeepsTrust
<1>1. IInv => [GoneCheck /\ everPonged /\ ~everPonged' => path[provenConn] = "shut"]_vars
  BY SMTT(60) DEF IInv, Types, Known, GoneCheck, Distrusted, trust
<1> QED BY Invariance, <1>1, PTL DEF LiveConnKeepsTrust

-----------------------------------------------------------------------------
(* The datapath.  That running is true after the pump's own steps is in    *)
(* the steps.  That an attach never installs a TUN whose pump has come and *)
(* gone already needs the history of a launch: its pump starts at the end  *)
(* of its attach, and its attach once, after its serve.                    *)


Stages == {"none", "listening", "gate", "detach", "closing", "gw", "relay",
           "pump", "done"}

OrNone == Games \cup {None}

TunTypes ==
  /\ svc \in [running : BOOLEAN, link : OrNone, gw : OrNone, relay : OrNone,
              sock : OrNone, want : Wants \cup {{}}]
  /\ handoff \in [Games -> Stages]
  /\ pump \in [Games -> [at : {"none", "reading", "reflecting", "exiting", "down"},
                         relay : OrNone]]
  /\ launched \in Nat

\* A pump starts where an attach ends.
PumpIsLast == \A g \in Games : handoff[g] # "done" => pump[g].at = "none"

\* A launch that is not served yet has no handoff.
ServedFirst ==
  \A g \in Games : (g > launched \/ (g = launched /\ app = "configured")) => handoff[g] = "none"

\* A serve is of a launch that was configured.
Launching == app = "configured" => launched \in Games

TunInv == TunTypes /\ PumpIsLast /\ ServedFirst /\ Launching /\ RunningIsExact

\* Nothing the invariant speaks of changes.
Still == UNCHANGED <<svc, handoff, pump, launched, app>>

LEMMA StillInv == ASSUME TunInv, Still PROVE TunInv'
BY DEF TunInv, Still, TunTypes, PumpIsLast, ServedFirst, Launching, RunningIsExact

\* A detach's section: no TUN is attached after it.
LEMMA SnapshotInv ==
  ASSUME TunInv, NEW d, Snapshot(d), pump' = pump, launched' = launched,
         handoff' \in [Games -> Stages],
         \A g \in Games : handoff'[g] = "done" <=> handoff[g] = "done",
         \A g \in Games : handoff[g] = "none" => handoff'[g] = "none",
         app' = "configured" => app = "configured"
  PROVE  TunInv'
<1> USE DEF TunInv
<1>1. /\ svc' \in [running : BOOLEAN, link : OrNone, gw : OrNone, relay : OrNone,
                   sock : OrNone, want : Wants \cup {{}}]
      /\ svc'.link = None
  BY DEF Snapshot, TunTypes, OrNone
<1>2. TunTypes'
  BY <1>1 DEF TunTypes
<1>3. PumpIsLast' /\ ServedFirst' /\ Launching'
  BY DEF PumpIsLast, ServedFirst, Launching
<1>4. RunningIsExact'
  BY <1>1 DEF RunningIsExact, Games, None
<1> QED BY <1>2, <1>3, <1>4

\* A new session: its pump has not started.
LEMMA InstallInv ==
  ASSUME TunInv, NEW g \in Games, handoff[g] \in {"gate", "closing"}, Install(g),
         UNCHANGED <<pump, launched, app>>
  PROVE  TunInv'
<1> USE DEF TunInv
<1>1. /\ svc' \in [running : BOOLEAN, link : OrNone, gw : OrNone, relay : OrNone,
                   sock : OrNone, want : Wants \cup {{}}]
      /\ svc'.link = g /\ svc'.running
  BY DEF Install, TunTypes, OrNone
<1>2. handoff' = [handoff EXCEPT ![g] = "gw"]
  BY DEF Install, To
<1>3. TunTypes'
  BY <1>1, <1>2 DEF TunTypes, Stages
<1>4. pump[g].at = "none"
  BY DEF PumpIsLast
<1>5. PumpIsLast'
  BY <1>2, <1>4 DEF PumpIsLast, TunTypes
<1>6. ServedFirst' /\ Launching'
  BY <1>2 DEF ServedFirst, Launching, TunTypes
<1>7. RunningIsExact'
  BY <1>1, <1>4 DEF RunningIsExact
<1> QED BY <1>3, <1>5, <1>6, <1>7

\* A step of the handoff of g that starts no pump and leaves the link alone.
LEMMA StageInv ==
  ASSUME TunInv, NEW g \in Games, NEW s \in Stages, To(g, s), handoff[g] # "none",
         handoff[g] # "done", UNCHANGED <<pump, launched, app>>,
         svc' \in [running : BOOLEAN, link : OrNone, gw : OrNone, relay : OrNone,
                   sock : OrNone, want : Wants \cup {{}}],
         svc'.link = svc.link, svc'.running = svc.running
  PROVE  TunInv'
<1> USE DEF TunInv
<1>1. handoff' = [handoff EXCEPT ![g] = s]
  BY DEF To
<1>2. TunTypes'
  BY <1>1 DEF TunTypes
<1>3. PumpIsLast'
  BY <1>1 DEF PumpIsLast, TunTypes
<1>4. ServedFirst' /\ Launching'
  BY <1>1 DEF ServedFirst, Launching, TunTypes
<1>5. RunningIsExact'
  BY DEF RunningIsExact
<1> QED BY <1>2, <1>3, <1>4, <1>5

LEMMA AppInv ==
  ASSUME TunInv, (\E want \in Wants \cup {{}} : Configure(want)) \/ Serve \/ VgOverlayStop
               \/ Detach \/ VgOverlayStopReturns
  PROVE  TunInv'
<1>1. ASSUME NEW want \in Wants \cup {{}}, Configure(want) PROVE TunInv'
  <2>1. /\ svc' = [svc EXCEPT !.want = want] /\ launched' = launched + 1
        /\ handoff' = handoff /\ pump' = pump
    BY <1>1 DEF Configure
  <2>2. TunTypes'
    BY <2>1 DEF TunInv, TunTypes
  <2>3. svc'.link = svc.link /\ svc'.running = svc.running
    BY <2>1 DEF TunInv, TunTypes
  <2>4. PumpIsLast'
    BY <2>1 DEF TunInv, PumpIsLast
  <2>5. ServedFirst'
    BY <2>1 DEF TunInv, ServedFirst, TunTypes, Games
  <2>6. RunningIsExact'
    BY <2>1, <2>3 DEF TunInv, RunningIsExact
  <2>7. Launching'
    BY <1>1, <2>1, TunAssumption DEF Configure, Launching, Games, TunInv, TunTypes
  <2> QED BY <2>2, <2>4, <2>5, <2>6, <2>7 DEF TunInv
<1>2. CASE Serve
  <2>1. /\ svc' = [svc EXCEPT !.sock = launched] /\ launched' = launched
        /\ handoff' = [handoff EXCEPT ![launched] = "listening"] /\ pump' = pump
        /\ app = "configured" /\ app' = "up"
    BY <1>2 DEF Serve
  <2>2. launched \in Games /\ handoff[launched] = "none"
    BY <2>1 DEF TunInv, Launching, ServedFirst
  <2>3. TunTypes'
    BY <2>1, <2>2 DEF TunInv, TunTypes, Stages, OrNone
  <2>4. svc'.link = svc.link /\ svc'.running = svc.running
    BY <2>1 DEF TunInv, TunTypes
  <2>5. PumpIsLast'
    BY <2>1, <2>2 DEF TunInv, PumpIsLast, TunTypes
  <2>6. ServedFirst' /\ Launching'
    BY <2>1 DEF TunInv, ServedFirst, Launching, TunTypes, Games
  <2>7. RunningIsExact'
    BY <2>1, <2>4 DEF TunInv, RunningIsExact
  <2> QED BY <2>3, <2>5, <2>6, <2>7 DEF TunInv
<1>3. CASE VgOverlayStop \/ VgOverlayStopReturns
  <2>1. UNCHANGED <<svc, handoff, pump, launched>> /\ app' # "configured"
    BY <1>3 DEF VgOverlayStop, VgOverlayStopReturns, session
  <2> QED BY <2>1 DEF TunInv, TunTypes, PumpIsLast, ServedFirst, Launching, RunningIsExact
<1>4. CASE Detach
  <2>1. Snapshot(App) /\ pump' = pump /\ launched' = launched /\ handoff' = handoff
        /\ app' # "configured"
    BY <1>4 DEF Detach
  <2> QED BY <2>1, SnapshotInv DEF TunInv, TunTypes
<1> QED BY <1>1, <1>2, <1>3, <1>4

LEMMA HandingInv == ASSUME TunInv, NEW g \in Games, Handing(g) PROVE TunInv'
<1> DEFINE Quiet == UNCHANGED <<pump, launched, app>>
<1>1. CASE HandOver(g)
  <2>1. To(g, "gate") /\ svc' = svc /\ Quiet /\ handoff[g] = "listening"
    BY <1>1 DEF HandOver
  <2> QED BY <2>1, StageInv DEF TunInv, TunTypes, Stages
<1>2. CASE HandOverFails(g)
  <2>1. To(g, "done") /\ svc' = svc /\ Quiet /\ handoff[g] = "listening"
    BY <1>2 DEF HandOverFails
  <2> QED BY <2>1, StageInv DEF TunInv, TunTypes, Stages
<1>3. CASE AttachGate(g)
  <2>1. handoff[g] = "gate" /\ Quiet
        /\ ((To(g, "detach") /\ svc' = svc) \/ Install(g))
    BY <1>3 DEF AttachGate
  <2>2. CASE Install(g)
    BY <2>1, <2>2, InstallInv
  <2>3. CASE To(g, "detach") /\ svc' = svc
    BY <2>1, <2>3, StageInv DEF TunInv, TunTypes, Stages
  <2> QED BY <2>1, <2>2, <2>3
<1>4. CASE AttachDetaches(g)
  <2>1. Snapshot(g) /\ handoff' = [handoff EXCEPT ![g] = "closing"] /\ Quiet
        /\ handoff[g] = "detach"
    BY <1>4 DEF AttachDetaches, To
  <2>2. handoff' \in [Games -> Stages]
    BY <2>1 DEF TunInv, TunTypes, Stages
  <2>3. \A h \in Games : handoff'[h] = "done" <=> handoff[h] = "done"
    BY <2>1 DEF TunInv, TunTypes
  <2>4. \A h \in Games : handoff[h] = "none" => handoff'[h] = "none"
    BY <2>1 DEF TunInv, TunTypes
  <2> QED BY <2>1, <2>2, <2>3, <2>4, SnapshotInv
<1>5. CASE AttachAfter(g)
  BY <1>5, InstallInv DEF AttachAfter
<1>6. ASSUME NEW kind \in {"gw", "relay"}, MakePlane(kind, g), Quiet,
             handoff[g] = kind, NEW s \in {"relay", "pump"}, To(g, s)
      PROVE  TunInv'
  <2>1. svc' = [svc EXCEPT ![kind] = g] \/ svc' = svc
    BY <1>6 DEF MakePlane
  <2>2. /\ svc' \in [running : BOOLEAN, link : OrNone, gw : OrNone, relay : OrNone,
                     sock : OrNone, want : Wants \cup {{}}]
        /\ svc'.link = svc.link /\ svc'.running = svc.running
    BY <2>1 DEF TunInv, TunTypes, OrNone
  <2> QED BY <1>6, <2>2, StageInv DEF Stages
<1>7. CASE AttachGateway(g)
  BY <1>6, <1>7 DEF AttachGateway
<1>8. CASE AttachRelay(g)
  BY <1>6, <1>8 DEF AttachRelay
<1>9. CASE AttachPump(g)
  <2>1. /\ pump' = [pump EXCEPT ![g].at = "reading"] /\ svc' = svc
        /\ handoff' = [handoff EXCEPT ![g] = "done"] /\ handoff[g] = "pump"
        /\ UNCHANGED <<app, launched>>
    BY <1>9 DEF AttachPump, To
  <2>2. pump[g].at = "none"
    BY <2>1 DEF TunInv, PumpIsLast
  <2>3. TunTypes'
    BY <2>1 DEF TunInv, TunTypes, Stages
  <2>4. PumpIsLast'
    BY <2>1 DEF TunInv, TunTypes, PumpIsLast
  <2>5. ServedFirst' /\ Launching'
    BY <2>1 DEF TunInv, TunTypes, ServedFirst, Launching
  <2>6. \A h \in Games : pump'[h].at = "down" <=> pump[h].at = "down"
    BY <2>1, <2>2 DEF TunInv, TunTypes
  <2>7. RunningIsExact'
    BY <2>1, <2>6 DEF TunInv, RunningIsExact
  <2> QED BY <2>3, <2>4, <2>5, <2>7 DEF TunInv
<1> QED BY <1>1, <1>2, <1>3, <1>4, <1>5, <1>7, <1>8, <1>9 DEF Handing

\* A step of a pump that runs, up to its last.
LEMMA PumpInv ==
  ASSUME TunInv, NEW g \in Games, pump[g].at \in {"reading", "reflecting"},
         NEW p \in [at : {"reading", "reflecting", "exiting"}, relay : OrNone],
         pump' = [pump EXCEPT ![g] = p], UNCHANGED <<svc, handoff, launched, app>>
  PROVE  TunInv'
<1> USE DEF TunInv
<1>1. TunTypes'
  BY DEF TunTypes
<1>2. handoff[g] = "done"
  BY DEF PumpIsLast
<1>3. PumpIsLast'
  BY <1>2 DEF PumpIsLast, TunTypes
<1>4. ServedFirst' /\ Launching'
  BY DEF ServedFirst, Launching
<1>5. \A h \in Games : pump'[h].at = "down" <=> pump[h].at = "down"
  BY DEF TunTypes
<1>6. RunningIsExact'
  BY <1>5 DEF RunningIsExact
<1> QED BY <1>1, <1>3, <1>4, <1>6

LEMMA PumpingInv == ASSUME TunInv, NEW g \in Games, Pumping(g) PROVE TunInv'
<1>1. CASE PumpReads(g)
  <2> DEFINE p == IF Exists("ctx", g)
                    THEN [at |-> IF svc.relay = None THEN "reading" ELSE "reflecting",
                          relay |-> svc.relay]
                    ELSE [at |-> "exiting", relay |-> None]
  <2>1. /\ pump[g].at = "reading" /\ pump' = [pump EXCEPT ![g] = p]
        /\ UNCHANGED <<svc, handoff, launched, app>>
    BY <1>1 DEF PumpReads, session
  <2>2. svc.relay \in OrNone /\ None \in OrNone
    BY DEF TunInv, TunTypes, OrNone
  <2>3. p \in [at : {"reading", "reflecting", "exiting"}, relay : OrNone]
    BY <2>2
  <2> HIDE DEF p
  <2> QED BY <2>1, <2>3, PumpInv
<1>2. CASE PumpReflects(g)
  <2> DEFINE p == [at |-> "reading", relay |-> None]
  <2>1. /\ pump[g].at = "reflecting" /\ pump' = [pump EXCEPT ![g] = p]
        /\ UNCHANGED <<svc, handoff, launched, app>>
    BY <1>2 DEF PumpReflects
  <2>2. p \in [at : {"reading", "reflecting", "exiting"}, relay : OrNone]
    BY DEF OrNone
  <2> HIDE DEF p
  <2> QED BY <2>1, <2>2, PumpInv
<1>3. CASE PumpFails(g)
  <2> DEFINE p == [at |-> "exiting", relay |-> None]
  <2>1. /\ pump[g].at = "reading" /\ pump' = [pump EXCEPT ![g] = p]
        /\ UNCHANGED <<svc, handoff, launched, app>>
    BY <1>3 DEF PumpFails, session
  <2>2. p \in [at : {"reading", "reflecting", "exiting"}, relay : OrNone]
    BY DEF OrNone
  <2> HIDE DEF p
  <2> QED BY <2>1, <2>2, PumpInv
<1>4. CASE PumpExits(g)
  <2>1. /\ pump[g].at = "exiting" /\ pump' = [pump EXCEPT ![g].at = "down"]
        /\ svc' = IF svc.running /\ svc.link = g THEN [svc EXCEPT !.running = FALSE]
                  ELSE svc
        /\ UNCHANGED <<handoff, launched, app>>
    BY <1>4 DEF PumpExits, ClearRunning, StillOurs
  <2>2. handoff[g] = "done"
    BY <2>1 DEF TunInv, PumpIsLast
  <2>3. svc' \in [running : BOOLEAN, link : OrNone, gw : OrNone, relay : OrNone,
                  sock : OrNone, want : Wants \cup {{}}]
        /\ svc'.link = svc.link
    BY <2>1 DEF TunInv, TunTypes
  <2>4. TunTypes'
    BY <2>1, <2>3 DEF TunInv, TunTypes
  <2>5. PumpIsLast'
    BY <2>1, <2>2 DEF TunInv, TunTypes, PumpIsLast
  <2>6. ServedFirst' /\ Launching'
    BY <2>1 DEF TunInv, ServedFirst, Launching
  <2>7. ASSUME NEW h \in Games, svc'.link = h
        PROVE  svc'.running <=> pump'[h].at # "down"
    <3>1. svc.link = h
      BY <2>3, <2>7
    <3>2. CASE h = g
      <4>1. pump'[h].at = "down"
        BY <2>1, <3>2 DEF TunInv, TunTypes
      <4>2. ~svc'.running
        BY <2>1, <3>1, <3>2 DEF TunInv, TunTypes
      <4> QED BY <4>1, <4>2
    <3>3. CASE h # g
      <4>1. pump'[h] = pump[h] /\ svc' = svc
        BY <2>1, <3>1, <3>3 DEF TunInv, TunTypes
      <4> QED BY <3>1, <4>1 DEF TunInv, RunningIsExact
    <3> QED BY <3>2, <3>3
  <2>8. RunningIsExact'
    BY <2>7 DEF RunningIsExact
  <2> QED BY <2>4, <2>5, <2>6, <2>8 DEF TunInv
<1> QED BY <1>1, <1>2, <1>3, <1>4 DEF Pumping

LEMMA StepInv == ASSUME TunInv, [TunNext]_tunVars PROVE TunInv'
<1>1. CASE (\E want \in Wants \cup {{}} : Configure(want)) \/ Serve \/ VgOverlayStop
           \/ Detach \/ VgOverlayStopReturns
  BY <1>1, AppInv
<1>2. ASSUME NEW g \in Games, Handing(g) PROVE TunInv'
  BY <1>2, HandingInv
<1>3. ASSUME NEW g \in Games, Pumping(g) PROVE TunInv'
  BY <1>3, PumpingInv
<1>4. CASE (\E d \in Games \cup {App} : CloseNext(d)) \/ (\E g \in Games : GameEnds(g))
           \/ Receiving \/ Restart \/ FriendTurns \/ UNCHANGED tunVars
  <2>1. Still
    BY <1>4 DEF Still, CloseNext, GameEnds, Receiving, FrameArrives, FrameWritten, Restart,
                FriendTurns, tunVars, session
  <2> QED BY <2>1, StillInv
<1> QED BY <1>1, <1>2, <1>3, <1>4 DEF TunNext

LEMMA InitInv == TunInit => TunInv
<1> SUFFICES ASSUME TunInit PROVE TunInv
  OBVIOUS
<1>1. TunTypes
  BY DEF TunInit, TunTypes, OrNone, Stages
<1>2. PumpIsLast /\ ServedFirst /\ Launching
  BY DEF TunInit, PumpIsLast, ServedFirst, Launching
<1>3. RunningIsExact
  BY DEF TunInit, RunningIsExact, Games, None
<1> QED BY <1>1, <1>2, <1>3 DEF TunInv

\* VgOverlayActive and the health screen read running: whatever launches,
\* handoffs and stops meet, it is true of the TUN that is attached exactly
\* while that TUN's pump is not down (attach and the defer of readLoop).
THEOREM RunningIsTrue == TunSpec => []RunningIsExact
<1>1. TunInv => RunningIsExact
  BY DEF TunInv
<1> QED BY <1>1, InitInv, StepInv, PTL DEF TunSpec

-----------------------------------------------------------------------------
(* What a session leaves behind.  Each thing that exists is named by a     *)
(* field, or is in the list of a detach that has yet to close it, or is a  *)
(* TUN that its attach still holds.  The one step that can lose a thing is *)
(* an attach that installs its session, its own detach done, while another *)
(* session is there.                                                       *)

Kinds == {"sock", "ctx", "link", "gw", "relay"}
Things == Kinds \X Games
Detachers == Games \cup {App}

\* The field that names what exists of a kind.
Field(kind) ==
  IF kind = "sock" THEN svc.sock ELSE IF kind = "gw" THEN svc.gw
  ELSE IF kind = "relay" THEN svc.relay ELSE svc.link

In(x, list) == \E i \in 1 .. Len(list) : list[i] = x

\* A detach has it still to close.
Closing(x) == \E d \in Detachers : In(x, teardown[d])

HeldByAttach(kind, g) == kind = "link" /\ handoff[g] \in {"gate", "detach", "closing"}

Kept ==
  \A g \in Games : \A kind \in Kinds :
    Exists(kind, g) => Field(kind) = g \/ Closing(<<kind, g>>) \/ HeldByAttach(kind, g)

PortsOfRelays == \A g \in Games : Exists("port", g) => Exists("relay", g)

\* The planes are of the session that is attached.
Planes ==
  /\ svc.gw \in {None, svc.link} /\ svc.relay \in {None, svc.link}
  /\ svc.running => svc.link # None

SocketIsServed == svc.sock # None => app \in {"up", "stopping"}

Lists ==
  /\ teardown \in [Detachers -> Seq(Things)]
  /\ teardown[App] # <<>> => app = "closing"
  /\ \A g \in Games : teardown[g] # <<>> => handoff[g] = "closing"

KeepInv == Kept /\ PortsOfRelays /\ Planes /\ SocketIsServed /\ Lists

\* No attach whose detach is done installs its session over another's.
NoneOverrun == \A g \in Games : AttachAfter(g) => svc.link = None

LEMMA ThingsAreDistinct == App \notin Games /\ None \notin Games /\ App \in Detachers
BY DEF App, None, Games, Detachers

\* What two lists hold is what they hold put together.
LEMMA InConcat ==
  ASSUME NEW S, NEW s \in Seq(S), NEW t \in Seq(S), NEW x
  PROVE  /\ s \o t \in Seq(S)
         /\ In(x, s \o t) <=> In(x, s) \/ In(x, t)
<1>1. /\ s \o t \in Seq(S) /\ Len(s) \in Nat /\ Len(t) \in Nat
      /\ Len(s \o t) = Len(s) + Len(t)
  OBVIOUS
<1>2. /\ \A i \in 1 .. Len(s) : (s \o t)[i] = s[i]
      /\ \A i \in 1 .. Len(t) : (s \o t)[Len(s) + i] = t[i]
  OBVIOUS
<1>3. ASSUME In(x, s \o t) PROVE In(x, s) \/ In(x, t)
  <2>1. PICK i \in 1 .. Len(s \o t) : (s \o t)[i] = x
    BY <1>3 DEF In
  <2>2. CASE i \in 1 .. Len(s)
    BY <1>2, <2>1, <2>2 DEF In
  <2>3. CASE i \notin 1 .. Len(s)
    <3> DEFINE j == i - Len(s)
    <3>1. j \in 1 .. Len(t) /\ i = Len(s) + j
      BY <1>1, <2>1, <2>3
    <3>2. t[j] = x
      BY <1>2, <2>1, <3>1
    <3> QED BY <3>1, <3>2 DEF In
  <2> QED BY <2>2, <2>3
<1>4. ASSUME In(x, s) PROVE In(x, s \o t)
  <2>1. PICK i \in 1 .. Len(s) : s[i] = x
    BY <1>4 DEF In
  <2>2. i \in 1 .. Len(s \o t) /\ (s \o t)[i] = x
    BY <1>1, <1>2, <2>1
  <2> QED BY <2>2 DEF In
<1>5. ASSUME In(x, t) PROVE In(x, s \o t)
  <2>1. PICK i \in 1 .. Len(t) : t[i] = x
    BY <1>5 DEF In
  <2>2. Len(s) + i \in 1 .. Len(s \o t) /\ (s \o t)[Len(s) + i] = x
    BY <1>1, <1>2, <2>1
  <2> QED BY <2>2 DEF In
<1> QED BY <1>1, <1>3, <1>4, <1>5

\* What a list holds, but for its head, its tail holds.
LEMMA InTail ==
  ASSUME NEW S, NEW s \in Seq(S), s # <<>>, NEW x, In(x, s), x # Head(s)
  PROVE  In(x, Tail(s))
<1>1. PICK i \in 1 .. Len(s) : s[i] = x
  BY DEF In
<1>2. i # 1
  BY <1>1
<1> DEFINE j == i - 1
<1>3. j \in 1 .. Len(Tail(s)) /\ i = j + 1
  BY <1>1, <1>2
<1>4. Tail(s)[j] = x
  BY <1>1, <1>3
<1> QED BY <1>3, <1>4 DEF In

LEMMA InHeld ==
  ASSUME NEW kind \in Kinds, NEW g \in OrNone
  PROVE  /\ Held(kind, g) \in Seq(Things)
         /\ \A k \in Kinds, h \in Games : In(<<k, h>>, Held(kind, g)) <=> k = kind /\ h = g
<1>1. CASE g = None
  <2>1. Held(kind, g) = <<>> /\ Len(<<>>) = 0
    BY <1>1 DEF Held
  <2>2. \A k \in Kinds, h \in Games : h # g
    BY <1>1, ThingsAreDistinct
  <2> QED BY <2>1, <2>2 DEF In
<1>2. CASE g # None
  <2>1. g \in Games /\ Held(kind, g) = <<<<kind, g>>>> /\ <<kind, g>> \in Things
    BY <1>2 DEF Held, OrNone, Things
  <2>2. \A x : In(x, <<<<kind, g>>>>) <=> x = <<kind, g>>
    BY DEF In
  <2> QED BY <2>1, <2>2
<1> QED BY <1>1, <1>2

\* A detach's list holds what the fields name.
LEMMA SnapshotHolds ==
  ASSUME TunTypes, NEW L, L = Held("sock", svc.sock) \o Held("ctx", svc.link)
           \o Held("link", svc.link) \o Held("gw", svc.gw) \o Held("relay", svc.relay)
  PROVE  /\ L \in Seq(Things)
         /\ \A kind \in Kinds, g \in Games : Field(kind) = g => In(<<kind, g>>, L)
<1>1. /\ svc.sock \in OrNone /\ svc.link \in OrNone /\ svc.gw \in OrNone
      /\ svc.relay \in OrNone
  BY DEF TunTypes
<1>2. \A kind \in Kinds : kind \in {"sock", "ctx", "link", "gw", "relay"}
  BY DEF Kinds
<1> DEFINE A == Held("sock", svc.sock)
           B == Held("ctx", svc.link)
           C == Held("link", svc.link)
           D == Held("gw", svc.gw)
           E == Held("relay", svc.relay)
<1>3. /\ A \in Seq(Things) /\ B \in Seq(Things) /\ C \in Seq(Things)
      /\ D \in Seq(Things) /\ E \in Seq(Things)
  BY <1>1, InHeld DEF Kinds
<1>4. \A g \in Games :
        /\ svc.sock = g => In(<<"sock", g>>, A)
        /\ svc.link = g => In(<<"ctx", g>>, B) /\ In(<<"link", g>>, C)
        /\ svc.gw = g => In(<<"gw", g>>, D)
        /\ svc.relay = g => In(<<"relay", g>>, E)
  BY <1>1, InHeld DEF Kinds
<1>5. L = A \o B \o C \o D \o E
  OBVIOUS
<1> HIDE DEF A, B, C, D, E
<1> DEFINE AB == A \o B
           AC == AB \o C
           AD == AC \o D
<1>6. AB \in Seq(Things) /\ \A x : In(x, AB) <=> In(x, A) \/ In(x, B)
  BY <1>3, InConcat
<1> HIDE DEF AB
<1>7. AC \in Seq(Things) /\ \A x : In(x, AC) <=> In(x, AB) \/ In(x, C)
  BY <1>3, <1>6, InConcat
<1> HIDE DEF AC
<1>8. AD \in Seq(Things) /\ \A x : In(x, AD) <=> In(x, AC) \/ In(x, D)
  BY <1>3, <1>7, InConcat
<1> HIDE DEF AD
<1> DEFINE AE == AD \o E
<1>9. AE \in Seq(Things) /\ \A x : In(x, AE) <=> In(x, AD) \/ In(x, E)
  BY <1>3, <1>8, InConcat
<1> HIDE DEF AE
<1>10. L = AE
  BY <1>5 DEF AE, AD, AC, AB
<1>11. ASSUME NEW kind \in Kinds, NEW g \in Games, Field(kind) = g
       PROVE  In(<<kind, g>>, L)
  <2>1. CASE kind = "sock"
    BY <1>4, <1>6, <1>7, <1>8, <1>9, <1>10, <1>11, <2>1 DEF Field
  <2>2. CASE kind \in {"ctx", "link"}
    BY <1>4, <1>6, <1>7, <1>8, <1>9, <1>10, <1>11, <2>2 DEF Field
  <2>3. CASE kind \in {"gw", "relay"}
    BY <1>4, <1>8, <1>9, <1>10, <1>11, <2>3 DEF Field
  <2> QED BY <1>2, <2>1, <2>2, <2>3
<1> QED BY <1>9, <1>10, <1>11

\* What the fields named, a detach has still to close.
LEMMA SnapshotEffect ==
  ASSUME TunTypes, teardown \in [Detachers -> Seq(Things)], NEW d \in Detachers,
         teardown[d] = <<>>, Snapshot(d)
  PROVE  /\ teardown' \in [Detachers -> Seq(Things)]
         /\ \A e \in Detachers : e # d => teardown'[e] = teardown[e]
         /\ \A kind \in Kinds, g \in Games :
              Field(kind) = g \/ Closing(<<kind, g>>) => Closing(<<kind, g>>)'
         /\ svc'.running = FALSE /\ svc'.link = None /\ svc'.gw = None
         /\ svc'.relay = None /\ svc'.sock = None
<1> DEFINE L == Held("sock", svc.sock) \o Held("ctx", svc.link)
           \o Held("link", svc.link) \o Held("gw", svc.gw) \o Held("relay", svc.relay)
<1>1. teardown' = [teardown EXCEPT ![d] = L]
  BY DEF Snapshot
<1>2. /\ svc'.running = FALSE /\ svc'.link = None /\ svc'.gw = None
      /\ svc'.relay = None /\ svc'.sock = None
  BY DEF Snapshot, TunTypes
<1>3. /\ L \in Seq(Things)
      /\ \A kind \in Kinds, g \in Games : Field(kind) = g => In(<<kind, g>>, L)
  BY SnapshotHolds
<1> HIDE DEF L
<1>4. teardown'[d] = L /\ \A e \in Detachers : e # d => teardown'[e] = teardown[e]
  BY <1>1
<1>5. ~\E i \in 1 .. Len(<<>>) : TRUE
  OBVIOUS
<1>6. ASSUME NEW kind \in Kinds, NEW g \in Games, Field(kind) = g \/ Closing(<<kind, g>>)
      PROVE  \E e \in Detachers : In(<<kind, g>>, teardown'[e])
  <2>1. CASE Field(kind) = g
    BY <1>3, <1>4, <2>1
  <2>2. CASE Closing(<<kind, g>>)
    <3>1. PICK e \in Detachers : In(<<kind, g>>, teardown[e])
      BY <2>2 DEF Closing
    <3>2. e # d
      BY <1>5, <3>1 DEF In
    <3> QED BY <1>4, <3>1, <3>2
  <2> QED BY <1>6, <2>1, <2>2
<1>7. \A kind \in Kinds, g \in Games :
        Field(kind) = g \/ Closing(<<kind, g>>) => Closing(<<kind, g>>)'
  BY <1>6 DEF Closing, In
<1> QED BY <1>1, <1>2, <1>3, <1>4, <1>7

\* A close takes what it closes off its list, and what else there is to close stays.
LEMMA CloseEffect ==
  ASSUME teardown \in [Detachers -> Seq(Things)], NEW d \in Detachers, CloseNext(d)
  PROVE  /\ teardown' \in [Detachers -> Seq(Things)]
         /\ \A e \in Detachers : teardown'[e] # <<>> => teardown[e] # <<>>
         /\ \A kind \in Kinds, g \in Games :
              Exists(kind, g)' =>
                /\ Exists(kind, g)
                /\ Closing(<<kind, g>>) => Closing(<<kind, g>>)'
         /\ PortsOfRelays => PortsOfRelays'
<1> DEFINE x == Head(teardown[d])
           t == Tail(teardown[d])
<1>1. /\ teardown[d] # <<>> /\ Close(x)
      /\ teardown' = [teardown EXCEPT ![d] = t]
  BY DEF CloseNext
<1>2. x \in Things /\ t \in Seq(Things)
  BY <1>1
<1>3. \A y : In(y, teardown[d]) /\ y # x => In(y, t)
  BY <1>1, InTail
<1>4. open' = open \ (IF x[1] = "relay" THEN {x, <<"port", x[2]>>} ELSE {x})
  BY <1>1 DEF Close
<1> HIDE DEF x, t
<1>5. teardown'[d] = t /\ \A e \in Detachers : e # d => teardown'[e] = teardown[e]
  BY <1>1
<1>6. ASSUME NEW kind \in Kinds, NEW g \in Games, Exists(kind, g)'
      PROVE  Exists(kind, g) /\ (Closing(<<kind, g>>) => Closing(<<kind, g>>)')
  <2>1. Exists(kind, g) /\ <<kind, g>> # x
    BY <1>4, <1>6 DEF Exists
  <2>2. ASSUME Closing(<<kind, g>>) PROVE \E e \in Detachers : In(<<kind, g>>, teardown'[e])
    <3>1. PICK e \in Detachers : In(<<kind, g>>, teardown[e])
      BY <2>2 DEF Closing
    <3> QED BY <1>3, <1>5, <2>1, <3>1
  <2>3. Closing(<<kind, g>>) => Closing(<<kind, g>>)'
    BY <2>2 DEF Closing, In
  <2> QED BY <2>1, <2>3
<1>7. ASSUME PortsOfRelays, NEW g \in Games, Exists("port", g)' PROVE Exists("relay", g)'
  <2>1. Exists("port", g) /\ Exists("relay", g)
    BY <1>4, <1>7 DEF Exists, PortsOfRelays
  <2>2. x # <<"relay", g>>
    BY <1>4, <1>7 DEF Exists
  <2>3. <<"relay", g>> # <<"port", x[2]>>
    OBVIOUS
  <2> QED BY <1>4, <2>1, <2>2, <2>3 DEF Exists
<1>8. PortsOfRelays => PortsOfRelays'
  BY <1>7 DEF PortsOfRelays
<1> QED BY <1>1, <1>2, <1>5, <1>6, <1>8

\* Where no detach moves, what is kept stays so if each thing is named still, or
\* again, or was left to a detach before.
LEMMA KeptFrame ==
  ASSUME Kept, teardown' = teardown,
         \A g \in Games : \A kind \in Kinds :
           Exists(kind, g)' => \/ Field(kind)' = g \/ HeldByAttach(kind, g)'
                               \/ Exists(kind, g) /\ Field(kind) # g /\ ~HeldByAttach(kind, g)
  PROVE  Kept'
<1>1. \A x : Closing(x)' <=> Closing(x)
  BY DEF Closing
<1> QED BY <1>1 DEF Kept

LEMMA ListsFrame ==
  ASSUME Lists, teardown' = teardown,
         app = "closing" => app' = "closing" \/ teardown[App] = <<>>,
         \A g \in Games : handoff[g] = "closing" => handoff'[g] = "closing" \/ teardown[g] = <<>>
  PROVE  Lists'
BY DEF Lists

\* A detach's section, of the app or of an attach.
LEMMA SnapshotKeeps ==
  ASSUME TunInv, KeepInv, NEW d \in Detachers, teardown[d] = <<>>, Snapshot(d), open' = open,
         app \in {"up", "stopping"} \/ app' = app,
         \A g \in Games : HeldByAttach("link", g) => HeldByAttach("link", g)',
         app = "closing" => app' = "closing",
         \A g \in Games : handoff[g] = "closing" => handoff'[g] = "closing",
         d = App => app' = "closing", d # App => handoff'[d] = "closing"
  PROVE  KeepInv'
<1> USE DEF KeepInv
<1>1. teardown \in [Detachers -> Seq(Things)]
  BY DEF Lists
<1>2. /\ teardown' \in [Detachers -> Seq(Things)]
      /\ \A e \in Detachers : e # d => teardown'[e] = teardown[e]
      /\ \A kind \in Kinds, g \in Games :
           Field(kind) = g \/ Closing(<<kind, g>>) => Closing(<<kind, g>>)'
      /\ svc'.running = FALSE /\ svc'.link = None /\ svc'.gw = None
      /\ svc'.relay = None /\ svc'.sock = None
  BY <1>1, SnapshotEffect DEF TunInv
<1>3. \A kind, g : Exists(kind, g)' <=> Exists(kind, g)
  BY DEF Exists
<1>4. \A kind \in Kinds, g \in Games : HeldByAttach(kind, g) => HeldByAttach(kind, g)'
  BY DEF HeldByAttach
<1>5. Kept'
  BY <1>2, <1>3, <1>4 DEF Kept
<1>6. PortsOfRelays'
  BY <1>3 DEF PortsOfRelays
<1>7. Planes' /\ SocketIsServed'
  BY <1>2 DEF Planes, SocketIsServed
<1>8. Lists'
  <2>1. App \in Detachers /\ \A g \in Games : g \in Detachers /\ g # App
    BY ThingsAreDistinct DEF Detachers
  <2> QED BY <1>2, <2>1 DEF Lists
<1> QED BY <1>5, <1>6, <1>7, <1>8

LEMMA CloseKeeps ==
  ASSUME KeepInv, NEW d \in Detachers, CloseNext(d)
  PROVE  KeepInv'
<1> USE DEF KeepInv
<1>1. UNCHANGED <<svc, handoff, app>>
  BY DEF CloseNext
<1>2. /\ teardown' \in [Detachers -> Seq(Things)]
      /\ \A e \in Detachers : teardown'[e] # <<>> => teardown[e] # <<>>
      /\ \A kind \in Kinds, g \in Games :
           Exists(kind, g)' =>
             /\ Exists(kind, g)
             /\ Closing(<<kind, g>>) => Closing(<<kind, g>>)'
      /\ PortsOfRelays => PortsOfRelays'
  BY CloseEffect DEF Lists
<1>3. \A kind, g : Field(kind)' = Field(kind) /\ (HeldByAttach(kind, g)' <=> HeldByAttach(kind, g))
  BY <1>1 DEF Field, HeldByAttach
<1>4. Kept'
  BY <1>2, <1>3 DEF Kept
<1>5. Planes' /\ SocketIsServed'
  BY <1>1 DEF Planes, SocketIsServed
<1>6. Lists'
  BY <1>1, <1>2 DEF Lists, Detachers
<1> QED BY <1>2, <1>4, <1>5, <1>6

\* A new session where none is.
LEMMA InstallKeeps ==
  ASSUME TunInv, KeepInv, NEW g \in Games, svc.link = None, Install(g), teardown[g] = <<>>,
         UNCHANGED <<teardown, app>>
  PROVE  KeepInv'
<1> USE DEF KeepInv
<1>1. /\ svc'.link = g /\ svc'.running /\ svc'.gw = svc.gw /\ svc'.relay = svc.relay
      /\ svc'.sock = svc.sock
  BY DEF Install, TunInv, TunTypes
<1>2. open' = open \cup {<<"ctx", g>>} /\ handoff' = [handoff EXCEPT ![g] = "gw"]
  BY DEF Install, To
<1>3. \A h \in Games : h # g => handoff'[h] = handoff[h]
  BY <1>2 DEF TunInv, TunTypes
<1>4. svc.gw = None /\ svc.relay = None
  BY DEF Planes
<1>5. ASSUME NEW h \in Games, NEW kind \in Kinds, Exists(kind, h)'
      PROVE  \/ Field(kind)' = h \/ HeldByAttach(kind, h)'
             \/ Exists(kind, h) /\ Field(kind) # h /\ ~HeldByAttach(kind, h)
  <2>1. CASE kind \in {"ctx", "link"}
    <3>1. CASE h = g
      BY <1>1, <2>1, <3>1 DEF Field
    <3>2. CASE h # g
      <4>1. Exists(kind, h) /\ (HeldByAttach(kind, h)' <=> HeldByAttach(kind, h))
        BY <1>2, <1>3, <1>5, <3>2 DEF Exists, HeldByAttach
      <4>2. Field(kind) # h
        BY <2>1, ThingsAreDistinct DEF Field
      <4> QED BY <4>1, <4>2
    <3> QED BY <3>1, <3>2
  <2>2. CASE kind \in {"sock", "gw", "relay"}
    <3>1. Exists(kind, h) /\ Field(kind)' = Field(kind)
      BY <1>1, <1>2, <1>5, <2>2 DEF Exists, Field
    <3>2. ~HeldByAttach(kind, h)
      BY <2>2 DEF HeldByAttach
    <3> QED BY <3>1, <3>2
  <2> QED BY <2>1, <2>2 DEF Kinds
<1>6. Kept'
  BY <1>5, KeptFrame
<1>7. PortsOfRelays'
  BY <1>2 DEF PortsOfRelays, Exists
<1>8. Planes' /\ SocketIsServed'
  BY <1>1, <1>4, ThingsAreDistinct DEF Planes, SocketIsServed
<1>9. Lists'
  BY <1>3, ListsFrame
<1> QED BY <1>6, <1>7, <1>8, <1>9

\* Nothing changes but the place of an attach, that of its TUN apart.
LEMMA StageKeeps ==
  ASSUME TunInv, KeepInv, NEW g \in Games, NEW s \in Stages, To(g, s),
         handoff[g] \notin {"gate", "detach", "closing"} \/ s = "detach",
         handoff[g] # "closing",
         s = "gate" => open' \subseteq open \cup {<<"link", g>>},
         s # "gate" => open' = open,
         \A h \in Games : Exists("relay", h) => Exists("relay", h)',
         UNCHANGED <<svc, teardown, app>>
  PROVE  KeepInv'
<1> USE DEF KeepInv
<1>1. handoff' = [handoff EXCEPT ![g] = s]
  BY DEF To
<1>2. handoff'[g] = s /\ \A h \in Games : h # g => handoff'[h] = handoff[h]
  BY <1>1 DEF TunInv, TunTypes
<1>3. ASSUME NEW h \in Games, NEW kind \in Kinds, Exists(kind, h)'
      PROVE  \/ Field(kind)' = h \/ HeldByAttach(kind, h)'
             \/ Exists(kind, h) /\ Field(kind) # h /\ ~HeldByAttach(kind, h)
  <2>1. Field(kind)' = Field(kind)
    BY DEF Field
  <2>2. CASE HeldByAttach(kind, h)
    BY <1>2, <2>2 DEF HeldByAttach
  <2>3. CASE ~Exists(kind, h)
    BY <1>2, <1>3, <2>3 DEF Exists, HeldByAttach
  <2> QED BY <2>1, <2>2, <2>3
<1>4. Kept'
  BY <1>3, KeptFrame
<1>5. PortsOfRelays'
  <2>1. \A h \in Games : Exists("port", h)' => Exists("port", h)
    BY DEF Exists
  <2> QED BY <2>1 DEF PortsOfRelays
<1>6. Planes' /\ SocketIsServed'
  BY DEF Planes, SocketIsServed
<1>7. Lists'
  BY <1>2, ListsFrame
<1> QED BY <1>4, <1>5, <1>6, <1>7

\* A plane that is made is of the session that is attached.
LEMMA MakePlaneKeeps ==
  ASSUME TunInv, KeepInv, NEW g \in Games, NEW kind \in {"gw", "relay"}, MakePlane(kind, g),
         handoff[g] = kind, NEW s \in {"relay", "pump"}, To(g, s), UNCHANGED <<teardown, app>>
  PROVE  KeepInv'
<1>1. CASE UNCHANGED <<svc, open>>
  BY <1>1, StageKeeps DEF Stages, Exists
<1>2. CASE /\ svc.running /\ svc.link = g /\ svc' = [svc EXCEPT ![kind] = g]
           /\ open' = open \cup {<<kind, g>>}
  <2> USE DEF KeepInv
  <2>1. /\ svc'.link = g /\ svc'.running = svc.running /\ svc'.sock = svc.sock
        /\ svc'[kind] = g
        /\ svc'.gw \in {None, g} /\ svc'.relay \in {None, g}
        /\ kind = "gw" => svc'.relay = svc.relay
        /\ kind = "relay" => svc'.gw = svc.gw
    BY <1>2 DEF TunInv, TunTypes, Planes
  <2>2. /\ handoff'[g] = s /\ s \notin {"gate", "detach", "closing"}
        /\ \A h \in Games : h # g => handoff'[h] = handoff[h]
    BY DEF To, TunInv, TunTypes
  <2>3. ASSUME NEW h \in Games, NEW k \in Kinds, Exists(k, h)'
        PROVE  \/ Field(k)' = h \/ HeldByAttach(k, h)'
               \/ Exists(k, h) /\ Field(k) # h /\ ~HeldByAttach(k, h)
    <3>1. CASE k = kind /\ h = g
      BY <2>1, <3>1 DEF Field
    <3>2. CASE ~(k = kind /\ h = g)
      <4>1. Exists(k, h)
        BY <1>2, <2>3, <3>2 DEF Exists
      <4>2. HeldByAttach(k, h) => HeldByAttach(k, h)'
        BY <2>2 DEF HeldByAttach
      <4>3. Field(k) = h => Field(k)' = h
        <5>1. CASE k = kind
          <6>1. svc[kind] \in {None, g} /\ Field(k) = svc[kind]
            BY <1>2, <5>1 DEF Planes, Field
          <6> QED BY <3>2, <5>1, <6>1, ThingsAreDistinct
        <5>2. CASE k # kind
          BY <1>2, <2>1, <5>2 DEF Field, Kinds
        <5> QED BY <5>1, <5>2
      <4> QED BY <4>1, <4>2, <4>3
    <3> QED BY <3>1, <3>2
  <2>4. Kept'
    BY <2>3, KeptFrame
  <2>5. PortsOfRelays'
    BY <1>2 DEF PortsOfRelays, Exists
  <2>6. Planes' /\ SocketIsServed'
    BY <2>1, ThingsAreDistinct DEF Planes, SocketIsServed
  <2>7. Lists'
    BY <2>2, ListsFrame
  <2> QED BY <2>4, <2>5, <2>6, <2>7
<1> QED BY <1>1, <1>2 DEF MakePlane, StillOurs

LEMMA HandingKeeps ==
  ASSUME TunInv, KeepInv, NEW g \in Games, Handing(g), AttachAfter(g) => svc.link = None
  PROVE  KeepInv'
<1>1. handoff[g] # "closing" => teardown[g] = <<>>
  BY DEF KeepInv, Lists
<1>2. CASE HandOver(g)
  <2>1. /\ handoff[g] = "listening" /\ To(g, "gate") /\ open' = open \cup {<<"link", g>>}
        /\ UNCHANGED <<svc, teardown, app>>
    BY <1>2 DEF HandOver
  <2> QED BY <2>1, StageKeeps DEF Stages, Exists
<1>3. CASE HandOverFails(g)
  <2>1. /\ handoff[g] = "listening" /\ To(g, "done") /\ open' = open
        /\ UNCHANGED <<svc, teardown, app>>
    BY <1>3 DEF HandOverFails
  <2> QED BY <2>1, StageKeeps DEF Stages, Exists
<1>4. CASE AttachGate(g)
  <2>1. /\ handoff[g] = "gate" /\ UNCHANGED <<teardown, app>>
        /\ \/ To(g, "detach") /\ UNCHANGED <<svc, open>>
           \/ svc.link = None /\ Install(g)
    BY <1>4 DEF AttachGate, Leftover
  <2>2. CASE To(g, "detach") /\ UNCHANGED <<svc, open>>
    BY <2>1, <2>2, StageKeeps DEF Stages, Exists
  <2>3. CASE svc.link = None /\ Install(g)
    BY <1>1, <2>1, <2>3, InstallKeeps
  <2> QED BY <2>1, <2>2, <2>3
<1>5. CASE AttachDetaches(g)
  <2>1. /\ handoff[g] = "detach" /\ Snapshot(g) /\ handoff' = [handoff EXCEPT ![g] = "closing"]
        /\ UNCHANGED <<open, app>>
    BY <1>5 DEF AttachDetaches, To
  <2>2. handoff'[g] = "closing" /\ \A h \in Games : h # g => handoff'[h] = handoff[h]
    BY <2>1 DEF TunInv, TunTypes
  <2>3. \A h \in Games : HeldByAttach("link", h) => HeldByAttach("link", h)'
    BY <2>2 DEF HeldByAttach
  <2>4. \A h \in Games : handoff[h] = "closing" => handoff'[h] = "closing"
    BY <2>2
  <2>5. g \in Detachers /\ g # App /\ teardown[g] = <<>>
    BY <1>1, <2>1, ThingsAreDistinct DEF Detachers
  <2> QED BY <2>1, <2>2, <2>3, <2>4, <2>5, SnapshotKeeps
<1>6. CASE AttachAfter(g)
  BY <1>6, InstallKeeps DEF AttachAfter
<1>7. CASE AttachGateway(g)
  BY <1>7, MakePlaneKeeps DEF AttachGateway
<1>8. CASE AttachRelay(g)
  BY <1>8, MakePlaneKeeps DEF AttachRelay
<1>9. CASE AttachPump(g)
  <2>1. /\ handoff[g] = "pump" /\ To(g, "done") /\ open' = open
        /\ UNCHANGED <<svc, teardown, app>>
    BY <1>9 DEF AttachPump
  <2> QED BY <2>1, StageKeeps DEF Stages, Exists
<1> QED BY <1>2, <1>3, <1>4, <1>5, <1>6, <1>7, <1>8, <1>9 DEF Handing

LEMMA PumpingKeeps ==
  ASSUME TunInv, KeepInv, NEW g \in Games, Pumping(g)
  PROVE  KeepInv'
<1> USE DEF KeepInv
<1>1. UNCHANGED <<handoff, teardown, app>>
  BY DEF Pumping, PumpReads, PumpReflects, PumpFails, PumpExits, session
<1>2. /\ svc'.link = svc.link /\ svc'.gw = svc.gw /\ svc'.relay = svc.relay
      /\ svc'.sock = svc.sock /\ (svc'.running => svc.running)
  BY DEF Pumping, PumpReads, PumpReflects, PumpFails, PumpExits, ClearRunning, session,
         TunInv, TunTypes
<1>3. \A h \in Games : \A kind \in Kinds : Exists(kind, h)' <=> Exists(kind, h)
  BY DEF Pumping, PumpReads, PumpReflects, PumpFails, PumpExits, session, ensure, Exists, Kinds
<1>4. \A h \in Games : Exists("port", h)' => Exists("port", h) \/ Exists("relay", h)
  BY DEF Pumping, PumpReads, PumpReflects, PumpFails, PumpExits, session, ensure, Exists
<1>5. \A kind, h : Field(kind)' = Field(kind) /\ (HeldByAttach(kind, h)' <=> HeldByAttach(kind, h))
  BY <1>1, <1>2 DEF Field, HeldByAttach
<1>6. Kept'
  BY <1>1, <1>3, <1>5, KeptFrame
<1>7. PortsOfRelays'
  BY <1>3, <1>4 DEF PortsOfRelays, Kinds
<1>8. Planes' /\ SocketIsServed'
  BY <1>1, <1>2 DEF Planes, SocketIsServed
<1>9. Lists'
  BY <1>1, ListsFrame
<1> QED BY <1>6, <1>7, <1>8, <1>9

\* The app's calls.
LEMMA AppKeeps ==
  ASSUME TunInv, KeepInv,
         (\E want \in Wants \cup {{}} : Configure(want)) \/ Serve \/ VgOverlayStop
         \/ Detach \/ VgOverlayStopReturns
  PROVE  KeepInv'
<1> USE DEF KeepInv
<1>1. CASE (\E want \in Wants \cup {{}} : Configure(want)) \/ VgOverlayStop \/ VgOverlayStopReturns
  <2>1. /\ UNCHANGED <<open, handoff, teardown>>
        /\ svc'.link = svc.link /\ svc'.gw = svc.gw /\ svc'.relay = svc.relay
        /\ svc'.sock = svc.sock /\ svc'.running = svc.running
    BY <1>1 DEF Configure, VgOverlayStop, VgOverlayStopReturns, session, TunInv, TunTypes
  <2>2. \/ app = "idle" /\ app' = "configured"
        \/ app = "up" /\ app' = "stopping"
        \/ app = "closing" /\ teardown[App] = <<>> /\ app' = "idle"
    BY <1>1 DEF Configure, VgOverlayStop, VgOverlayStopReturns
  <2>3. \A kind, h : /\ Field(kind)' = Field(kind)
                     /\ HeldByAttach(kind, h)' <=> HeldByAttach(kind, h)
                     /\ Exists(kind, h)' <=> Exists(kind, h)
    BY <2>1 DEF Field, HeldByAttach, Exists
  <2>4. Kept'
    BY <2>1, <2>3, KeptFrame
  <2>5. PortsOfRelays' /\ Planes'
    BY <2>1, <2>3 DEF PortsOfRelays, Planes
  <2>6. SocketIsServed'
    BY <2>1, <2>2 DEF SocketIsServed
  <2>7. Lists'
    BY <2>1, <2>2, ListsFrame
  <2> QED BY <2>4, <2>5, <2>6, <2>7
<1>2. CASE Serve
  <2>1. /\ svc' = [svc EXCEPT !.sock = launched] /\ open' = open \cup {<<"sock", launched>>}
        /\ handoff' = [handoff EXCEPT ![launched] = "listening"]
        /\ teardown' = teardown /\ app = "configured" /\ app' = "up"
    BY <1>2 DEF Serve
  <2>2. launched \in Games /\ handoff[launched] = "none"
    BY <2>1 DEF TunInv, Launching, ServedFirst
  <2>3. /\ svc'.link = svc.link /\ svc'.gw = svc.gw /\ svc'.relay = svc.relay
        /\ svc'.sock = launched /\ svc'.running = svc.running
    BY <2>1 DEF TunInv, TunTypes
  <2>4. svc.sock = None
    BY <2>1 DEF SocketIsServed
  <2>5. ASSUME NEW h \in Games, NEW kind \in Kinds, Exists(kind, h)'
        PROVE  \/ Field(kind)' = h \/ HeldByAttach(kind, h)'
               \/ Exists(kind, h) /\ Field(kind) # h /\ ~HeldByAttach(kind, h)
    <3>1. HeldByAttach(kind, h) => HeldByAttach(kind, h)'
      BY <2>1, <2>2 DEF HeldByAttach, TunInv, TunTypes
    <3>2. CASE kind = "sock"
      <4>1. h = launched \/ Exists(kind, h)
        BY <2>1, <2>5 DEF Exists
      <4>2. Field(kind) = None /\ Field(kind)' = launched
        BY <2>3, <2>4, <3>2 DEF Field
      <4> QED BY <3>1, <4>1, <4>2, ThingsAreDistinct
    <3>3. CASE kind # "sock"
      <4>1. Exists(kind, h) /\ Field(kind)' = Field(kind)
        BY <2>1, <2>3, <2>5, <3>3 DEF Exists, Field
      <4> QED BY <3>1, <4>1
    <3> QED BY <3>2, <3>3
  <2>6. Kept'
    BY <2>1, <2>5, KeptFrame
  <2>7. PortsOfRelays'
    BY <2>1 DEF PortsOfRelays, Exists
  <2>8. Planes' /\ SocketIsServed'
    BY <2>1, <2>3 DEF Planes, SocketIsServed
  <2>9. Lists'
    BY <2>1, <2>2, ListsFrame DEF TunInv, TunTypes
  <2> QED BY <2>6, <2>7, <2>8, <2>9
<1>3. CASE Detach
  <2>1. /\ app = "stopping" /\ app' = "closing" /\ Snapshot(App)
        /\ UNCHANGED <<open, handoff>>
    BY <1>3 DEF Detach
  <2>2. App \in Detachers /\ teardown[App] = <<>>
    BY <2>1, ThingsAreDistinct DEF Lists
  <2>3. \A h \in Games : HeldByAttach("link", h) => HeldByAttach("link", h)'
    BY <2>1 DEF HeldByAttach
  <2> QED BY <2>1, <2>2, <2>3, SnapshotKeeps
<1> QED BY <1>1, <1>2, <1>3

LEMMA StepKeeps ==
  ASSUME TunInv, KeepInv, [TunNext]_tunVars, [NoneOverrun]_tunVars
  PROVE  KeepInv'
<1>1. CASE (\E want \in Wants \cup {{}} : Configure(want)) \/ Serve \/ VgOverlayStop
           \/ Detach \/ VgOverlayStopReturns
  BY <1>1, AppKeeps
<1>2. ASSUME NEW g \in Games, Handing(g) PROVE KeepInv'
  <2>1. AttachAfter(g) => svc.link = None
    <3>1. CASE UNCHANGED tunVars
      <4>1. AttachAfter(g) => handoff'[g] = "gw" /\ handoff[g] = "closing"
        BY DEF AttachAfter, Install, To, TunInv, TunTypes
      <4>2. handoff' = handoff
        BY <3>1 DEF tunVars, session
      <4> QED BY <4>1, <4>2
    <3>2. CASE NoneOverrun
      BY <3>2 DEF NoneOverrun
    <3> QED BY <3>1, <3>2
  <2> QED BY <1>2, <2>1, HandingKeeps
<1>3. ASSUME NEW g \in Games, Pumping(g) PROVE KeepInv'
  BY <1>3, PumpingKeeps
<1>4. ASSUME NEW d \in Detachers, CloseNext(d) PROVE KeepInv'
  BY <1>4, CloseKeeps
<1>5. CASE (\E g \in Games : GameEnds(g)) \/ Receiving \/ Restart \/ FriendTurns
           \/ UNCHANGED tunVars
  <2>1. UNCHANGED <<svc, open, handoff, teardown, app>>
    BY <1>5 DEF GameEnds, Receiving, FrameArrives, FrameWritten, Restart, FriendTurns,
                tunVars, session
  <2>2. \A x : Closing(x)' <=> Closing(x)
    BY <2>1 DEF Closing
  <2> QED BY <2>1, <2>2 DEF KeepInv, Kept, PortsOfRelays, Planes, SocketIsServed, Lists, Field,
                      HeldByAttach, Exists
<1> QED BY <1>1, <1>2, <1>3, <1>4, <1>5 DEF TunNext, Detachers

LEMMA InitKeeps == TunInit => KeepInv
<1> SUFFICES ASSUME TunInit PROVE KeepInv
  OBVIOUS
<1>1. Kept /\ PortsOfRelays
  BY DEF TunInit, Kept, PortsOfRelays, Exists
<1>2. Planes /\ SocketIsServed
  BY DEF TunInit, Planes, SocketIsServed
<1>3. Lists
  <2>1. <<>> \in Seq(Things)
    OBVIOUS
  <2>2. teardown = [d \in Detachers |-> <<>>]
    BY DEF TunInit, Detachers
  <2> QED BY <2>1, <2>2, ThingsAreDistinct DEF Lists, Detachers
<1> QED BY <1>1, <1>2, <1>3 DEF KeepInv

\* What is kept is, with every call returned, what the fields name.
LEMMA KeptIsNamed == KeepInv => NothingLeaks
<1> SUFFICES ASSUME KeepInv, Settled PROVE NothingLeaks
  BY DEF NothingLeaks
<1>1. \A d \in Detachers : teardown[d] = <<>>
  BY DEF Settled, Detachers
<1>2. \A x : ~Closing(x)
  <2>1. ~\E i \in 1 .. Len(<<>>) : TRUE
    OBVIOUS
  <2> QED BY <1>1, <2>1 DEF Closing, In
<1>3. \A kind, g : g \in Games => ~HeldByAttach(kind, g)
  BY DEF Settled, Attaching, HeldByAttach
<1>4. \A g \in Games, kind \in Kinds : Exists(kind, g) => Field(kind) = g
  BY <1>2, <1>3 DEF KeepInv, Kept
<1>5. \A g \in Games :
        /\ Exists("link", g) \/ Exists("ctx", g) => svc.link = g
        /\ Exists("gw", g) => svc.gw = g
        /\ Exists("relay", g) \/ Exists("port", g) => svc.relay = g
        /\ Exists("sock", g) => svc.sock = g
  BY <1>4 DEF Kinds, Field, KeepInv, PortsOfRelays
<1> QED BY <1>5 DEF NothingLeaks, All

\* However many games are launched, whatever meets a detach, nothing is left
\* behind that no detach will close, unless an attach whose own detach is done
\* installs its session over another's: that step, which attach takes without a
\* look at what came meanwhile, is the one leak of the datapath (attach, detach
\* and readLoop, overlay.go:253-343).
THEOREM OnlyAnOverrunLeaks == TunSpec /\ [][NoneOverrun]_tunVars => []NothingLeaks
<1>1. TunInit => TunInv /\ KeepInv
  BY InitInv, InitKeeps
<1>2. TunInv /\ KeepInv /\ [TunNext]_tunVars /\ [NoneOverrun]_tunVars => (TunInv /\ KeepInv)'
  BY StepInv, StepKeeps
<1> QED BY <1>1, <1>2, KeptIsNamed, PTL DEF TunSpec

\* Over two launches that step cannot come: an attach that has found a session to
\* tear down has met the other launch, whose own attach is behind it for good.
Installed(g) == handoff[g] \in {"gw", "relay", "pump"} \/ pump[g].at # "none"

HasMetAnother ==
  /\ \A g \in Games : svc.link = g => Installed(g)
  /\ \A g \in Games : handoff[g] \in {"detach", "closing"} => \E h \in Games : h # g /\ Installed(h)
  /\ \A g \in Games : handoff[g] = "closing" => svc.link = None

LEMMA InitMeets == TunInit => HasMetAnother
BY ThingsAreDistinct DEF TunInit, HasMetAnother

\* Who has installed a session has done so for good.
LEMMA InstalledStays ==
  ASSUME TunInv, [TunNext]_tunVars, NEW h \in Games, Installed(h)
  PROVE  Installed(h)'
<1>1. pump[h].at # "none" => handoff[h] = "done"
  BY DEF TunInv, PumpIsLast
<1>2. ASSUME NEW g \in Games, Handing(g) PROVE Installed(h)'
  <2>1. CASE h # g
    <3>1. pump'[h] = pump[h] /\ handoff'[h] = handoff[h]
      BY <1>2, <2>1 DEF Handing, HandOver, HandOverFails, AttachGate, AttachDetaches, AttachAfter,
         AttachGateway, AttachRelay, AttachPump, Install, To, TunInv, TunTypes
    <3> QED BY <3>1 DEF Installed
  <2>2. CASE h = g /\ AttachGateway(g)
    BY <2>2 DEF AttachGateway, To, Installed, TunInv, TunTypes
  <2>3. CASE h = g /\ AttachRelay(g)
    BY <2>3 DEF AttachRelay, To, Installed, TunInv, TunTypes
  <2>4. CASE h = g /\ AttachPump(g)
    BY <2>4 DEF AttachPump, To, Installed, TunInv, TunTypes
  <2>5. CASE h = g /\ ~(AttachGateway(g) \/ AttachRelay(g) \/ AttachPump(g))
    BY <1>1, <1>2, <2>5 DEF Handing, HandOver, HandOverFails, AttachGate, AttachDetaches,
       AttachAfter, Installed
  <2> QED BY <2>1, <2>2, <2>3, <2>4, <2>5
<1>3. ASSUME NEW g \in Games, Pumping(g) PROVE Installed(h)'
  <2>1. handoff' = handoff /\ (pump[h].at # "none" => pump'[h].at # "none")
    BY <1>3 DEF Pumping, PumpReads, PumpReflects, PumpFails, PumpExits, session, TunInv, TunTypes
  <2> QED BY <2>1 DEF Installed
<1>4. CASE Serve
  <2>1. launched \in Games /\ handoff[launched] = "none" /\ pump' = pump
        /\ handoff' = [handoff EXCEPT ![launched] = "listening"]
    BY <1>4 DEF Serve, TunInv, Launching, ServedFirst
  <2> QED BY <2>1 DEF Installed, TunInv, TunTypes
<1>5. CASE (\E want \in Wants \cup {{}} : Configure(want)) \/ VgOverlayStop \/ Detach
           \/ VgOverlayStopReturns \/ (\E d \in Games \cup {App} : CloseNext(d))
           \/ (\E g \in Games : GameEnds(g)) \/ Receiving \/ Restart \/ FriendTurns
           \/ UNCHANGED tunVars
  <2>1. UNCHANGED <<handoff, pump>>
    BY <1>5 DEF Configure, VgOverlayStop, Detach, VgOverlayStopReturns, CloseNext, GameEnds,
       Receiving, FrameArrives, FrameWritten, Restart, FriendTurns, tunVars, session
  <2> QED BY <2>1 DEF Installed
<1> QED BY <1>2, <1>3, <1>4, <1>5 DEF TunNext

\* Steps that leave the handoffs and the link, or take it away.
LEMMA MeetsFrame ==
  ASSUME TunInv, HasMetAnother, [TunNext]_tunVars, svc'.link \in {svc.link, None},
         \A g \in Games : handoff'[g] \in {"detach", "closing"} =>
                            handoff[g] \in {"detach", "closing"},
         \A g \in Games : handoff'[g] = "closing" => handoff[g] = "closing" \/ svc'.link = None
  PROVE  HasMetAnother'
<1>1. \A g \in Games : Installed(g) => Installed(g)'
  BY InstalledStays
<1>2. \A g \in Games : svc'.link = g => svc.link = g
  BY ThingsAreDistinct
<1> QED BY <1>1, <1>2 DEF HasMetAnother

\* The attach of one of two launches that installs its session finds none, and the
\* other's attach is neither before a detach of its own nor in it.
LEMMA InstallMeets ==
  ASSUME TunInv, HasMetAnother, [TunNext]_tunVars, Launches <= 2, NEW g \in Games,
         handoff[g] \in {"gate", "closing"}, Install(g)
  PROVE  HasMetAnother'
<1>1. handoff' = [handoff EXCEPT ![g] = "gw"] /\ svc'.link = g
  BY DEF Install, To, TunInv, TunTypes
<1>2. handoff'[g] = "gw" /\ \A h \in Games : h # g => handoff'[h] = handoff[h]
  BY <1>1 DEF TunInv, TunTypes
<1>3. \A h \in Games : Installed(h) => Installed(h)'
  BY InstalledStays
<1>4. Installed(g)' /\ ~Installed(g)
  BY <1>2 DEF Installed, TunInv, PumpIsLast
<1>5. \A h, k \in Games : h # g /\ k # g => h = k
  BY TunAssumption DEF Games
<1>6. ASSUME NEW h \in Games, handoff'[h] \in {"detach", "closing"} PROVE FALSE
  <2>1. h # g /\ handoff[h] \in {"detach", "closing"}
    BY <1>2, <1>6
  <2>2. PICK k \in Games : k # h /\ Installed(k)
    BY <2>1 DEF HasMetAnother
  <2> QED BY <1>4, <1>5, <2>1, <2>2
<1> QED BY <1>1, <1>4, <1>6 DEF HasMetAnother

LEMMA StepMeets ==
  ASSUME TunInv, KeepInv, HasMetAnother, [TunNext]_tunVars, Launches <= 2
  PROVE  HasMetAnother'
<1>1. ASSUME NEW g \in Games, Handing(g) PROVE HasMetAnother'
  <2>1. CASE AttachGate(g) /\ Leftover
    <3>1. /\ handoff[g] = "gate" /\ handoff' = [handoff EXCEPT ![g] = "detach"]
          /\ svc' = svc /\ pump' = pump
      BY <2>1 DEF AttachGate, To
    <3>2. handoff'[g] = "detach" /\ \A h \in Games : h # g => handoff'[h] = handoff[h]
      BY <3>1 DEF TunInv, TunTypes
    <3>3. svc.link # None /\ svc.link \in Games
      BY <2>1 DEF Leftover, KeepInv, Planes, TunInv, TunTypes, OrNone
    <3>4. PICK h \in Games : svc.link = h /\ Installed(h)
      BY <3>3 DEF HasMetAnother
    <3>5. h # g
      BY <3>1, <3>4 DEF Installed, TunInv, PumpIsLast
    <3>6. \A k \in Games : Installed(k) => Installed(k)'
      BY InstalledStays
    <3> QED BY <3>1, <3>2, <3>4, <3>5, <3>6 DEF HasMetAnother
  <2>2. CASE AttachGate(g) /\ ~Leftover
    BY <2>2, InstallMeets DEF AttachGate
  <2>3. CASE AttachAfter(g)
    BY <2>3, InstallMeets DEF AttachAfter
  <2>4. CASE AttachDetaches(g)
    <3>1. /\ handoff[g] = "detach" /\ handoff' = [handoff EXCEPT ![g] = "closing"]
          /\ svc'.link = None
      BY <2>4 DEF AttachDetaches, To, Snapshot, TunInv, TunTypes
    <3>2. \A h \in Games : handoff'[h] \in {"detach", "closing"} =>
                             handoff[h] \in {"detach", "closing"}
      BY <3>1 DEF TunInv, TunTypes
    <3> QED BY <3>1, <3>2, MeetsFrame
  <2>5. CASE HandOver(g) \/ HandOverFails(g) \/ AttachGateway(g) \/ AttachRelay(g) \/ AttachPump(g)
    <3>1. PICK s \in {"gate", "done", "relay", "pump"} : handoff' = [handoff EXCEPT ![g] = s]
      BY <2>5 DEF HandOver, HandOverFails, AttachGateway, AttachRelay, AttachPump, To
    <3>2. svc'.link = svc.link
      BY <2>5 DEF HandOver, HandOverFails, AttachGateway, AttachRelay, AttachPump, MakePlane,
         TunInv, TunTypes
    <3>3. \A h \in Games : handoff'[h] \in {"detach", "closing"} => handoff'[h] = handoff[h]
      BY <3>1 DEF TunInv, TunTypes
    <3> QED BY <3>2, <3>3, MeetsFrame
  <2> QED BY <1>1, <2>1, <2>2, <2>3, <2>4, <2>5 DEF Handing
<1>2. ASSUME NEW g \in Games, Pumping(g) PROVE HasMetAnother'
  <2>1. handoff' = handoff /\ svc'.link = svc.link
    BY <1>2 DEF Pumping, PumpReads, PumpReflects, PumpFails, PumpExits, ClearRunning, session,
       TunInv, TunTypes
  <2> QED BY <2>1, MeetsFrame
<1>3. CASE Serve
  <2>1. launched \in Games /\ svc'.link = svc.link
        /\ handoff' = [handoff EXCEPT ![launched] = "listening"]
    BY <1>3 DEF Serve, TunInv, TunTypes, Launching
  <2>2. \A h \in Games : handoff'[h] \in {"detach", "closing"} => handoff'[h] = handoff[h]
    BY <2>1 DEF TunInv, TunTypes
  <2> QED BY <2>1, <2>2, MeetsFrame
<1>4. CASE (\E want \in Wants \cup {{}} : Configure(want)) \/ VgOverlayStop \/ Detach
           \/ VgOverlayStopReturns \/ (\E d \in Games \cup {App} : CloseNext(d))
           \/ (\E g \in Games : GameEnds(g)) \/ Receiving \/ Restart \/ FriendTurns
           \/ UNCHANGED tunVars
  <2>1. handoff' = handoff /\ svc'.link \in {svc.link, None}
    BY <1>4 DEF Configure, VgOverlayStop, Detach, Snapshot, VgOverlayStopReturns, CloseNext,
       GameEnds, Receiving, FrameArrives, FrameWritten, Restart, FriendTurns, tunVars, session,
       TunInv, TunTypes
  <2> QED BY <2>1, MeetsFrame
<1> QED BY <1>1, <1>2, <1>3, <1>4 DEF TunNext

\* Over two launches, of any wants, nothing leaks whatever the order of the
\* sections: what the run of two launches checks (attach and detach, overlay.go).
THEOREM TwoLaunchesLeakNothing ==
  ASSUME Launches <= 2
  PROVE  TunSpec => []NothingLeaks
<1>1. TunInit => TunInv /\ KeepInv /\ HasMetAnother
  BY InitInv, InitKeeps, InitMeets
<1>2. HasMetAnother => [NoneOverrun]_tunVars
  BY DEF HasMetAnother, NoneOverrun, AttachAfter
<1>3. TunInv /\ KeepInv /\ HasMetAnother /\ [TunNext]_tunVars
        => (TunInv /\ KeepInv /\ HasMetAnother)'
  BY <1>2, StepInv, StepKeeps, StepMeets
<1> QED BY <1>1, <1>3, KeptIsNamed, PTL DEF TunSpec

\* The types that TunInv leaves out.
TunOthers ==
  /\ setting \in Settings
  /\ open \subseteq {"sock", "ctx", "link", "gw", "relay", "port"} \X Games
  /\ app \in {"idle", "configured", "up", "stopping", "closing"}
  /\ launched \in 0 .. Launches /\ alive \subseteq Games
  /\ wish \in [Games -> Wants \cup {{}}]

TunFlags == contact \in BOOLEAN /\ route \in BOOLEAN

TunReceiver == rx \in [up : BOOLEAN, link : OrNone]

LEMMA StepOthers == ASSUME TunInv, TunOthers, [TunNext]_tunVars PROVE TunOthers'
<1> USE DEF TunOthers
<1>1. launched \in Nat /\ svc.want \in Wants \cup {{}}
  BY DEF TunInv, TunTypes
<1>2. ASSUME NEW g \in Games, Handing(g) PROVE TunOthers'
  <2>1. UNCHANGED <<setting, app, launched, alive>>
    BY <1>2 DEF Handing, HandOver, HandOverFails, AttachGate, AttachDetaches, AttachAfter,
       AttachGateway, AttachRelay, AttachPump, social
  <2>2. open' \subseteq open \cup ({"link", "ctx", "gw", "relay"} \X {g})
    BY <1>2 DEF Handing, HandOver, HandOverFails, AttachGate, AttachDetaches, AttachAfter,
       AttachGateway, AttachRelay, AttachPump, Install, MakePlane
  <2>3. wish' = wish \/ wish' = [wish EXCEPT ![g] = svc.want]
    BY <1>2 DEF Handing, HandOver, HandOverFails, AttachGate, AttachDetaches, AttachAfter,
       AttachGateway, AttachRelay, AttachPump, Install
  <2>4. wish' \in [Games -> Wants \cup {{}}]
    BY <1>1, <2>3
  <2> QED BY <2>1, <2>2, <2>4
<1>3. ASSUME NEW g \in Games, Pumping(g) PROVE TunOthers'
  <2>1. UNCHANGED <<setting, app, launched, alive, wish>>
    BY <1>3 DEF Pumping, PumpReads, PumpReflects, PumpFails, PumpExits, session, social
  <2>2. open' = open \/ open' = ensure(pump[g].relay)
    BY <1>3 DEF Pumping, PumpReads, PumpReflects, PumpFails, PumpExits, session
  <2>3. \A r : Exists("relay", r) => r \in Games
    BY DEF Exists
  <2>4. open' \subseteq {"sock", "ctx", "link", "gw", "relay", "port"} \X Games
    BY <2>2, <2>3 DEF ensure
  <2> QED BY <2>1, <2>4
<1>4. CASE (\E want \in Wants \cup {{}} : Configure(want)) \/ VgOverlayStop \/ Detach
           \/ VgOverlayStopReturns
  BY <1>1, <1>4, TunAssumption DEF Configure, VgOverlayStop, Detach, VgOverlayStopReturns, session, social
<1>5. CASE Serve
  <2>1. launched \in Games /\ UNCHANGED <<setting, launched, wish>> /\ app' = "up"
        /\ alive' = alive \cup {launched} /\ open' = open \cup {<<"sock", launched>>}
    BY <1>5 DEF Serve, social, TunInv, Launching
  <2>2. open' \subseteq {"sock", "ctx", "link", "gw", "relay", "port"} \X Games
    <3>1. <<"sock", launched>> \in {"sock", "ctx", "link", "gw", "relay", "port"} \X Games
      BY <2>1
    <3> QED BY <2>1, <3>1
  <2>3. alive' \subseteq Games /\ app' \in {"idle", "configured", "up", "stopping", "closing"}
    BY <2>1
  <2> QED BY <2>1, <2>2, <2>3
<1>6. CASE (\E d \in Games \cup {App} : CloseNext(d)) \/ (\E g \in Games : GameEnds(g))
           \/ Receiving \/ Restart \/ FriendTurns \/ UNCHANGED tunVars
  <2>1. /\ UNCHANGED <<setting, app, launched, wish>> /\ alive' \subseteq alive
        /\ open' \subseteq open
    BY <1>6 DEF CloseNext, Close, GameEnds, Receiving, FrameArrives, FrameWritten, Restart,
       FriendTurns, tunVars, session, social
  <2> QED BY <2>1
<1> QED BY <1>2, <1>3, <1>4, <1>5, <1>6 DEF TunNext

LEMMA StepReceiver == ASSUME TunInv, TunReceiver, [TunNext]_tunVars PROVE TunReceiver'
<1>1. svc.link \in OrNone /\ None \in OrNone
  BY DEF TunInv, TunTypes, OrNone
<1>2. CASE FrameArrives
  BY <1>1, <1>2 DEF FrameArrives, TunReceiver
<1>3. CASE FrameWritten
  <2>1. rx' = [up |-> Readable(rx.link), link |-> None] /\ Readable(rx.link) \in BOOLEAN
    BY <1>3 DEF FrameWritten, Readable, Exists
  <2> QED BY <1>1, <2>1 DEF TunReceiver
<1>4. CASE Restart
  BY <1>4 DEF Restart, TunReceiver
<1>5. CASE rx' = rx
  BY <1>5 DEF TunReceiver
<1>6. ASSUME NEW g \in Games, GameEnds(g) \/ Handing(g) \/ Pumping(g) PROVE rx' = rx
  BY <1>6 DEF GameEnds, Handing, HandOver, HandOverFails, AttachGate, AttachDetaches,
     AttachAfter, AttachGateway, AttachRelay, AttachPump, Pumping, PumpReads, PumpReflects,
     PumpFails, PumpExits
<1>7. CASE (\E want \in Wants \cup {{}} : Configure(want)) \/ Serve \/ VgOverlayStop \/ Detach
           \/ VgOverlayStopReturns \/ (\E d \in Games \cup {App} : CloseNext(d)) \/ FriendTurns
           \/ UNCHANGED tunVars
  BY <1>5, <1>7 DEF Configure, Serve, VgOverlayStop, Detach, VgOverlayStopReturns, CloseNext,
     FriendTurns, tunVars
<1> QED BY <1>2, <1>3, <1>4, <1>5, <1>6, <1>7 DEF TunNext, Receiving

LEMMA StepFlags == ASSUME TunFlags, [TunNext]_tunVars PROVE TunFlags'
<1>1. ASSUME NEW g \in Games, GameEnds(g) \/ Handing(g) \/ Pumping(g) PROVE TunFlags'
  BY <1>1, Zenon DEF GameEnds, Handing, HandOver, HandOverFails, AttachGate, AttachDetaches,
     AttachAfter, AttachGateway, AttachRelay, AttachPump, Pumping, PumpReads, PumpReflects,
     PumpFails, PumpExits, social, TunFlags
<1>2. CASE (\E want \in Wants \cup {{}} : Configure(want)) \/ Serve \/ VgOverlayStop \/ Detach
           \/ VgOverlayStopReturns \/ (\E d \in Games \cup {App} : CloseNext(d))
  BY <1>2, Zenon DEF Configure, Serve, VgOverlayStop, Detach, VgOverlayStopReturns, CloseNext,
     social, TunFlags
<1>3. CASE FriendTurns \/ Receiving \/ Restart \/ UNCHANGED tunVars
  BY <1>3, Zenon DEF FriendTurns, Receiving, FrameArrives, FrameWritten, Restart, tunVars,
     social, TunFlags
<1> QED BY <1>1, <1>2, <1>3 DEF TunNext

\* The types hold for any launches, wants and settings.
THEOREM TunTypesHold == TunSpec => []TunTypeOK
<1>1. TunInit => TunInv /\ TunOthers /\ TunReceiver /\ TunFlags
  <2>1. TunInit => TunOthers
    BY TunAssumption DEF TunInit, TunOthers
  <2>2. TunInit => TunReceiver
    BY DEF TunInit, TunReceiver, OrNone
  <2>3. TunInit => TunFlags
    BY DEF TunInit, TunFlags
  <2> QED BY <2>1, <2>2, <2>3, InitInv
<1>2. TunInv /\ TunOthers /\ TunReceiver /\ TunFlags /\ [TunNext]_tunVars
        => (TunInv /\ TunOthers /\ TunReceiver /\ TunFlags)'
  BY StepInv, StepOthers, StepReceiver, StepFlags
<1>3. TunInv /\ TunOthers /\ TunReceiver /\ TunFlags => TunTypeOK
  BY DEF TunInv, TunTypes, TunOthers, TunReceiver, TunFlags, TunTypeOK, OrNone, Stages
<1> QED BY <1>1, <1>2, <1>3, PTL DEF TunSpec
==============================================================================
