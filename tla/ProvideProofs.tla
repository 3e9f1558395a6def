---------------------------- MODULE ProvideProofs ----------------------------
(***************************************************************************)
(* The provide hand-over, for any keys, any callers and any worlds.        *)
(*                                                                         *)
(* What is dropped as a leftover was filed by an earlier run and handed    *)
(* over by none of this one.  It is not held, since a list was complete,   *)
(* and everything the node knows of a key, on the disk, in memory or in    *)
(* the hands of a goroutine, it knows of keys that are held.               *)
(***************************************************************************)
EXTENDS Provide, TLAPS

USE DEF Nothing

Locals == [keys : SUBSET Keys, force : BOOLEAN, fresh : SUBSET Keys,
           forced : SUBSET Keys, track : SUBSET Keys, at : Time,
           then : {"idle", "done", "seeded", "drop"}, closed : BOOLEAN]

-----------------------------------------------------------------------------
(* Types.                                                                  *)

\* What the calls begin and end with.
LEMMA IdleIs ==
  ASSUME NEW p
  PROVE  /\ Idle \in Locals /\ [Idle EXCEPT !.then = Rest(p)] \in Locals
         /\ \A ks \in SUBSET Keys, next \in {"idle", "done", "seeded", "drop"}, f \in BOOLEAN :
              /\ [Idle EXCEPT !.keys = ks, !.then = next] \in Locals
              /\ [Idle EXCEPT !.keys = ks, !.force = f, !.then = next] \in Locals
              /\ [Idle EXCEPT !.keys = ks] \in Locals
BY DEF Idle, Locals, Rest, Time

LEMMA LocalsAre ==
  ASSUME NEW l \in Locals
  PROVE  /\ l.keys \subseteq Keys /\ l.fresh \subseteq Keys /\ l.forced \subseteq Keys
         /\ l.track \subseteq Keys /\ l.at \in Time /\ l.force \in BOOLEAN /\ l.closed \in BOOLEAN
         /\ l.then \in {"idle", "done", "seeded", "drop"}
BY DEF Locals

\* Where the goroutines are, and with what.
Places == pc \in [Procs -> Labels] /\ loc \in [Procs -> Locals]

LEMMA BecomePlaces ==
  ASSUME Places, NEW p \in Procs, NEW label \in Labels, NEW l \in Locals, Become(p, label, l)
  PROVE  Places'
BY DEF Places, Become, Go

LEMMA GoPlaces ==
  ASSUME Places, NEW p \in Procs, NEW label \in Labels, Go(p, label), loc' = loc
  PROVE  Places'
BY DEF Places, Go

LEMMA ReturnPlaces == ASSUME Places, NEW p \in Procs, Return(p) PROVE Places'
<1>1. loc[p].then \in Labels
  BY LocalsAre DEF Places, Labels
<1>2. [Idle EXCEPT !.then = Rest(p)] \in Locals
  BY IdleIs
<1> QED BY <1>1, <1>2, BecomePlaces DEF Return

LEMMA FlushPlaces ==
  ASSUME Places, NEW p \in Procs, FlushStep(p), pending \in [Keys -> {"none", "fresh", "force"}]
  PROVE  Places'
<1>0. /\ loc[p] \in Locals /\ loc[p].fresh \subseteq Keys /\ loc[p].forced \subseteq Keys
      /\ loc[p].track \subseteq Keys
      /\ {"flush", "ready", "mark", "file", "force", "record", "unmark"} \subseteq Labels
  BY LocalsAre DEF Places, Labels
<1>1. CASE offerProvides(p)
  <2>1. [loc[p] EXCEPT !.keys = {}, !.force = FALSE] \in Locals
    BY <1>0 DEF Locals
  <2> QED BY <1>0, <1>1, <2>1, BecomePlaces DEF offerProvides
<1>2. CASE Flush(p)
  <2>1. \A fr, fo \in SUBSET Keys : [loc[p] EXCEPT !.fresh = fr, !.forced = fo] \in Locals
    BY <1>0 DEF Locals
  <2> QED BY <1>0, <1>2, <2>1, BecomePlaces, ReturnPlaces DEF Flush
<1>3. CASE providerReady(p)
  BY <1>0, <1>3, GoPlaces, ReturnPlaces DEF providerReady
<1>4. CASE Mark(p)
  <2>1. \A tr \in SUBSET Keys : [loc[p] EXCEPT !.track = tr] \in Locals
    BY <1>0 DEF Locals
  <2> QED BY <1>0, <1>4, <2>1, BecomePlaces DEF Mark
<1>5. CASE File(p)
  BY <1>0, <1>5, GoPlaces, ReturnPlaces DEF File
<1>6. CASE FileForced(p)
  BY <1>0, <1>6, GoPlaces, ReturnPlaces DEF FileForced
<1>7. CASE Record(p)
  <2>1. \A tr \in SUBSET Keys : [loc[p] EXCEPT !.track = tr] \in Locals
    BY <1>0 DEF Locals
  <2> QED BY <1>0, <1>7, <2>1, BecomePlaces, ReturnPlaces DEF Record
<1>8. CASE Unmark(p)
  BY <1>8, ReturnPlaces DEF Unmark
<1> QED BY <1>1, <1>2, <1>3, <1>4, <1>5, <1>6, <1>7, <1>8 DEF FlushStep

LEMMA DropPlaces ==
  ASSUME Places, NEW p \in Procs, DropStep(p), leftover \subseteq Keys
  PROVE  Places'
<1>0. /\ loc[p] \in Locals /\ loc[p].keys \subseteq Keys
      /\ {"drop", "dropRefile", "dropAnnounced", "dropFile", "dropAgain", "offer"} \subseteq Labels
      /\ Rest(p) \in {"idle", "done", "seeded", "drop"}
  BY LocalsAre DEF Places, Labels, Rest
<1>1. CASE dropLeftovers(p)
  <2>1. [Idle EXCEPT !.keys = leftover \ handed, !.then = Rest(p)] \in Locals
    BY <1>0, IdleIs
  <2> QED BY <1>0, <1>1, <2>1, BecomePlaces, ReturnPlaces DEF dropLeftovers
<1>2. CASE DropRefile(p)
  BY <1>0, <1>2, GoPlaces DEF DropRefile
<1>3. CASE DropAnnounced(p)
  BY <1>0, <1>3, GoPlaces DEF DropAnnounced
<1>4. CASE DropFile(p)
  BY <1>0, <1>4, GoPlaces DEF DropFile
<1>5. CASE DropAgain(p)
  <2>1. [Idle EXCEPT !.keys = loc[p].keys \cap handed, !.force = TRUE, !.then = Rest(p)] \in Locals
    BY <1>0, IdleIs
  <2> QED BY <1>0, <1>5, <2>1, BecomePlaces, ReturnPlaces DEF DropAgain
<1> QED BY <1>1, <1>2, <1>3, <1>4, <1>5 DEF DropStep

LEMMA HandOverPlaces ==
  ASSUME Places, NEW a \in Procs, NEW ks \in SUBSET Keys, NEW next \in {"idle", "seeded"},
         HandOver(a, ks, next)
  PROVE  Places'
<1>1. /\ Idle \in Locals /\ [Idle EXCEPT !.keys = ks, !.then = next] \in Locals
      /\ {"idle", "seeded", "offer"} \subseteq Labels
  BY IdleIs DEF Labels
<1> QED BY <1>1, BecomePlaces DEF HandOver

LEMMA RetryPlaces ==
  ASSUME Places, Tick \/ ReadStats \/ Settle \/ MarkAnnounced \/ ClearRefile
  PROVE  Places'
<1>0. /\ "retry" \in Procs /\ Idle \in Locals
      /\ {"stats", "settle", "settled", "confirmed", "flush"} \subseteq Labels
  BY IdleIs DEF Procs, Labels
<1>1. CASE Tick
  BY <1>0, <1>1, GoPlaces DEF Tick
<1>2. CASE ReadStats
  BY <1>0, <1>2, GoPlaces, BecomePlaces DEF ReadStats
<1>3. CASE Settle
  <2>1. \A ks \in SUBSET Keys : [Idle EXCEPT !.keys = ks] \in Locals
    BY IdleIs
  <2> QED BY <1>0, <1>3, <2>1, BecomePlaces DEF Settle
<1>4. CASE MarkAnnounced
  BY <1>0, <1>4, GoPlaces DEF MarkAnnounced
<1>5. CASE ClearRefile
  BY <1>0, <1>5, BecomePlaces DEF ClearRefile
<1> QED BY <1>1, <1>2, <1>3, <1>4, <1>5

LEMMA OpenPlaces ==
  ASSUME Places, refile \subseteq Keys, OpenProvider \/ List \/ UseProvider \/ restoreRefiles
  PROVE  Places'
<1>0. /\ "open" \in Procs
      /\ {"use", "list", "restore", "drop", "offer"} \subseteq Labels
  BY DEF Procs, Labels
<1>1. CASE OpenProvider
  BY <1>0, <1>1, GoPlaces DEF OpenProvider
<1>2. CASE List
  BY <1>0, <1>2, GoPlaces DEF List
<1>3. CASE UseProvider
  BY <1>0, <1>3, GoPlaces DEF UseProvider
<1>4. CASE restoreRefiles
  <2>1. [Idle EXCEPT !.then = "done"] \in Locals
    BY DEF Idle, Locals, Time
  <2>2. [Idle EXCEPT !.keys = refile, !.force = TRUE, !.then = "drop"] \in Locals
    BY IdleIs
  <2> QED BY <1>0, <1>4, <2>1, <2>2, BecomePlaces DEF restoreRefiles
<1> QED BY <1>1, <1>2, <1>3, <1>4

LEMMA AppPlaces ==
  ASSUME Places, NEW a \in Apps, held \subseteq Keys,
         \/ Seeded(a) \/ StopRefile(a) \/ StopAnnounced(a) \/ StopFile(a)
         \/ runSeedAnnounce(a)
         \/ \E ks \in SUBSET Keys : Start(a, ks)
         \/ \E k \in Keys : Stop(a, k)
  PROVE  Places'
<1>0. a \in Procs /\ {"drop", "stopRefile", "stopAnnounced", "stopFile"} \subseteq Labels
  BY DEF Procs, Labels
<1>1. CASE Seeded(a)
  BY <1>0, <1>1, GoPlaces DEF Seeded
<1>2. CASE StopRefile(a)
  BY <1>0, <1>2, GoPlaces DEF StopRefile
<1>3. CASE StopAnnounced(a)
  BY <1>0, <1>3, GoPlaces DEF StopAnnounced
<1>4. CASE StopFile(a)
  BY <1>0, <1>4, ReturnPlaces DEF StopFile
<1>5. CASE runSeedAnnounce(a)
  BY <1>0, <1>5, HandOverPlaces DEF runSeedAnnounce
<1>6. ASSUME NEW ks \in SUBSET Keys, Start(a, ks) PROVE Places'
  BY <1>0, <1>6, HandOverPlaces DEF Start
<1>7. ASSUME NEW k \in Keys, Stop(a, k) PROVE Places'
  <2>1. [Idle EXCEPT !.keys = {k}] \in Locals
    BY IdleIs
  <2> QED BY <1>0, <1>7, <2>1, BecomePlaces DEF Stop
<1> QED BY <1>1, <1>2, <1>3, <1>4, <1>5, <1>6, <1>7

\* A step of the world around the goroutines.
Around == \/ \E k \in Keys : Announce(k)
          \/ Connect \/ Disconnect \/ GoOffline \/ ReadingExpires

LEMMA AroundPlaces == ASSUME Places, Around \/ dropProvider \/ Crash PROVE Places'
<1>1. CASE Connect
  <2>1. \A p \in Procs : [loc[p] EXCEPT !.at = "lost"] \in Locals
    BY DEF Places, Locals, Time
  <2> QED BY <1>1, <2>1 DEF Connect, noteOnline, Places
<1>2. CASE dropProvider
  <2>1. \A p \in Procs : [loc[p] EXCEPT !.closed = TRUE] \in Locals
    BY DEF Places, Locals
  <2>2. "begin" \in Labels
    BY DEF Labels
  <2> QED BY <1>2, <2>1, <2>2 DEF dropProvider, Places
<1>3. CASE Crash
  <2>1. {"begin", "idle"} \subseteq Labels /\ \A p \in Procs : [Idle EXCEPT !.then = Rest(p)] \in Locals
    BY IdleIs DEF Labels
  <2> QED BY <1>3, <2>1 DEF Crash, Places
<1>4. CASE (\E k \in Keys : Announce(k)) \/ Disconnect \/ GoOffline \/ ReadingExpires
  BY <1>4 DEF Announce, Disconnect, GoOffline, ReadingExpires, Places
<1> QED BY <1>1, <1>2, <1>3, <1>4 DEF Around

\* What is kept of the keys, on the disk and in memory.
Records ==
  /\ world \in Worlds
  /\ held \subseteq Keys /\ refile \subseteq Keys /\ announced \subseteq Keys
  /\ keystore \subseteq Keys /\ queue \subseteq keystore /\ sent \subseteq keystore
  /\ conn \in {"online", "disconnected", "offline"}
  /\ pending \in [Keys -> {"none", "fresh", "force"}]
  /\ unconfirmed \in [Keys -> {"none"} \cup Time]
  /\ handed \subseteq Keys /\ leftover \subseteq Keys
  /\ provider \in BOOLEAN /\ listed \in BOOLEAN /\ seeded \in BOOLEAN
  /\ pruneWith \in BOOLEAN /\ wentOffline \in BOOLEAN /\ kept \in BOOLEAN
  /\ reading \in {"none", "ready", "not"}
  /\ snap \in [Keys -> {"none"} \cup Time]

LEMMA TypeParts == TypeOK <=> Records /\ Places
BY DEF TypeOK, Records, Places, Locals

LEMMA FlushRecords == ASSUME Records, Places, NEW p \in Procs, FlushStep(p) PROVE Records'
<1>0. /\ loc[p].keys \subseteq Keys /\ loc[p].fresh \subseteq Keys /\ loc[p].forced \subseteq Keys
      /\ loc[p].track \subseteq Keys /\ loc[p].at \in Time
  BY LocalsAre DEF Places
<1> USE DEF marks, external, leftovers, confirming
<1>1. CASE offerProvides(p)
  BY <1>0, <1>1 DEF offerProvides, Records
<1>2. CASE Flush(p)
  BY <1>0, <1>2 DEF Flush, Records
<1>3. CASE providerReady(p)
  BY <1>0, <1>3 DEF providerReady, Records
<1>4. CASE Mark(p)
  BY <1>0, <1>4 DEF Mark, Records
<1>5. CASE File(p)
  BY <1>0, <1>5 DEF File, StartProviding, Records
<1>6. CASE FileForced(p)
  BY <1>0, <1>6 DEF FileForced, StartProviding, Records
<1>7. CASE Record(p)
  BY <1>0, <1>7 DEF Record, With, Records
<1>8. CASE Unmark(p)
  BY <1>0, <1>8 DEF Unmark, Records
<1> QED BY <1>1, <1>2, <1>3, <1>4, <1>5, <1>6, <1>7, <1>8 DEF FlushStep

LEMMA DropRecords == ASSUME Records, Places, NEW p \in Procs, DropStep(p) PROVE Records'
<1> USE DEF marks, external, leftovers, confirming
<1>1. CASE dropLeftovers(p)
  BY <1>1 DEF dropLeftovers, With, Records
<1>2. CASE DropRefile(p)
  BY <1>2 DEF DropRefile, Records
<1>3. CASE DropAnnounced(p)
  BY <1>3 DEF DropAnnounced, Records
<1>4. CASE DropFile(p)
  BY <1>4 DEF DropFile, StopProviding, Records
<1>5. CASE DropAgain(p)
  BY <1>5 DEF DropAgain, Records
<1> QED BY <1>1, <1>2, <1>3, <1>4, <1>5 DEF DropStep

LEMMA RetryRecords ==
  ASSUME Records, Places, Tick \/ ReadStats \/ Settle \/ MarkAnnounced \/ ClearRefile
  PROVE  Records'
<1>0. loc["retry"].keys \subseteq Keys
  BY LocalsAre DEF Places, Procs
<1> USE DEF marks, external, leftovers, confirming
<1>1. CASE Tick
  BY <1>1 DEF Tick, Records
<1>2. CASE ReadStats
  BY <1>2 DEF ReadStats, Records
<1>3. CASE Settle
  BY <1>3 DEF Settle, With, Records
<1>4. CASE MarkAnnounced
  BY <1>0, <1>4 DEF MarkAnnounced, Records
<1>5. CASE ClearRefile
  BY <1>5 DEF ClearRefile, Records
<1> QED BY <1>1, <1>2, <1>3, <1>4, <1>5

LEMMA OpenRecords ==
  ASSUME Records, OpenProvider \/ List \/ UseProvider \/ restoreRefiles
  PROVE  Records'
<1> USE DEF marks, external, leftovers, confirming
<1>1. CASE OpenProvider
  BY <1>1 DEF OpenProvider, Records
<1>2. CASE List
  BY <1>2 DEF List, Records
<1>3. CASE UseProvider
  BY <1>3 DEF UseProvider, Records
<1>4. CASE restoreRefiles
  BY <1>4 DEF restoreRefiles, Records
<1> QED BY <1>1, <1>2, <1>3, <1>4

LEMMA AppRecords ==
  ASSUME Records, NEW a \in Apps,
         \/ Seeded(a) \/ StopRefile(a) \/ StopAnnounced(a) \/ StopFile(a)
         \/ runSeedAnnounce(a)
         \/ \E ks \in SUBSET Keys : Start(a, ks)
         \/ \E k \in Keys : Stop(a, k)
  PROVE  Records'
<1> USE DEF marks, external, leftovers, confirming
<1>1. CASE Seeded(a)
  BY <1>1 DEF Seeded, Records
<1>2. CASE StopFile(a)
  BY <1>2 DEF StopFile, StopProviding, Records
<1>6. CASE StopRefile(a)
  BY <1>6 DEF StopRefile, Records
<1>7. CASE StopAnnounced(a)
  BY <1>7 DEF StopAnnounced, Records
<1>3. CASE runSeedAnnounce(a)
  BY <1>3 DEF runSeedAnnounce, HandOver, Records
<1>4. ASSUME NEW ks \in SUBSET Keys, Start(a, ks) PROVE Records'
  BY <1>4 DEF Start, HandOver, Records
<1>5. ASSUME NEW k \in Keys, Stop(a, k) PROVE Records'
  BY <1>5 DEF Stop, Records
<1> QED BY <1>1, <1>2, <1>3, <1>4, <1>5, <1>6, <1>7

LEMMA AroundRecords == ASSUME Records, Around \/ dropProvider \/ Crash PROVE Records'
<1> USE DEF marks, external, leftovers, confirming
<1>1. CASE \E k \in Keys : Announce(k)
  BY <1>1 DEF Announce, Records
<1>2. CASE Connect
  BY <1>2 DEF Connect, noteOnline, Lost, Records, Time
<1>3. CASE Disconnect \/ GoOffline \/ ReadingExpires
  BY <1>3 DEF Disconnect, GoOffline, ReadingExpires, Records
<1>4. CASE dropProvider
  BY <1>4 DEF dropProvider, Records
<1>5. CASE Crash
  BY <1>5 DEF Crash, Records
<1> QED BY <1>1, <1>2, <1>3, <1>4, <1>5 DEF Around

\* The steps, by who takes them.
LEMMA NextIs ==
  ASSUME TypeOK, Next
  PROVE  \/ \E p \in Procs : FlushStep(p) \/ DropStep(p)
         \/ Tick \/ ReadStats \/ Settle \/ MarkAnnounced \/ ClearRefile
         \/ OpenProvider \/ List \/ UseProvider \/ restoreRefiles
         \/ \E a \in Apps :
              \/ Seeded(a) \/ StopRefile(a) \/ StopAnnounced(a) \/ StopFile(a)
              \/ runSeedAnnounce(a)
              \/ \E ks \in SUBSET Keys : Start(a, ks)
              \/ \E k \in Keys : Stop(a, k)
         \/ Around \/ dropProvider \/ Crash
<1>1. "retry" \in Procs /\ "open" \in Procs /\ Apps \subseteq Procs
  BY DEF Procs
<1>2. world.keys \subseteq Keys /\ world.callers \subseteq Apps
  BY ProvideAssumption DEF TypeOK
<1> QED BY <1>1, <1>2 DEF Next, RetryStep, OpenStep, AppStep, Around

LEMMA StepTypes == ASSUME TypeOK, [Next]_vars PROVE TypeOK'
<1> USE TypeParts
<1>1. CASE UNCHANGED vars
  BY <1>1 DEF vars, TypeOK, marks, external, leftovers, confirming
<1>2. ASSUME Next PROVE Records' /\ Places'
  <2>1. ASSUME NEW p \in Procs, FlushStep(p) \/ DropStep(p) PROVE Records' /\ Places'
    <3>1. pending \in [Keys -> {"none", "fresh", "force"}] /\ leftover \subseteq Keys
      BY DEF Records
    <3> QED BY <2>1, <3>1, FlushRecords, FlushPlaces, DropRecords, DropPlaces
  <2>2. CASE Tick \/ ReadStats \/ Settle \/ MarkAnnounced \/ ClearRefile
    BY <2>2, RetryRecords, RetryPlaces
  <2>3. CASE OpenProvider \/ List \/ UseProvider \/ restoreRefiles
    <3>1. refile \subseteq Keys
      BY DEF Records
    <3> QED BY <2>3, <3>1, OpenRecords, OpenPlaces
  <2>4. ASSUME NEW a \in Apps,
               \/ Seeded(a) \/ StopRefile(a) \/ StopAnnounced(a) \/ StopFile(a)
               \/ runSeedAnnounce(a)
               \/ \E ks \in SUBSET Keys : Start(a, ks)
               \/ \E k \in Keys : Stop(a, k)
        PROVE  Records' /\ Places'
    <3>1. held \subseteq Keys
      BY DEF Records
    <3> QED BY <2>4, <3>1, AppRecords, AppPlaces
  <2>5. CASE Around \/ dropProvider \/ Crash
    BY <2>5, AroundRecords, AroundPlaces
  <2> QED BY <1>2, <2>1, <2>2, <2>3, <2>4, <2>5, NextIs
<1>3. Records' /\ Places' => TypeOK'
  BY DEF TypeOK, Records, Places, Locals
<1> QED BY <1>1, <1>2, <1>3

LEMMA InitTypes == Init => TypeOK
<1> SUFFICES ASSUME Init PROVE Records /\ Places
  BY TypeParts
<1>1. {held, refile, announced, keystore, sent} \subseteq SUBSET Keys /\ sent \subseteq keystore
  BY DEF Init, EarlierRuns
<1>2. Records
  BY <1>1 DEF Init, Records
<1>3. {"begin", "idle"} \subseteq Labels /\ \A p \in Procs : [Idle EXCEPT !.then = Rest(p)] \in Locals
  BY IdleIs DEF Labels
<1>4. Places
  BY <1>3 DEF Init, Places
<1> QED BY <1>2, <1>4

\* The types of the model, for any keys, callers and worlds.
THEOREM Types == Spec => []TypeOK
<1> QED BY InitTypes, StepTypes, PTL DEF Spec

-----------------------------------------------------------------------------
(* What is stopped.                                                        *)

\* The keys that the app lets go of at no time.
Safe == Keys \ (world.stoppable \cup world.droppable)

\* Of these, the app holds whichever is in ks.
Sure(ks) == ks \cap Safe \subseteq held

Waiting == {k \in Keys : pending[k] # "none" \/ unconfirmed[k] # "none"}

Letting == {"stopRefile", "stopAnnounced", "stopFile", "dropRefile", "dropAnnounced", "dropFile"}

\* A goroutine has in hand what the app holds, lets go of none of it, and
\* takes the app's list for complete when it is.
Fits(p) ==
  /\ Sure(loc[p].keys) /\ Sure(loc[p].fresh) /\ Sure(loc[p].forced) /\ Sure(loc[p].track)
  /\ pc[p] \in Letting => loc[p].keys \cap Safe = {}
  /\ pc[p] = "seeded" \/ loc[p].then = "seeded" => held \subseteq handed

KnownHeld ==
  Sure(keystore) /\ Sure(refile) /\ Sure(handed) /\ Sure(leftover) /\ Sure(Waiting)

Complete == seeded => held \subseteq handed

HandsInv == KnownHeld /\ Complete /\ \A p \in Procs : Fits(p)

\* A goroutine's step leaves the others' part alone: what is held stays held,
\* and what was handed over in full stays so.
LEMMA HandsStep ==
  ASSUME HandsInv, NEW p \in Procs, UNCHANGED world,
         \A q \in Procs \ {p} : pc'[q] = pc[q] /\ loc'[q] = loc[q],
         held \cap Safe \subseteq held', held \subseteq handed => held' \subseteq handed',
         KnownHeld', Complete', Fits(p)'
  PROVE  HandsInv'
<1>1. Safe' = Safe
  BY DEF Safe
<1>2. ASSUME NEW q \in Procs \ {p} PROVE Fits(q)'
  BY <1>1, <1>2 DEF Fits, Sure, HandsInv
<1> QED BY <1>2 DEF HandsInv

\* What a call ends with fits.
LEMMA IdleFits ==
  ASSUME NEW p
  PROVE  LET l == [Idle EXCEPT !.then = Rest(p)]
         IN  /\ l.keys = {} /\ l.fresh = {} /\ l.forced = {} /\ l.track = {}
             /\ l.then \in {"idle", "done"}
BY DEF Idle, Rest

LEMMA ReturnFits ==
  ASSUME Places, HandsInv, NEW p \in Procs, Return(p), UNCHANGED <<world, held, handed>>
  PROVE  Fits(p)' /\ \A q \in Procs \ {p} : pc'[q] = pc[q] /\ loc'[q] = loc[q]
<1>1. /\ pc'[p] = loc[p].then /\ loc'[p] = [Idle EXCEPT !.then = Rest(p)]
      /\ \A q \in Procs \ {p} : pc'[q] = pc[q] /\ loc'[q] = loc[q]
  BY DEF Return, Become, Go, Places
<1>2. /\ loc'[p].keys = {} /\ loc'[p].fresh = {} /\ loc'[p].forced = {} /\ loc'[p].track = {}
      /\ loc'[p].then \in {"idle", "done"}
  BY <1>1, IdleFits
<1>3. loc[p].then \notin Letting
  BY LocalsAre DEF Places, Letting
<1>4. pc'[p] = "seeded" => held \subseteq handed
  BY <1>1 DEF HandsInv, Fits
<1> QED BY <1>1, <1>2, <1>3, <1>4 DEF Fits, Sure

\* A goroutine goes on within its call, by what it had in hand.
LEMMA BecomeFits ==
  ASSUME Places, HandsInv, NEW p \in Procs, NEW label \in Labels \ (Letting \cup {"seeded"}),
         NEW l \in Locals, Become(p, label, l), UNCHANGED <<world, held, handed>>,
         Sure(l.keys), Sure(l.fresh), Sure(l.forced), Sure(l.track),
         l.then # "seeded" \/ l.then = loc[p].then
  PROVE  Fits(p)' /\ \A q \in Procs \ {p} : pc'[q] = pc[q] /\ loc'[q] = loc[q]
<1>1. /\ pc'[p] = label /\ loc'[p] = l
      /\ \A q \in Procs \ {p} : pc'[q] = pc[q] /\ loc'[q] = loc[q]
  BY DEF Become, Go, Places
<1>2. loc[p].then = "seeded" => held \subseteq handed
  BY DEF HandsInv, Fits
<1>3. Safe' = Safe
  BY DEF Safe
<1> QED BY <1>1, <1>2, <1>3 DEF Fits, Sure

LEMMA GoFits ==
  ASSUME Places, HandsInv, NEW p \in Procs, NEW label \in Labels \ {"seeded"},
         Go(p, label), loc' = loc, UNCHANGED <<world, held, handed>>,
         label \in Letting => pc[p] \in Letting
  PROVE  Fits(p)' /\ \A q \in Procs \ {p} : pc'[q] = pc[q] /\ loc'[q] = loc[q]
<1>1. /\ pc'[p] = label
      /\ \A q \in Procs \ {p} : pc'[q] = pc[q] /\ loc'[q] = loc[q]
  BY DEF Go, Places
<1>2. Fits(p) /\ Safe' = Safe
  BY DEF HandsInv, Safe
<1> QED BY <1>1, <1>2 DEF Fits, Sure

\* The records of a step that neither lets go of a key nor hands one over.
LEMMA KnownStays ==
  ASSUME HandsInv, UNCHANGED <<world, held, handed>>, seeded' => seeded,
         leftover' = leftover \/ Sure(leftover'),
         Sure(keystore'), Sure(refile'), Sure(Waiting')
  PROVE  /\ KnownHeld' /\ Complete' /\ UNCHANGED world
         /\ held \cap Safe \subseteq held' /\ (held \subseteq handed => held' \subseteq handed')
<1>1. Safe' = Safe
  BY DEF Safe
<1> QED BY <1>1 DEF HandsInv, KnownHeld, Complete, Sure

LEMMA FlushHands ==
  ASSUME TypeOK, HandsInv, NEW p \in Procs, FlushStep(p) PROVE HandsInv'
<1>0. /\ Records /\ Places /\ loc[p] \in Locals
      /\ Sure(keystore) /\ Sure(refile) /\ Sure(Waiting)
      /\ Sure(loc[p].keys) /\ Sure(loc[p].fresh) /\ Sure(loc[p].forced) /\ Sure(loc[p].track)
      /\ {"flush", "ready", "mark", "file", "force", "record", "unmark"}
           \subseteq Labels \ (Letting \cup {"seeded"})
  BY TypeParts DEF HandsInv, KnownHeld, Fits, Places, Labels, Letting
<1> USE DEF marks, external, leftovers, confirming
<1>1. CASE offerProvides(p)
  <2>1. /\ [loc[p] EXCEPT !.keys = {}, !.force = FALSE] \in Locals
        /\ [loc[p] EXCEPT !.keys = {}, !.force = FALSE].keys = {}
        /\ [loc[p] EXCEPT !.keys = {}, !.force = FALSE].fresh = loc[p].fresh
        /\ [loc[p] EXCEPT !.keys = {}, !.force = FALSE].forced = loc[p].forced
        /\ [loc[p] EXCEPT !.keys = {}, !.force = FALSE].track = loc[p].track
        /\ [loc[p] EXCEPT !.keys = {}, !.force = FALSE].then = loc[p].then
    BY <1>0 DEF Locals
  <2>2. Sure({})
    BY DEF Sure
  <2>3. /\ UNCHANGED <<world, held, handed, leftover, seeded, keystore, refile>>
        /\ Become(p, "flush", [loc[p] EXCEPT !.keys = {}, !.force = FALSE])
    BY <1>1 DEF offerProvides
  <2>4. Sure(Waiting')
    BY <1>0, <1>1 DEF offerProvides, Sure, Waiting
  <2>5. Fits(p)' /\ \A q \in Procs \ {p} : pc'[q] = pc[q] /\ loc'[q] = loc[q]
    BY <1>0, <2>1, <2>2, <2>3, BecomeFits
  <2> QED BY <1>0, <2>3, <2>4, <2>5, KnownStays, HandsStep
<1>2. CASE Flush(p)
  <2> DEFINE fr == {k \in Keys : pending[k] = "fresh"}
             fo == {k \in Keys : pending[k] = "force"}
             l == [loc[p] EXCEPT !.fresh = fr, !.forced = fo]
  <2>1. UNCHANGED <<world, held, handed, leftover, seeded, keystore, refile, pending, unconfirmed>>
    BY <1>2 DEF Flush
  <2>2. Sure(Waiting')
    BY <1>0, <2>1 DEF Waiting
  <2>3. CASE Return(p)
    BY <1>0, <2>1, <2>2, <2>3, ReturnFits, KnownStays, HandsStep
  <2>4. CASE Become(p, "ready", l)
    <3>1. /\ l \in Locals /\ l.keys = loc[p].keys /\ l.fresh = fr /\ l.forced = fo
          /\ l.track = loc[p].track /\ l.then = loc[p].then
      BY <1>0 DEF Locals
    <3>2. Sure(fr) /\ Sure(fo)
      BY <1>0 DEF Sure, Waiting
    <3> HIDE DEF fr, fo, l
    <3>3. Fits(p)' /\ \A q \in Procs \ {p} : pc'[q] = pc[q] /\ loc'[q] = loc[q]
      BY <1>0, <2>1, <2>4, <3>1, <3>2, BecomeFits
    <3> QED BY <1>0, <2>1, <2>2, <3>3, KnownStays, HandsStep
  <2> QED BY <1>2, <2>3, <2>4 DEF Flush
<1>3. CASE providerReady(p)
  <2>1. UNCHANGED <<world, held, handed, leftover, seeded, keystore, refile, pending, unconfirmed>>
    BY <1>3 DEF providerReady
  <2>2. Sure(Waiting')
    BY <1>0, <2>1 DEF Waiting
  <2>3. Fits(p)' /\ \A q \in Procs \ {p} : pc'[q] = pc[q] /\ loc'[q] = loc[q]
    BY <1>0, <1>3, <2>1, GoFits, ReturnFits DEF providerReady
  <2> QED BY <1>0, <2>1, <2>2, <2>3, KnownStays, HandsStep
<1>4. CASE Mark(p)
  <2> DEFINE tr == (loc[p].fresh \ announced) \cup loc[p].forced
             label == IF loc[p].fresh # {} THEN "file" ELSE "force"
             l == [loc[p] EXCEPT !.track = tr]
  <2>1. /\ UNCHANGED <<world, held, handed, leftover, seeded, keystore, pending, unconfirmed>>
        /\ refile' = refile \cup tr /\ Become(p, label, l)
    BY <1>4 DEF Mark
  <2>2. Sure(Waiting')
    BY <1>0, <2>1 DEF Waiting
  <2>3. Sure(tr) /\ tr \subseteq Keys /\ label \in Labels \ (Letting \cup {"seeded"})
    BY <1>0, LocalsAre DEF Sure
  <2>4. /\ l \in Locals /\ l.keys = loc[p].keys /\ l.fresh = loc[p].fresh
        /\ l.forced = loc[p].forced /\ l.track = tr /\ l.then = loc[p].then
    BY <1>0, <2>3 DEF Locals
  <2> HIDE DEF tr, label, l
  <2>5. Sure(refile')
    BY <1>0, <2>1, <2>3 DEF Sure
  <2>6. Fits(p)' /\ \A q \in Procs \ {p} : pc'[q] = pc[q] /\ loc'[q] = loc[q]
    BY <1>0, <2>1, <2>3, <2>4, BecomeFits
  <2> QED BY <1>0, <2>1, <2>2, <2>5, <2>6, KnownStays, HandsStep
<1>5. CASE File(p) \/ FileForced(p)
  <2>1. UNCHANGED <<world, held, handed, leftover, seeded, refile, pending, unconfirmed>>
    BY <1>5 DEF File, FileForced
  <2>2. Sure(Waiting')
    BY <1>0, <2>1 DEF Waiting
  <2>3. keystore' \subseteq keystore \cup loc[p].fresh \cup loc[p].forced
    BY <1>5 DEF File, FileForced, StartProviding
  <2>4. Sure(keystore')
    BY <1>0, <2>3 DEF Sure
  <2>5. Fits(p)' /\ \A q \in Procs \ {p} : pc'[q] = pc[q] /\ loc'[q] = loc[q]
    BY <1>0, <1>5, <2>1, GoFits, ReturnFits DEF File, FileForced
  <2> QED BY <1>0, <2>1, <2>2, <2>4, <2>5, KnownStays, HandsStep
<1>6. CASE Record(p)
  <2>1. UNCHANGED <<world, held, handed, leftover, seeded, keystore, refile>>
    BY <1>6 DEF Record
  <2>2. Sure(Waiting')
    BY <1>0, <1>6 DEF Record, With, Waiting, Sure
  <2>3. CASE Return(p)
    BY <1>0, <2>1, <2>2, <2>3, ReturnFits, KnownStays, HandsStep
  <2>4. ASSUME ~Return(p) PROVE HandsInv'
    <3>1. PICK gone \in SUBSET loc[p].track : Become(p, "unmark", [loc[p] EXCEPT !.track = gone])
      BY <1>6, <2>4 DEF Record
    <3> DEFINE l == [loc[p] EXCEPT !.track = gone]
    <3>2. /\ l \in Locals /\ l.keys = loc[p].keys /\ l.fresh = loc[p].fresh
          /\ l.forced = loc[p].forced /\ l.track = gone /\ l.then = loc[p].then
      BY <1>0 DEF Locals
    <3>3. Sure(gone)
      BY <1>0 DEF Sure
    <3>4. Become(p, "unmark", l)
      BY <3>1
    <3> HIDE DEF l
    <3>5. Fits(p)' /\ \A q \in Procs \ {p} : pc'[q] = pc[q] /\ loc'[q] = loc[q]
      BY <1>0, <2>1, <3>2, <3>3, <3>4, BecomeFits
    <3> QED BY <1>0, <2>1, <2>2, <3>5, KnownStays, HandsStep
  <2> QED BY <2>3, <2>4
<1>7. CASE Unmark(p)
  <2>1. /\ UNCHANGED <<world, held, handed, leftover, seeded, keystore, pending, unconfirmed>>
        /\ refile' \subseteq refile /\ Return(p)
    BY <1>7 DEF Unmark
  <2>2. Sure(Waiting') /\ Sure(refile')
    BY <1>0, <2>1 DEF Waiting, Sure
  <2> QED BY <1>0, <2>1, <2>2, ReturnFits, KnownStays, HandsStep
<1> QED BY <1>1, <1>2, <1>3, <1>4, <1>5, <1>6, <1>7 DEF FlushStep

\* A step that drops the keys a goroutine has in hand, and goes on dropping.
LEMMA LettingStep ==
  ASSUME TypeOK, HandsInv, NEW p \in Procs, NEW label \in Labels \ {"seeded"},
         pc[p] \in Letting, Go(p, label), loc' = loc,
         UNCHANGED <<world, held, handed, leftover, seeded, pending, unconfirmed>>,
         refile' \subseteq refile, keystore' \subseteq keystore
  PROVE  HandsInv'
<1>1. Records /\ Places /\ Sure(keystore) /\ Sure(refile) /\ Sure(Waiting)
  BY TypeParts DEF HandsInv, KnownHeld
<1>2. Sure(keystore') /\ Sure(refile') /\ Sure(Waiting')
  BY <1>1 DEF Sure, Waiting
<1>3. Fits(p)' /\ \A q \in Procs \ {p} : pc'[q] = pc[q] /\ loc'[q] = loc[q]
  BY <1>1, GoFits
<1> QED BY <1>2, <1>3, KnownStays, HandsStep

LEMMA DropHands == ASSUME TypeOK, HandsInv, NEW p \in Procs, DropStep(p) PROVE HandsInv'
<1>0. /\ Records /\ Places /\ loc[p] \in Locals
      /\ Sure(keystore) /\ Sure(refile) /\ Sure(Waiting) /\ Sure(leftover) /\ Sure(handed)
      /\ {"dropRefile", "dropAnnounced", "dropFile", "dropAgain"} \subseteq Labels \ {"seeded"}
      /\ "offer" \in Labels \ (Letting \cup {"seeded"})
      /\ {"dropRefile", "dropAnnounced", "dropFile"} \subseteq Letting
  BY TypeParts DEF HandsInv, KnownHeld, Places, Labels, Letting
<1> USE DEF marks, external, leftovers, confirming
<1>1. CASE dropLeftovers(p)
  <2> DEFINE stale == leftover \ handed
             l == [Idle EXCEPT !.keys = stale, !.then = Rest(p)]
  <2>1. UNCHANGED <<world, held, handed, seeded, keystore, refile>>
    BY <1>1 DEF dropLeftovers
  <2>2. Sure(Waiting') /\ (leftover' = leftover \/ Sure(leftover'))
    BY <1>0, <1>1 DEF dropLeftovers, With, Waiting, Sure
  <2>3. CASE Return(p)
    BY <1>0, <2>1, <2>2, <2>3, ReturnFits, KnownStays, HandsStep
  <2>4. CASE seeded /\ Become(p, "dropRefile", l)
    <3>1. held \subseteq handed
      BY <2>4 DEF HandsInv, Complete
    <3>2. stale \cap Safe = {} /\ stale \subseteq Keys
      BY <1>0, <3>1 DEF Sure, Records
    <3>3. /\ l.keys = stale /\ l.fresh = {} /\ l.forced = {} /\ l.track = {}
          /\ l.then \in {"idle", "done"}
      BY DEF Idle, Rest
    <3> HIDE DEF stale, l
    <3>4. /\ pc'[p] = "dropRefile" /\ loc'[p] = l
          /\ \A q \in Procs \ {p} : pc'[q] = pc[q] /\ loc'[q] = loc[q]
      BY <1>0, <2>4 DEF Become, Go, Places
    <3>5. Fits(p)'
      BY <2>1, <3>2, <3>3, <3>4 DEF Fits, Sure, Safe
    <3> QED BY <1>0, <2>1, <2>2, <3>4, <3>5, KnownStays, HandsStep
  <2> QED BY <1>1, <2>3, <2>4 DEF dropLeftovers
<1>2. CASE DropRefile(p)
  BY <1>0, <1>2, LettingStep DEF DropRefile
<1>3. CASE DropAnnounced(p)
  BY <1>0, <1>3, LettingStep DEF DropAnnounced
<1>4. CASE DropFile(p)
  BY <1>0, <1>4, LettingStep DEF DropFile, StopProviding
<1>5. CASE DropAgain(p)
  <2> DEFINE again == loc[p].keys \cap handed
             l == [Idle EXCEPT !.keys = again, !.force = TRUE, !.then = Rest(p)]
  <2>1. UNCHANGED <<world, held, handed, leftover, seeded, keystore, refile, pending, unconfirmed>>
    BY <1>5 DEF DropAgain
  <2>2. Sure(Waiting')
    BY <1>0, <2>1 DEF Waiting
  <2>3. CASE Return(p)
    BY <1>0, <2>1, <2>2, <2>3, ReturnFits, KnownStays, HandsStep
  <2>4. CASE Become(p, "offer", l)
    <3>1. Sure(again) /\ again \subseteq Keys /\ Sure({})
      BY <1>0 DEF Sure, Records
    <3>2. Rest(p) \in {"idle", "done"}
      BY DEF Rest
    <3>3. l \in Locals
      BY <3>1, <3>2, IdleIs
    <3>4. /\ l.keys = again /\ l.fresh = {} /\ l.forced = {} /\ l.track = {}
          /\ l.then # "seeded"
      BY <3>2 DEF Idle
    <3> HIDE DEF again, l
    <3>5. Fits(p)' /\ \A q \in Procs \ {p} : pc'[q] = pc[q] /\ loc'[q] = loc[q]
      BY <1>0, <2>1, <2>4, <3>1, <3>3, <3>4, BecomeFits
    <3> QED BY <1>0, <2>1, <2>2, <3>5, KnownStays, HandsStep
  <2> QED BY <1>5, <2>3, <2>4 DEF DropAgain
<1> QED BY <1>1, <1>2, <1>3, <1>4, <1>5 DEF DropStep

LEMMA RetryHands ==
  ASSUME TypeOK, HandsInv, Tick \/ ReadStats \/ Settle \/ MarkAnnounced \/ ClearRefile
  PROVE  HandsInv'
<1> DEFINE p == "retry"
<1>0. /\ Records /\ Places /\ p \in Procs /\ loc[p] \in Locals
      /\ Sure(keystore) /\ Sure(refile) /\ Sure(Waiting) /\ Sure({})
      /\ {"stats", "settle", "settled", "confirmed", "flush"}
           \subseteq Labels \ (Letting \cup {"seeded"})
  BY TypeParts DEF HandsInv, KnownHeld, Places, Labels, Letting, Procs, Sure
<1>i. /\ Idle \in Locals /\ Idle.keys = {} /\ Idle.fresh = {} /\ Idle.forced = {}
      /\ Idle.track = {} /\ Idle.then # "seeded"
  BY IdleIs DEF Idle
<1> USE DEF marks, external, leftovers, confirming
<1> HIDE DEF p
<1>1. UNCHANGED <<world, held, handed, leftover, seeded, keystore>> /\ refile' \subseteq refile
  BY DEF Tick, ReadStats, Settle, MarkAnnounced, ClearRefile
<1>2. Sure(refile') /\ Sure(keystore')
  BY <1>0, <1>1 DEF Sure
<1>3. Waiting' \subseteq Waiting
  <2>1. CASE Settle
    BY <1>0, <2>1 DEF Settle, With, Waiting, Records
  <2>2. CASE Tick \/ ReadStats \/ MarkAnnounced \/ ClearRefile
    BY <2>2 DEF Tick, ReadStats, MarkAnnounced, ClearRefile, Waiting
  <2> QED BY <2>1, <2>2
<1>4. Sure(Waiting')
  BY <1>0, <1>3 DEF Sure
<1>5. Fits(p)' /\ \A q \in Procs \ {p} : pc'[q] = pc[q] /\ loc'[q] = loc[q]
  <2>1. CASE Tick \/ MarkAnnounced
    BY <1>0, <1>1, <2>1, GoFits DEF Tick, MarkAnnounced, p
  <2>2. CASE ReadStats \/ ClearRefile
    <3>1. Become("retry", "flush", Idle) \/ (Go("retry", "settle") /\ loc' = loc)
      <4>1. CASE ReadStats
        BY <4>1 DEF ReadStats
      <4>2. CASE ClearRefile
        BY <4>2 DEF ClearRefile
      <4> QED BY <2>2, <4>1, <4>2
    <3>2. CASE Become("retry", "flush", Idle)
      BY <1>0, <1>i, <1>1, <3>2, BecomeFits DEF p
    <3>3. CASE Go("retry", "settle") /\ loc' = loc
      BY <1>0, <1>1, <3>3, GoFits DEF p
    <3> QED BY <3>1, <3>2, <3>3
  <2>3. CASE Settle
    <3>1. CASE Become(p, "flush", Idle)
      BY <1>0, <1>i, <1>1, <3>1, BecomeFits
    <3>2. ASSUME NEW ks \in SUBSET Waiting, Become(p, "settled", [Idle EXCEPT !.keys = ks])
          PROVE  Fits(p)' /\ \A q \in Procs \ {p} : pc'[q] = pc[q] /\ loc'[q] = loc[q]
      <4> DEFINE l == [Idle EXCEPT !.keys = ks]
      <4>1. Sure(ks) /\ ks \subseteq Keys
        BY <1>0 DEF Sure, Waiting
      <4>2. /\ l.keys = ks /\ l.fresh = {} /\ l.forced = {} /\ l.track = {}
            /\ l.then # "seeded"
        BY DEF Idle
      <4>3. l \in Locals /\ Become(p, "settled", l)
        BY <3>2, <4>1, IdleIs
      <4> HIDE DEF l
      <4> QED BY <1>0, <1>1, <4>1, <4>2, <4>3, BecomeFits
    <3>3. {k \in {k \in Keys : snap[k] # "none" /\ unconfirmed[k] # "none"} :
             kept /\ snap[k] = "kept"} \subseteq Waiting
      BY DEF Waiting
    <3> QED BY <2>3, <3>1, <3>2, <3>3 DEF Settle, p
  <2> QED BY <2>1, <2>2, <2>3
<1> QED BY <1>0, <1>1, <1>2, <1>4, <1>5, KnownStays, HandsStep

LEMMA OpenHands ==
  ASSUME TypeOK, HandsInv, OpenProvider \/ List \/ UseProvider \/ restoreRefiles
  PROVE  HandsInv'
<1> DEFINE p == "open"
<1>0. /\ Records /\ Places /\ p \in Procs
      /\ Sure(keystore) /\ Sure(refile) /\ Sure(Waiting) /\ Sure({})
      /\ {"use", "list", "restore", "drop", "offer"} \subseteq Labels \ (Letting \cup {"seeded"})
  BY TypeParts DEF HandsInv, KnownHeld, Labels, Letting, Procs, Sure
<1> USE DEF marks, external, leftovers, confirming
<1> HIDE DEF p
<1>1. UNCHANGED <<world, held, handed, seeded, keystore, refile, pending, unconfirmed>>
  BY DEF OpenProvider, List, UseProvider, restoreRefiles
<1>2. leftover' = leftover \/ Sure(leftover')
  BY <1>0 DEF OpenProvider, List, UseProvider, restoreRefiles
<1>3. Sure(Waiting') /\ Sure(refile') /\ Sure(keystore')
  BY <1>0, <1>1 DEF Waiting
<1>4. Fits(p)' /\ \A q \in Procs \ {p} : pc'[q] = pc[q] /\ loc'[q] = loc[q]
  <2>1. CASE OpenProvider \/ List \/ UseProvider
    <3>1. (Go(p, "use") \/ Go(p, "list") \/ Go(p, "restore")) /\ loc' = loc
      BY <2>1 DEF OpenProvider, List, UseProvider, p
    <3> QED BY <1>0, <1>1, <3>1, GoFits
  <2>2. CASE restoreRefiles
    <3> DEFINE l == [Idle EXCEPT !.keys = refile, !.force = TRUE, !.then = "drop"]
               m == [Idle EXCEPT !.then = "done"]
    <3>1. refile \subseteq Keys
      BY <1>0 DEF Records
    <3>2. l \in Locals
      BY <3>1, IdleIs
    <3>3. m \in Locals
      BY DEF Idle, Locals, Time
    <3>4. /\ l.keys = refile /\ l.fresh = {} /\ l.forced = {} /\ l.track = {}
          /\ m.keys = {} /\ m.fresh = {} /\ m.forced = {} /\ m.track = {}
          /\ l.then # "seeded" /\ m.then # "seeded"
      BY DEF Idle
    <3>5. Become(p, "drop", m) \/ Become(p, "offer", l)
      BY <2>2 DEF restoreRefiles, p
    <3> HIDE DEF l, m
    <3> QED BY <1>0, <1>1, <3>2, <3>3, <3>4, <3>5, BecomeFits
  <2> QED BY <2>1, <2>2
<1> QED BY <1>0, <1>1, <1>2, <1>3, <1>4, KnownStays, HandsStep

\* The app hands over what it holds: next is "seeded" when that is all.
LEMMA HandOverHands ==
  ASSUME TypeOK, HandsInv, NEW a \in Apps, NEW ks \in SUBSET Keys, NEW next \in {"idle", "seeded"},
         held \subseteq held', held' \subseteq held \cup ks, ks \subseteq held',
         next = "seeded" => held' = ks, HandOver(a, ks, next)
  PROVE  HandsInv'
<1>0. /\ Records /\ Places /\ a \in Procs /\ loc[a] \in Locals
  BY TypeParts DEF Places, Procs
<1>1. /\ UNCHANGED <<world, leftover, seeded, keystore, refile, pending, unconfirmed>>
      /\ handed' = handed \cup ks /\ held \cap Safe \subseteq held' /\ Safe' = Safe
      /\ held \subseteq handed => held' \subseteq handed'
  BY DEF HandOver, marks, external, Safe
<1>2. KnownHeld' /\ Complete'
  BY <1>1 DEF HandsInv, KnownHeld, Complete, Sure, Waiting
<1>3. \E l \in Locals, label \in Labels :
        /\ Become(a, label, l) /\ label \in {next, "offer"} /\ l.keys \subseteq ks
        /\ l.fresh = {} /\ l.forced = {} /\ l.track = {} /\ l.then \in {"idle", next}
  <2>1. /\ Idle \in Locals /\ Idle.keys = {} /\ Idle.fresh = {} /\ Idle.forced = {}
        /\ Idle.track = {} /\ Idle.then = "idle"
    BY IdleIs DEF Idle
  <2> DEFINE l == [Idle EXCEPT !.keys = ks, !.then = next]
  <2>2. /\ l.keys = ks /\ l.fresh = {} /\ l.forced = {} /\ l.track = {} /\ l.then = next
    BY DEF Idle
  <2>3. l \in Locals
    BY IdleIs
  <2>4. Become(a, next, Idle) \/ Become(a, "offer", l)
    BY DEF HandOver
  <2>5. next \in Labels /\ "offer" \in Labels
    BY DEF Labels
  <2> HIDE DEF l
  <2> QED BY <2>1, <2>2, <2>3, <2>4, <2>5
<1>4. PICK l \in Locals, label \in Labels :
        /\ Become(a, label, l) /\ label \in {next, "offer"} /\ l.keys \subseteq ks
        /\ l.fresh = {} /\ l.forced = {} /\ l.track = {} /\ l.then \in {"idle", next}
  BY <1>3
<1>5. /\ pc'[a] = label /\ loc'[a] = l
      /\ \A q \in Procs \ {a} : pc'[q] = pc[q] /\ loc'[q] = loc[q]
  BY <1>0, <1>4 DEF Become, Go, Places
<1>6. label \notin Letting
  BY <1>4 DEF Letting
<1>7. Fits(a)'
  BY <1>1, <1>4, <1>5, <1>6 DEF Fits, Sure
<1> QED BY <1>0, <1>1, <1>2, <1>5, <1>7, HandsStep

LEMMA AppHands ==
  ASSUME TypeOK, HandsInv, NEW a \in Apps,
         \/ Seeded(a) \/ StopRefile(a) \/ StopAnnounced(a) \/ StopFile(a)
         \/ runSeedAnnounce(a)
         \/ \E ks \in SUBSET Keys : Start(a, ks)
         \/ \E k \in Keys : Stop(a, k)
  PROVE  HandsInv'
<1>0. /\ Records /\ Places /\ a \in Procs /\ loc[a] \in Locals
      /\ Sure(keystore) /\ Sure(refile) /\ Sure(Waiting)
      /\ {"stopAnnounced", "stopFile"} \subseteq Labels \ {"seeded"}
      /\ {"stopRefile", "stopAnnounced", "stopFile"} \subseteq Letting
      /\ "drop" \in Labels \ (Letting \cup {"seeded"})
  BY TypeParts DEF HandsInv, KnownHeld, Places, Labels, Letting, Procs
<1> USE DEF marks, external, leftovers, confirming
<1>1. CASE Seeded(a)
  <2>1. /\ UNCHANGED <<world, held, handed, leftover, keystore, refile, pending, unconfirmed>>
        /\ Go(a, "drop") /\ loc' = loc /\ pc[a] = "seeded" /\ Safe' = Safe
    BY <1>1 DEF Seeded, Safe
  <2>2. held \subseteq handed
    BY <1>0, <2>1 DEF HandsInv, Fits
  <2>3. Fits(a)' /\ \A q \in Procs \ {a} : pc'[q] = pc[q] /\ loc'[q] = loc[q]
    BY <1>0, <2>1, GoFits
  <2>4. KnownHeld' /\ Complete'
    BY <2>1, <2>2 DEF HandsInv, KnownHeld, Complete, Sure, Waiting
  <2> QED BY <1>0, <2>1, <2>2, <2>3, <2>4, HandsStep
<1>2. CASE StopRefile(a)
  BY <1>0, <1>2, LettingStep DEF StopRefile
<1>3. CASE StopAnnounced(a)
  BY <1>0, <1>3, LettingStep DEF StopAnnounced
<1>4. CASE StopFile(a)
  <2>1. /\ UNCHANGED <<world, held, handed, leftover, seeded, refile, pending, unconfirmed>>
        /\ Return(a)
    BY <1>4 DEF StopFile
  <2>2. keystore' \subseteq keystore
    BY <1>4 DEF StopFile, StopProviding
  <2>3. Sure(keystore') /\ Sure(refile') /\ Sure(Waiting')
    BY <1>0, <2>1, <2>2 DEF Sure, Waiting
  <2> QED BY <1>0, <2>1, <2>3, ReturnFits, KnownStays, HandsStep
<1>5. CASE runSeedAnnounce(a)
  <2>1. held \in SUBSET Keys /\ held' = held /\ HandOver(a, held, "seeded")
    BY <1>0, <1>5 DEF runSeedAnnounce, Records
  <2> QED BY <2>1, HandOverHands
<1>6. ASSUME NEW ks \in SUBSET Keys, Start(a, ks) PROVE HandsInv'
  <2>1. held' = held \cup ks /\ HandOver(a, ks, "idle")
    BY <1>6 DEF Start
  <2> QED BY <2>1, HandOverHands
<1>7. ASSUME NEW k \in Keys, Stop(a, k) PROVE HandsInv'
  <2> DEFINE l == [Idle EXCEPT !.keys = {k}]
  <2>1. /\ UNCHANGED <<world, handed, leftover, seeded, keystore, refile>>
        /\ held' = held \ {k} /\ k \notin Safe /\ Safe' = Safe
        /\ Become(a, "stopRefile", l)
    BY <1>7 DEF Stop, Safe
  <2>2. Waiting' \subseteq Waiting
    BY <1>0, <1>7 DEF Stop, Waiting, Records
  <2>3. KnownHeld' /\ Complete' /\ held \cap Safe \subseteq held'
    BY <2>1, <2>2 DEF HandsInv, KnownHeld, Complete, Sure
  <2>4. l.keys = {k} /\ l.fresh = {} /\ l.forced = {} /\ l.track = {} /\ l.then = "idle"
    BY DEF Idle
  <2> HIDE DEF l
  <2>5. /\ pc'[a] = "stopRefile" /\ loc'[a] = l
        /\ \A q \in Procs \ {a} : pc'[q] = pc[q] /\ loc'[q] = loc[q]
    BY <1>0, <2>1 DEF Become, Go, Places
  <2>6. Fits(a)'
    BY <2>1, <2>4, <2>5 DEF Fits, Sure
  <2>7. held \subseteq handed => held' \subseteq handed'
    BY <2>1
  <2> QED BY <1>0, <2>1, <2>3, <2>5, <2>6, <2>7, HandsStep
<1> QED BY <1>1, <1>2, <1>3, <1>4, <1>5, <1>6, <1>7

LEMMA AroundHands == ASSUME TypeOK, HandsInv, Around \/ dropProvider \/ Crash PROVE HandsInv'
<1>0. Records /\ Places
  BY TypeParts
<1> USE DEF marks, external, leftovers, confirming
<1>1. CASE Crash
  <2>1. /\ UNCHANGED <<world, keystore, refile>> /\ Safe' = Safe /\ handed' = {} /\ leftover' = {}
        /\ seeded' = FALSE /\ held \cap Safe \subseteq held'
    BY <1>1 DEF Crash, Safe
  <2>2. Waiting' = {}
    BY <1>1 DEF Crash, Waiting
  <2>3. KnownHeld' /\ Complete'
    BY <2>1, <2>2 DEF HandsInv, KnownHeld, Complete, Sure
  <2>4. ASSUME NEW p \in Procs PROVE Fits(p)'
    <3>1. pc'[p] \in {"begin", "idle"} /\ loc'[p] = [Idle EXCEPT !.then = Rest(p)]
      BY <1>1 DEF Crash
    <3>2. /\ loc'[p].keys = {} /\ loc'[p].fresh = {} /\ loc'[p].forced = {}
          /\ loc'[p].track = {} /\ loc'[p].then \in {"idle", "done"}
      BY <3>1, IdleFits
    <3>3. pc'[p] \notin Letting /\ pc'[p] # "seeded"
      BY <3>1 DEF Letting
    <3> QED BY <3>2, <3>3 DEF Fits, Sure
  <2> QED BY <2>3, <2>4 DEF HandsInv
<1>2. CASE Around \/ dropProvider
  <2>1. /\ UNCHANGED <<world, held, handed, leftover, seeded, keystore, refile, pending>>
        /\ Safe' = Safe
    BY <1>2 DEF Around, Announce, Connect, Disconnect, GoOffline, ReadingExpires, dropProvider, Safe
  <2>2. Waiting' = Waiting
    BY <1>0, <1>2 DEF Around, Announce, Connect, noteOnline, Lost, Disconnect, GoOffline,
                      ReadingExpires, dropProvider, Waiting, Records
  <2>3. KnownHeld' /\ Complete'
    BY <2>1, <2>2 DEF HandsInv, KnownHeld, Complete, Sure
  <2>4. ASSUME NEW p \in Procs
        PROVE  /\ loc'[p].keys = loc[p].keys /\ loc'[p].fresh = loc[p].fresh
               /\ loc'[p].forced = loc[p].forced /\ loc'[p].track = loc[p].track
               /\ loc'[p].then = loc[p].then /\ pc'[p] \in {pc[p], "begin"}
    <3> loc[p] \in Locals
      BY <1>0 DEF Places
    <3>1. CASE Connect
      <4>1. pc' = pc /\ loc'[p] \in {loc[p], [loc[p] EXCEPT !.at = "lost"]}
        BY <3>1, <1>0 DEF Connect, noteOnline
      <4> QED BY <4>1 DEF Locals
    <3>2. CASE dropProvider
      <4>1. pc'[p] \in {pc[p], "begin"} /\ loc'[p] \in {loc[p], [loc[p] EXCEPT !.closed = TRUE]}
        BY <3>2, <1>0 DEF dropProvider, Places
      <4> QED BY <4>1 DEF Locals
    <3>3. CASE (\E k \in Keys : Announce(k)) \/ Disconnect \/ GoOffline \/ ReadingExpires
      BY <3>3 DEF Announce, Disconnect, GoOffline, ReadingExpires
    <3> QED BY <1>2, <3>1, <3>2, <3>3 DEF Around
  <2>5. "begin" \notin Letting
    BY DEF Letting
  <2>6. \A p \in Procs : Fits(p)'
    BY <2>1, <2>4, <2>5 DEF HandsInv, Fits, Sure
  <2> QED BY <2>3, <2>6 DEF HandsInv
<1> QED BY <1>1, <1>2

LEMMA StepHands == ASSUME TypeOK, HandsInv, [Next]_vars PROVE HandsInv'
<1>1. CASE UNCHANGED vars
  BY <1>1 DEF vars, marks, external, leftovers, confirming, HandsInv, KnownHeld, Complete,
              Fits, Sure, Safe, Waiting
<1>2. CASE Next
  BY <1>2, NextIs, FlushHands, DropHands, RetryHands, OpenHands, AppHands, AroundHands
<1> QED BY <1>1, <1>2

LEMMA InitHands == Init => HandsInv
<1> SUFFICES ASSUME Init PROVE HandsInv
  OBVIOUS
<1>1. /\ (keystore \cup refile) \ held \subseteq world.droppable /\ handed = {} /\ leftover = {}
      /\ seeded = FALSE /\ Waiting = {}
  BY DEF Init, EarlierRuns, Waiting
<1>2. KnownHeld /\ Complete
  BY <1>1 DEF KnownHeld, Complete, Sure, Safe
<1>3. ASSUME NEW p \in Procs PROVE Fits(p)
  <2>1. pc[p] \in {"begin", "idle"} /\ loc[p] = [Idle EXCEPT !.then = Rest(p)]
    BY DEF Init
  <2>2. /\ loc[p].keys = {} /\ loc[p].fresh = {} /\ loc[p].forced = {} /\ loc[p].track = {}
        /\ loc[p].then \in {"idle", "done"}
    BY <2>1, IdleFits
  <2>3. pc[p] \notin Letting /\ pc[p] # "seeded"
    BY <2>1 DEF Letting
  <2> QED BY <2>2, <2>3 DEF Fits, Sure
<1> QED BY <1>2, <1>3 DEF HandsInv

\* Only StopProviding takes a key out of the keystore.
LEMMA KeystoreShrinks ==
  ASSUME TypeOK, HandsInv, [Next]_vars
  PROVE  keystore \cap Safe \subseteq keystore'
<1>0. ASSUME NEW p \in Procs, pc[p] \in {"stopFile", "dropFile"} PROVE loc[p].keys \cap Safe = {}
  BY <1>0 DEF HandsInv, Fits, Letting
<1> USE DEF marks, external
<1>1. ASSUME NEW p \in Procs, FlushStep(p) PROVE keystore \subseteq keystore'
  BY <1>1 DEF FlushStep, offerProvides, Flush, providerReady, Mark, File, FileForced, Record, Unmark,
              StartProviding
<1>2. ASSUME NEW p \in Procs, DropStep(p) PROVE keystore \cap Safe \subseteq keystore'
  <2>1. CASE DropFile(p)
    BY <1>0, <2>1 DEF DropFile, StopProviding
  <2>2. CASE dropLeftovers(p) \/ DropRefile(p) \/ DropAnnounced(p) \/ DropAgain(p)
    BY <2>2 DEF dropLeftovers, DropRefile, DropAnnounced, DropAgain
  <2> QED BY <1>2, <2>1, <2>2 DEF DropStep
<1>3. CASE Tick \/ ReadStats \/ Settle \/ MarkAnnounced \/ ClearRefile
           \/ OpenProvider \/ List \/ UseProvider \/ restoreRefiles
  BY <1>3 DEF Tick, ReadStats, Settle, MarkAnnounced, ClearRefile, OpenProvider, List,
              UseProvider, restoreRefiles
<1>4. ASSUME NEW a \in Apps,
             \/ Seeded(a) \/ StopRefile(a) \/ StopAnnounced(a) \/ StopFile(a)
             \/ runSeedAnnounce(a)
             \/ \E ks \in SUBSET Keys : Start(a, ks)
             \/ \E k \in Keys : Stop(a, k)
      PROVE  keystore \cap Safe \subseteq keystore'
  <2>1. CASE StopFile(a)
    BY <1>0, <2>1 DEF StopFile, StopProviding, Procs
  <2>2. CASE \/ Seeded(a) \/ StopRefile(a) \/ StopAnnounced(a) \/ runSeedAnnounce(a)
             \/ (\E ks \in SUBSET Keys : Start(a, ks)) \/ (\E k \in Keys : Stop(a, k))
    BY <2>2 DEF Seeded, StopRefile, StopAnnounced, runSeedAnnounce, Start, Stop, HandOver
  <2> QED BY <1>4, <2>1, <2>2
<1>5. CASE Around \/ dropProvider \/ Crash
  BY <1>5 DEF Around, Announce, Connect, Disconnect, GoOffline, ReadingExpires, dropProvider, Crash
<1>6. CASE UNCHANGED vars
  BY <1>6 DEF vars
<1> QED BY <1>1, <1>2, <1>3, <1>4, <1>5, <1>6, NextIs

\* What an earlier run filed and the app still holds is never stopped, in any
\* world: however short the Offline spells are, whether goOnline is retried
\* over a keystore of this run or the process ends within a drop
\* (dropLeftovers, runSeedAnnounce, useProvider).
THEOREM HeldStaysFiled == Spec => HeldIsNeverDropped
<1>1. TypeOK /\ HandsInv /\ [Next]_vars
        => [\A k \in Keys \ (world.stoppable \cup world.droppable) :
              k \in keystore => k \in keystore']_vars
  BY KeystoreShrinks DEF Safe
<1> QED BY <1>1, InitTypes, StepTypes, InitHands, StepHands, PTL DEF Spec, HeldIsNeverDropped

-----------------------------------------------------------------------------
(* What is remembered.  Only what is known announced loses its refile mark *)
(* or its place in memory.  It is known by the stats that follow a hand-   *)
(* over, and these count if whatever was filed since the last Offline      *)
(* spell was queued with it: what the provider has in its keystore and     *)
(* neither in its queue nor announced is marked force until a flush hands  *)
(* it over so.                                                             *)

Filing == {"mark", "file", "force", "record"}

\* Labels at which a goroutine's locals count for what is remembered.
Active == Filing \cup {"ready", "unmark", "stats", "settle", "settled", "confirmed"}

\* The provider was not online yet in this run of the process.
Before == conn # "online" /\ reading # "ready" /\ \A p \in Procs : pc[p] \notin Filing

\* The worlds in which the node reads every Offline spell, and goOnline does
\* not fail after useProvider.
Patient == world.spells = "long" /\ ~world.retries

Phase ==
  /\ pc["open"] = "begin" => conn = "offline" /\ ~wentOffline /\ ~pruneWith
  /\ wentOffline => conn = "offline"
  /\ conn = "offline" /\ ~wentOffline => Before
  /\ \A p \in Procs : ~loc[p].closed

\* What a step of a goroutine does to all this: only the opening one sets conn,
\* and none starts to file before the provider was online.
Moves(p) ==
  /\ \A q \in Procs \ {p} : pc'[q] = pc[q] /\ loc'[q] = loc[q]
  /\ pc'[p] # "begin" /\ (loc'[p].closed => loc[p].closed)
  /\ Before => pc'[p] \notin Filing /\ reading' # "ready"
  /\ UNCHANGED <<world, wentOffline>>
  /\ \/ UNCHANGED <<conn, pruneWith>>
     \/ p = "open" /\ pc[p] = "begin" /\ conn' # "online"

LEMMA MovesPhase ==
  ASSUME Phase, NEW p \in Procs, Moves(p) PROVE Phase' /\ (Before => Before')
<1>1. Before => Before'
  <2>1. CASE UNCHANGED <<conn, pruneWith>>
    BY <2>1 DEF Moves, Before
  <2>2. CASE conn' # "online"
    BY <2>2 DEF Moves, Before
  <2> QED BY <2>1, <2>2 DEF Moves
<1>2. "open" \in Procs
  BY DEF Procs
<1>3. (pc["open"] = "begin" => conn = "offline" /\ ~wentOffline /\ ~pruneWith)'
  BY <1>2 DEF Moves, Phase
<1>4. (wentOffline => conn = "offline")' /\ (conn = "offline" /\ ~wentOffline => Before)'
  BY <1>1, <1>2 DEF Moves, Phase
<1>5. (\A q \in Procs : ~loc[q].closed)'
  BY DEF Moves, Phase
<1> QED BY <1>1, <1>3, <1>4, <1>5 DEF Phase

\* A call that ends, or goes on with other locals, moves one goroutine.
LEMMA ReturnMoves ==
  ASSUME Places, NEW p \in Procs, Return(p)
  PROVE  /\ \A q \in Procs \ {p} : pc'[q] = pc[q] /\ loc'[q] = loc[q]
         /\ pc'[p] \in {"idle", "done", "seeded", "drop"} /\ loc'[p].closed = FALSE
<1>1. /\ pc'[p] = loc[p].then /\ loc'[p] = [Idle EXCEPT !.then = Rest(p)]
      /\ \A q \in Procs \ {p} : pc'[q] = pc[q] /\ loc'[q] = loc[q]
  BY DEF Return, Become, Go, Places
<1>2. [Idle EXCEPT !.then = Rest(p)].closed = FALSE
  BY DEF Idle
<1> QED BY <1>1, <1>2, LocalsAre DEF Places

LEMMA BecomeMoves ==
  ASSUME Places, NEW p \in Procs, NEW label \in Labels, NEW l \in Locals, Become(p, label, l)
  PROVE  /\ \A q \in Procs \ {p} : pc'[q] = pc[q] /\ loc'[q] = loc[q]
         /\ pc'[p] = label /\ loc'[p] = l
BY DEF Become, Go, Places

LEMMA GoMoves ==
  ASSUME Places, NEW p \in Procs, NEW label \in Labels, Go(p, label)
  PROVE  pc'[p] = label /\ \A q \in Procs \ {p} : pc'[q] = pc[q]
BY DEF Go, Places

LEMMA FlushMoves == ASSUME TypeOK, NEW p \in Procs, FlushStep(p) PROVE Moves(p)
<1>0. /\ Records /\ Places /\ loc[p] \in Locals
      /\ {"flush", "ready", "mark", "file", "force", "record", "unmark"} \subseteq Labels
      /\ {"idle", "done", "seeded", "drop"} \cap Filing = {}
  BY TypeParts DEF Places, Labels, Filing
<1> USE DEF marks, external, leftovers, confirming
<1>1. CASE offerProvides(p)
  <2>1. /\ [loc[p] EXCEPT !.keys = {}, !.force = FALSE] \in Locals
        /\ [loc[p] EXCEPT !.keys = {}, !.force = FALSE].closed = loc[p].closed
    BY <1>0 DEF Locals
  <2>2. /\ Become(p, "flush", [loc[p] EXCEPT !.keys = {}, !.force = FALSE])
        /\ UNCHANGED <<world, wentOffline, conn, pruneWith, reading>>
    BY <1>1 DEF offerProvides
  <2> QED BY <1>0, <2>1, <2>2, BecomeMoves DEF Moves, Filing, Before
<1>2. CASE Flush(p)
  <2>1. UNCHANGED <<world, wentOffline, conn, pruneWith, reading>>
    BY <1>2 DEF Flush
  <2>2. CASE Return(p)
    BY <1>0, <2>1, <2>2, ReturnMoves DEF Moves, Before
  <2>3. ASSUME NEW fr \in SUBSET Keys, NEW fo \in SUBSET Keys,
               Become(p, "ready", [loc[p] EXCEPT !.fresh = fr, !.forced = fo])
        PROVE  Moves(p)
    <3>1. /\ [loc[p] EXCEPT !.fresh = fr, !.forced = fo] \in Locals
          /\ [loc[p] EXCEPT !.fresh = fr, !.forced = fo].closed = loc[p].closed
      BY <1>0 DEF Locals
    <3> QED BY <1>0, <2>1, <2>3, <3>1, BecomeMoves DEF Moves, Filing, Before
  <2> QED BY <1>2, <2>2, <2>3 DEF Flush
<1>3. CASE providerReady(p)
  <2>1. /\ UNCHANGED <<world, wentOffline, conn, pruneWith>> /\ pc[p] = "ready"
        /\ Before => reading' # "ready"
    BY <1>3 DEF providerReady, Before
  <2>2. CASE Return(p)
    BY <1>0, <2>1, <2>2, ReturnMoves DEF Moves
  <2>3. CASE reading' = "ready" /\ Go(p, "mark") /\ loc' = loc
    BY <1>0, <2>1, <2>3, GoMoves DEF Moves
  <2> QED BY <1>3, <2>2, <2>3 DEF providerReady
<1>4. CASE pc[p] \in Filing /\ (Mark(p) \/ File(p) \/ FileForced(p) \/ Record(p))
  <2>1. UNCHANGED <<world, wentOffline, conn, pruneWith, reading>> /\ ~Before
    BY <1>4 DEF Mark, File, FileForced, Record, Before
  <2>2. CASE Return(p)
    BY <1>0, <2>1, <2>2, ReturnMoves DEF Moves
  <2>3. ASSUME NEW tr \in SUBSET Keys, NEW label \in {"file", "force", "unmark"},
               Become(p, label, [loc[p] EXCEPT !.track = tr])
        PROVE  Moves(p)
    <3>1. /\ [loc[p] EXCEPT !.track = tr] \in Locals /\ label \in Labels
          /\ [loc[p] EXCEPT !.track = tr].closed = loc[p].closed
      BY <1>0 DEF Locals
    <3> QED BY <1>0, <2>1, <2>3, <3>1, BecomeMoves DEF Moves
  <2>4. ASSUME NEW label \in {"force", "record"}, Go(p, label), loc' = loc PROVE Moves(p)
    <3> label \in Labels
      BY <1>0
    <3> QED BY <1>0, <2>1, <2>4, GoMoves DEF Moves
  <2>5. loc[p].fresh \subseteq Keys /\ loc[p].forced \subseteq Keys /\ loc[p].track \subseteq Keys
    BY <1>0, LocalsAre
  <2>6. CASE Mark(p)
    BY <2>3, <2>5, <2>6 DEF Mark
  <2>7. CASE File(p) \/ FileForced(p)
    BY <2>2, <2>4, <2>7 DEF File, FileForced
  <2>8. CASE Record(p)
    BY <2>2, <2>3, <2>5, <2>8 DEF Record
  <2> QED BY <1>4, <2>6, <2>7, <2>8
<1>5. CASE Unmark(p)
  <2>1. UNCHANGED <<world, wentOffline, conn, pruneWith, reading>> /\ Return(p)
    BY <1>5 DEF Unmark
  <2> QED BY <1>0, <2>1, ReturnMoves DEF Moves, Before
<1>6. Mark(p) \/ File(p) \/ FileForced(p) \/ Record(p) => pc[p] \in Filing
  BY DEF Mark, File, FileForced, Record, Filing
<1> QED BY <1>1, <1>2, <1>3, <1>4, <1>5, <1>6 DEF FlushStep

\* A goroutine that files nothing next, whatever the readings.
LEMMA PlainMoves ==
  ASSUME TypeOK, NEW p \in Procs, UNCHANGED <<world, wentOffline, conn, pruneWith>>,
         Before => reading' # "ready",
         \/ Return(p)
         \/ \E label \in Labels \ (Filing \cup {"begin"}), l \in Locals :
              Become(p, label, l) /\ ~l.closed
         \/ \E label \in Labels \ (Filing \cup {"begin"}) : Go(p, label) /\ loc' = loc
  PROVE  Moves(p)
<1>0. Places /\ {"idle", "done", "seeded", "drop"} \cap Filing = {}
  BY TypeParts DEF Filing
<1>1. CASE Return(p)
  BY <1>0, <1>1, ReturnMoves DEF Moves
<1>2. ASSUME NEW label \in Labels \ (Filing \cup {"begin"}), NEW l \in Locals,
             Become(p, label, l), ~l.closed
      PROVE  Moves(p)
  BY <1>0, <1>2, BecomeMoves DEF Moves
<1>3. ASSUME NEW label \in Labels \ (Filing \cup {"begin"}), Go(p, label), loc' = loc
      PROVE  Moves(p)
  BY <1>0, <1>3, GoMoves DEF Moves
<1> QED BY <1>1, <1>2, <1>3

\* What else begins with Idle is open.
LEMMA IdleOpen ==
  ASSUME NEW ks \in SUBSET Keys, NEW next \in {"idle", "done", "seeded", "drop"}
  PROVE  /\ ~Idle.closed /\ ~[Idle EXCEPT !.keys = ks].closed
         /\ ~[Idle EXCEPT !.then = next].closed
         /\ ~[Idle EXCEPT !.keys = ks, !.then = next].closed
         /\ ~[Idle EXCEPT !.keys = ks, !.force = TRUE, !.then = next].closed
         /\ [Idle EXCEPT !.then = next] \in Locals
BY DEF Idle, Locals, Time

LEMMA DropMoves == ASSUME TypeOK, NEW p \in Procs, DropStep(p) PROVE Moves(p)
<1>0. /\ Records /\ Places
      /\ {"dropRefile", "dropAnnounced", "dropFile", "dropAgain", "offer"}
           \subseteq Labels \ (Filing \cup {"begin"})
      /\ Rest(p) \in {"idle", "done", "seeded", "drop"}
  BY TypeParts DEF Labels, Filing, Rest
<1>1. /\ UNCHANGED <<world, wentOffline, conn, pruneWith, reading>>
      /\ Before => reading' # "ready"
  BY DEF DropStep, dropLeftovers, DropRefile, DropAnnounced, DropFile, DropAgain, leftovers, Before
<1>2. CASE dropLeftovers(p)
  <2>1. leftover \ handed \subseteq Keys
    BY <1>0 DEF Records
  <2>2. /\ [Idle EXCEPT !.keys = leftover \ handed, !.then = Rest(p)] \in Locals
        /\ ~[Idle EXCEPT !.keys = leftover \ handed, !.then = Rest(p)].closed
    BY <1>0, <2>1, IdleIs, IdleOpen
  <2>3. Return(p) \/ Become(p, "dropRefile", [Idle EXCEPT !.keys = leftover \ handed, !.then = Rest(p)])
    BY <1>2 DEF dropLeftovers
  <2> QED BY <1>0, <1>1, <2>2, <2>3, PlainMoves
<1>3. CASE DropRefile(p) \/ DropAnnounced(p) \/ DropFile(p)
  <2>1. /\ Go(p, "dropAnnounced") \/ Go(p, "dropFile") \/ Go(p, "dropAgain")
        /\ loc' = loc
    BY <1>3 DEF DropRefile, DropAnnounced, DropFile
  <2> QED BY <1>0, <1>1, <2>1, PlainMoves
<1>4. CASE DropAgain(p)
  <2> DEFINE again == loc[p].keys \cap handed
  <2>1. again \subseteq Keys
    BY <1>0 DEF Records
  <2>2. /\ [Idle EXCEPT !.keys = again, !.force = TRUE, !.then = Rest(p)] \in Locals
        /\ ~[Idle EXCEPT !.keys = again, !.force = TRUE, !.then = Rest(p)].closed
    BY <1>0, <2>1, IdleIs, IdleOpen
  <2>3. Return(p) \/ Become(p, "offer", [Idle EXCEPT !.keys = again, !.force = TRUE, !.then = Rest(p)])
    BY <1>4 DEF DropAgain
  <2> QED BY <1>0, <1>1, <2>2, <2>3, PlainMoves
<1> QED BY <1>2, <1>3, <1>4 DEF DropStep

LEMMA RetryMoves ==
  ASSUME TypeOK, Tick \/ ReadStats \/ Settle \/ MarkAnnounced \/ ClearRefile
  PROVE  Moves("retry")
<1>0. /\ Records /\ Places /\ "retry" \in Procs
      /\ {"stats", "settle", "settled", "confirmed", "flush"}
           \subseteq Labels \ (Filing \cup {"begin"})
  BY TypeParts DEF Labels, Filing, Procs
<1>1. UNCHANGED <<world, wentOffline, conn, pruneWith>>
  BY DEF Tick, ReadStats, Settle, MarkAnnounced, ClearRefile, leftovers
<1>2. Before => reading' # "ready"
  <2>1. CASE ReadStats
    BY <2>1 DEF ReadStats, Before
  <2>2. CASE Tick \/ Settle \/ MarkAnnounced \/ ClearRefile
    BY <2>2 DEF Tick, Settle, MarkAnnounced, ClearRefile, Before
  <2> QED BY <2>1, <2>2
<1>3. Idle \in Locals /\ ~Idle.closed
  BY IdleIs, IdleOpen
<1>4. CASE Tick
  <2>1. (Go("retry", "stats") \/ Go("retry", "flush")) /\ loc' = loc
    BY <1>4 DEF Tick
  <2> QED BY <1>0, <1>1, <1>2, <2>1, PlainMoves
<1>5. CASE ReadStats
  <2>1. Become("retry", "flush", Idle) \/ (Go("retry", "settle") /\ loc' = loc)
    BY <1>5 DEF ReadStats
  <2> QED BY <1>0, <1>1, <1>2, <1>3, <2>1, PlainMoves
<1>6. CASE Settle
  <2>1. \E ks \in SUBSET Keys :
          Become("retry", "flush", Idle) \/ Become("retry", "settled", [Idle EXCEPT !.keys = ks])
    BY <1>6 DEF Settle
  <2>2. PICK ks \in SUBSET Keys :
          Become("retry", "flush", Idle) \/ Become("retry", "settled", [Idle EXCEPT !.keys = ks])
    BY <2>1
  <2>3. [Idle EXCEPT !.keys = ks] \in Locals /\ ~[Idle EXCEPT !.keys = ks].closed
    BY IdleIs, IdleOpen
  <2> QED BY <1>0, <1>1, <1>2, <1>3, <2>2, <2>3, PlainMoves
<1>7. CASE MarkAnnounced
  <2>1. Go("retry", "confirmed") /\ loc' = loc
    BY <1>7 DEF MarkAnnounced
  <2> QED BY <1>0, <1>1, <1>2, <2>1, PlainMoves
<1>8. CASE ClearRefile
  <2>1. Become("retry", "flush", Idle)
    BY <1>8 DEF ClearRefile
  <2> QED BY <1>0, <1>1, <1>2, <1>3, <2>1, PlainMoves
<1> QED BY <1>4, <1>5, <1>6, <1>7, <1>8

LEMMA OpenMoves ==
  ASSUME TypeOK, OpenProvider \/ List \/ UseProvider \/ restoreRefiles
  PROVE  Moves("open")
<1>0. /\ Records /\ Places /\ "open" \in Procs
      /\ {"use", "list", "restore", "drop", "offer"} \subseteq Labels \ (Filing \cup {"begin"})
  BY TypeParts DEF Labels, Filing, Procs
<1>1. CASE OpenProvider
  <2>1. /\ Go("open", "use") \/ Go("open", "list")
        /\ loc' = loc /\ pc["open"] = "begin" /\ conn' # "online"
        /\ UNCHANGED <<world, wentOffline, reading>>
    BY <1>1 DEF OpenProvider
  <2>2. (pc'["open"] = "use" \/ pc'["open"] = "list") /\ \A q \in Procs \ {"open"} : pc'[q] = pc[q]
    BY <1>0, <2>1, GoMoves
  <2> QED BY <1>0, <2>1, <2>2 DEF Moves, Before
<1>2. CASE List \/ UseProvider
  <2>1. /\ Go("open", "use") \/ Go("open", "restore")
        /\ loc' = loc
        /\ UNCHANGED <<world, wentOffline, conn, pruneWith, reading>>
    BY <1>2 DEF List, UseProvider, leftovers
  <2> QED BY <1>0, <2>1, PlainMoves DEF Before
<1>3. CASE restoreRefiles
  <2> DEFINE l == [Idle EXCEPT !.keys = refile, !.force = TRUE, !.then = "drop"]
             m == [Idle EXCEPT !.then = "done"]
  <2>1. refile \subseteq Keys
    BY <1>0 DEF Records
  <2>2. l \in Locals /\ ~l.closed /\ m \in Locals /\ ~m.closed
    BY <2>1, IdleIs, IdleOpen
  <2>3. /\ Become("open", "drop", m) \/ Become("open", "offer", l)
        /\ UNCHANGED <<world, wentOffline, conn, pruneWith, reading>>
    BY <1>3 DEF restoreRefiles, leftovers
  <2> HIDE DEF l, m
  <2> QED BY <1>0, <2>2, <2>3, PlainMoves DEF Before
<1> QED BY <1>1, <1>2, <1>3

LEMMA AppMoves ==
  ASSUME TypeOK, NEW a \in Apps,
         \/ Seeded(a) \/ StopRefile(a) \/ StopAnnounced(a) \/ StopFile(a)
         \/ runSeedAnnounce(a)
         \/ \E ks \in SUBSET Keys : Start(a, ks)
         \/ \E k \in Keys : Stop(a, k)
  PROVE  Moves(a)
<1>0. /\ Records /\ Places /\ a \in Procs
      /\ {"drop", "offer", "idle", "seeded", "stopRefile", "stopAnnounced", "stopFile"}
           \subseteq Labels \ (Filing \cup {"begin"})
  BY TypeParts DEF Labels, Filing, Procs
<1>1. UNCHANGED <<world, wentOffline, conn, pruneWith, reading>>
  BY DEF Seeded, StopRefile, StopAnnounced, StopFile, runSeedAnnounce, Start, Stop, HandOver,
         leftovers
<1>2. CASE Seeded(a) \/ StopRefile(a) \/ StopAnnounced(a)
  <2>1. /\ Go(a, "drop") \/ Go(a, "stopAnnounced") \/ Go(a, "stopFile")
        /\ loc' = loc
    BY <1>2 DEF Seeded, StopRefile, StopAnnounced
  <2> QED BY <1>0, <1>1, <2>1, PlainMoves DEF Before
<1>3. CASE StopFile(a)
  <2>1. Return(a)
    BY <1>3 DEF StopFile
  <2> QED BY <1>0, <1>1, <2>1, PlainMoves DEF Before
<1>4. ASSUME NEW ks \in SUBSET Keys, NEW next \in {"idle", "seeded"}, HandOver(a, ks, next)
      PROVE  Moves(a)
  <2> DEFINE l == [Idle EXCEPT !.keys = ks, !.then = next]
  <2>1. l \in Locals /\ ~l.closed /\ Idle \in Locals /\ ~Idle.closed
    BY IdleIs, IdleOpen
  <2>2. Become(a, next, Idle) \/ Become(a, "offer", l)
    BY <1>4 DEF HandOver
  <2> HIDE DEF l
  <2> QED BY <1>0, <1>1, <2>1, <2>2, PlainMoves DEF Before
<1>5. CASE runSeedAnnounce(a) \/ \E ks \in SUBSET Keys : Start(a, ks)
  <2>1. held \in SUBSET Keys
    BY <1>0 DEF Records
  <2> QED BY <1>4, <1>5, <2>1 DEF runSeedAnnounce, Start
<1>6. ASSUME NEW k \in Keys, Stop(a, k) PROVE Moves(a)
  <2> DEFINE l == [Idle EXCEPT !.keys = {k}]
  <2>1. l \in Locals /\ ~l.closed
    BY IdleIs, IdleOpen
  <2>2. Become(a, "stopRefile", l)
    BY <1>6 DEF Stop
  <2> HIDE DEF l
  <2> QED BY <1>0, <1>1, <2>1, <2>2, PlainMoves DEF Before
<1> QED BY <1>2, <1>3, <1>5, <1>6

\* A goroutine's step.
Step(p) ==
  \/ p \in Procs /\ (FlushStep(p) \/ DropStep(p))
  \/ p = "retry" /\ (Tick \/ ReadStats \/ Settle \/ MarkAnnounced \/ ClearRefile)
  \/ p = "open" /\ (OpenProvider \/ List \/ UseProvider \/ restoreRefiles)
  \/ /\ p \in Apps
     /\ \/ Seeded(p) \/ StopRefile(p) \/ StopAnnounced(p) \/ StopFile(p)
        \/ runSeedAnnounce(p)
        \/ \E ks \in SUBSET Keys : Start(p, ks)
        \/ \E k \in Keys : Stop(p, k)

LEMMA NextSteps ==
  ASSUME TypeOK, Next PROVE (\E p \in Procs : Step(p)) \/ Around \/ dropProvider \/ Crash
<1>1. "retry" \in Procs /\ "open" \in Procs /\ Apps \subseteq Procs
  BY DEF Procs
<1> QED BY <1>1, NextIs DEF Step

LEMMA StepMoves == ASSUME TypeOK, NEW p \in Procs, Step(p) PROVE Moves(p)
BY FlushMoves, DropMoves, RetryMoves, OpenMoves, AppMoves DEF Step

\* Connecting ends the time before it.
LEMMA AroundPhase ==
  ASSUME TypeOK, Phase, Around
  PROVE  Phase' /\ (~Connect /\ Before => Before')
<1>0. Records /\ Places /\ "open" \in Procs
  BY TypeParts DEF Procs
<1>1. CASE (\E k \in Keys : Announce(k)) \/ Disconnect \/ GoOffline \/ ReadingExpires
  <2>1. /\ UNCHANGED <<world, pruneWith, pc, loc>>
        /\ conn' = conn \/ (conn = "online" /\ conn' = "disconnected")
             \/ (conn = "disconnected" /\ conn' = "offline" /\ wentOffline' = TRUE)
        /\ wentOffline' = wentOffline \/ (conn' = "offline" /\ wentOffline' = TRUE)
        /\ reading' \in {reading, "none"}
    BY <1>1 DEF Announce, Disconnect, GoOffline, ReadingExpires, leftovers
  <2>2. conn = "disconnected" => pc["open"] # "begin"
    BY DEF Phase
  <2>3. Before => Before'
    BY <2>1 DEF Before
  <2>4. (pc["open"] = "begin" => conn = "offline" /\ ~wentOffline /\ ~pruneWith)'
    <3>1. CASE conn' = conn /\ wentOffline' = wentOffline
      BY <2>1, <3>1 DEF Phase
    <3>2. CASE conn # "offline"
      BY <2>1, <3>2 DEF Phase
    <3>3. CASE conn = "offline" /\ conn' = conn /\ wentOffline' # wentOffline
      BY <1>1, <3>3, <1>0 DEF Announce, Disconnect, GoOffline, ReadingExpires
    <3> QED BY <2>1, <3>1, <3>2, <3>3
  <2>5. (wentOffline => conn = "offline")' /\ (conn = "offline" /\ ~wentOffline => Before)'
    BY <1>1, <2>3 DEF Announce, Disconnect, GoOffline, ReadingExpires, Phase
  <2>6. (\A p \in Procs : ~loc[p].closed)'
    BY <2>1 DEF Phase
  <2> QED BY <2>3, <2>4, <2>5, <2>6 DEF Phase
<1>2. CASE Connect
  <2>1. /\ conn' = "online" /\ ~wentOffline' /\ pc' = pc /\ pruneWith
    BY <1>2 DEF Connect, noteOnline
  <2>2. \A p \in Procs : loc'[p] = loc[p] \/ loc'[p] = [loc[p] EXCEPT !.at = "lost"]
    BY <1>2 DEF Connect, noteOnline
  <2>3. \A p \in Procs : loc[p] \in Locals
    BY <1>0 DEF Places
  <2>4. (\A p \in Procs : ~loc[p].closed)'
    BY <2>2, <2>3 DEF Phase, Locals
  <2> QED BY <1>2, <2>1, <2>4 DEF Phase
<1> QED BY <1>1, <1>2 DEF Around

LEMMA StartPhase == ASSUME TypeOK, Crash PROVE Phase'
<1>1. /\ conn' = "offline" /\ wentOffline' = FALSE /\ pruneWith' = FALSE /\ reading' = "none"
      /\ \A p \in Procs : pc'[p] \in {"begin", "idle"} /\ loc'[p] = [Idle EXCEPT !.then = Rest(p)]
  BY DEF Crash
<1>2. \A p \in Procs : ~[Idle EXCEPT !.then = Rest(p)].closed
  BY DEF Idle
<1> QED BY <1>1, <1>2 DEF Phase, Before, Filing

LEMMA StepPhase == ASSUME TypeOK, Patient, Phase, [Next]_vars PROVE Phase'
<1>1. CASE UNCHANGED vars
  BY <1>1 DEF vars, leftovers, Phase, Before
<1>2. ~dropProvider
  BY DEF dropProvider, Patient
<1> QED BY <1>1, <1>2, NextSteps, StepMoves, MovesPhase, AroundPhase, StartPhase

LEMMA InitPhase == ASSUME Init PROVE Phase
<1>1. /\ conn = "offline" /\ wentOffline = FALSE /\ pruneWith = FALSE /\ reading = "none"
      /\ \A p \in Procs : pc[p] \in {"begin", "idle"} /\ loc[p] = [Idle EXCEPT !.then = Rest(p)]
  BY DEF Init
<1>2. \A p \in Procs : ~[Idle EXCEPT !.then = Rest(p)].closed
  BY DEF Idle
<1> QED BY <1>1, <1>2 DEF Phase, Before, Filing

\* What a flush has taken over.
Taken(p) == loc[p].fresh \cup loc[p].forced

\* The opening goroutine is yet to offer what is marked.
ToOffer(k) ==
  \/ pc["open"] \in {"begin", "list", "use", "restore"} /\ k \in refile
  \/ /\ pc["open"] = "offer" /\ loc["open"].then = "drop"
     /\ loc["open"].force /\ k \in loc["open"].keys

\* What counts as announced is.
Settled(k) ==
  /\ k \in announced => k \in sent
  /\ \A p \in Procs : pc[p] = "unmark" /\ k \in loc[p].track => k \in sent
  /\ pc["retry"] \in {"settled", "confirmed"} /\ k \in loc["retry"].keys => k \in sent
  /\ pc["retry"] = "settle" /\ kept /\ snap[k] = "kept" => k \in sent

\* Announced, or about to be, or it was lost and the node knows.
Underway(k) == k \in sent \/ k \in queue \/ wentOffline

\* An empty queue online tells that what is to be confirmed was announced.
Confirmable(k) ==
  /\ unconfirmed[k] = "kept" => Underway(k)
  /\ pc["retry"] = "stats" /\ snap[k] = "kept" => Underway(k)

\* What a flush does with the keys it took.
Carried(p, k) ==
  /\ Flushing(p) /\ k \in Taken(p) =>
       pending[k] # "none" \/ unconfirmed[k] # "none" \/ k \in sent
  /\ pc[p] \in Filing \ {"mark"} /\ k \in loc[p].track => k \in Taken(p)
  /\ pc[p] \in Filing \ {"mark"} /\ k \in Taken(p) =>
       k \in sent \/ (k \in loc[p].track /\ k \in refile)
  /\ pc[p] \in {"force", "record"} /\ k \in loc[p].fresh => Underway(k)
  /\ pc[p] = "record" /\ k \in loc[p].forced => Underway(k)

\* A filed key that is not announced is marked, and in memory it waits for its
\* confirmation, for a forced hand-over, or for the flush that is filing it.
Known(k) ==
  k \in keystore \ sent =>
    /\ k \in refile
    /\ \/ unconfirmed[k] # "none" \/ pending[k] = "force" \/ ToOffer(k)
       \/ /\ pending[k] = "fresh"
          /\ \E p \in Procs : pc[p] \in Filing \ {"mark"} /\ k \in loc[p].track

\* One that the provider would not announce by itself is handed over forced:
\* as long as a flush did not do so, its mark stays, and none has it as fresh.
Forced(k) ==
  k \in keystore /\ ~Underway(k) =>
    \/ Before /\ (pending[k] = "force" \/ ToOffer(k))
    \/ /\ pending[k] = "force"
       /\ \A p \in Procs : /\ Flushing(p) => k \notin loc[p].fresh
                           /\ pc[p] = "record" => k \notin loc[p].forced

KeyInv(k) ==
  /\ Settled(k) /\ Confirmable(k) /\ Known(k) /\ Forced(k)
  /\ \A p \in Procs : Carried(p, k)

\* The provider and the node leave the key alone.
Untouched(k) ==
  /\ k \in keystore' <=> k \in keystore
  /\ k \in sent' <=> k \in sent
  /\ k \in queue' <=> k \in queue
  /\ wentOffline' = wentOffline
  /\ pending'[k] = pending[k] /\ unconfirmed'[k] = unconfirmed[k]

\* A goroutine that files and settles nothing, and leaves the key alone.
LEMMA CalmKey ==
  ASSUME NEW k \in Keys, NEW p \in Procs, KeyInv(k), Moves(p), Untouched(k), Before => Before',
         k \in refile => k \in refile' \/ k \in sent, k \in announced' => k \in announced,
         p = "retry" \/ UNCHANGED <<snap, kept>>,
         pc[p] \notin Filing \ {"mark"}, pc'[p] \notin Active,
         p = "open" /\ ToOffer(k) => ToOffer(k)' \/ k \in sent
  PROVE  KeyInv(k)'
<1>0. /\ \A q \in Procs \ {p} : pc'[q] = pc[q] /\ loc'[q] = loc[q]
      /\ {"retry", "open"} \subseteq Procs
      /\ pc'[p] \notin {"unmark", "settled", "confirmed", "settle", "stats", "ready", "mark",
                       "file", "force", "record"}
  BY DEF Moves, Procs, Active, Filing
<1>1. ToOffer(k) => ToOffer(k)' \/ k \in sent
  BY <1>0 DEF ToOffer
<1>2. Underway(k)' <=> Underway(k)
  BY DEF Underway, Untouched
<1>3. Settled(k)'
  BY <1>0 DEF KeyInv, Settled, Untouched
<1>4. Confirmable(k)'
  BY <1>0, <1>2 DEF KeyInv, Confirmable, Untouched
<1>5. Known(k)'
  BY <1>0, <1>1 DEF KeyInv, Known, Untouched
<1>6. Forced(k)'
  BY <1>0, <1>1, <1>2 DEF KeyInv, Forced, Untouched, Flushing, Underway
<1>7. ASSUME NEW q \in Procs PROVE Carried(q, k)'
  <2>1. CASE q = p
    BY <1>0, <2>1 DEF Carried, Flushing, Filing
  <2>2. CASE q # p
    BY <1>0, <1>2, <2>2 DEF KeyInv, Carried, Untouched, Flushing, Taken
  <2> QED BY <2>1, <2>2
<1> QED BY <1>3, <1>4, <1>5, <1>6, <1>7 DEF KeyInv

\* What is known of the key is not lost by what a goroutine does.
Secure(k) ==
  /\ k \in sent => k \in sent'
  /\ Underway(k) => Underway(k)'
  /\ k \in refile => k \in refile' \/ k \in sent'
  /\ pending[k] # "none" \/ unconfirmed[k] # "none" \/ k \in sent
       => pending'[k] # "none" \/ unconfirmed'[k] # "none" \/ k \in sent'

\* Then what is to be shown is about the goroutine that moves.
LEMMA KeyStep ==
  ASSUME NEW k \in Keys, NEW p \in Procs, KeyInv(k), Moves(p), Secure(k),
         k \in announced' => k \in announced \/ k \in sent',
         pc'[p] = "unmark" /\ k \in loc'[p].track => k \in sent',
         p # "retry" => UNCHANGED <<snap, kept>>,
         p = "retry" /\ pc'[p] \in {"settled", "confirmed"} /\ k \in loc'[p].keys => k \in sent',
         p = "retry" /\ pc'[p] = "settle" /\ kept' /\ snap'[k] = "kept" => k \in sent',
         p = "retry" /\ pc'[p] = "stats" /\ snap'[k] = "kept" => Underway(k)',
         unconfirmed'[k] = "kept" => Underway(k)',
         Known(k)', Forced(k)', Carried(p, k)'
  PROVE  KeyInv(k)'
<1>0. /\ \A q \in Procs \ {p} : pc'[q] = pc[q] /\ loc'[q] = loc[q]
      /\ "retry" \in Procs
  BY DEF Moves, Procs
<1>1. Settled(k)'
  BY <1>0 DEF KeyInv, Settled, Secure
<1>2. Confirmable(k)'
  BY <1>0 DEF KeyInv, Confirmable, Secure
<1>3. ASSUME NEW q \in Procs \ {p} PROVE Carried(q, k)'
  BY <1>0 DEF KeyInv, Carried, Secure, Flushing, Taken
<1> QED BY <1>1, <1>2, <1>3 DEF KeyInv

LEMMA FlushKey ==
  ASSUME TypeOK, Phase, NEW k \in Keys, NEW p \in Procs, KeyInv(k), FlushStep(p)
  PROVE  KeyInv(k)'
<1>0. /\ Records /\ Places /\ loc[p] \in Locals /\ Moves(p) /\ (Before => Before')
      /\ {"flush", "ready", "mark", "file", "force", "record", "unmark"} \subseteq Labels
      /\ {"idle", "done", "seeded", "drop"} \cap Active = {}
      /\ Carried(p, k) /\ ~loc[p].closed /\ {"retry", "open"} \subseteq Procs
      /\ \A q \in Procs \ {p} : pc'[q] = pc[q] /\ loc'[q] = loc[q]
  BY TypeParts, FlushMoves, MovesPhase DEF Places, Labels, Active, Filing, KeyInv, Phase, Procs, Moves
<1> USE DEF marks, external, leftovers, confirming
<1>1. CASE offerProvides(p)
  <2>1. /\ UNCHANGED <<refile, announced, keystore, sent, queue, unconfirmed, wentOffline, snap, kept>>
        /\ pc[p] = "offer" /\ pc'[p] = "flush"
        /\ pending'[k] \in {pending[k], "force", "fresh"}
        /\ pending[k] = "force" => pending'[k] = "force"
        /\ loc[p].force /\ k \in loc[p].keys => pending'[k] = "force"
        /\ pending[k] = "fresh" => pending'[k] \in {"fresh", "force"}
    BY <1>0, <1>1 DEF offerProvides, Become, Go, Places
  <2>2. Secure(k)
    BY <2>1 DEF Secure, Underway
  <2>3. ToOffer(k) => ToOffer(k)' \/ pending'[k] = "force"
    BY <1>0, <2>1 DEF ToOffer
  <2>4. Known(k)'
    BY <1>0, <2>1, <2>3 DEF KeyInv, Known, Filing
  <2>5. Forced(k)'
    BY <1>0, <2>1, <2>3 DEF KeyInv, Forced, Underway, Flushing
  <2>6. Carried(p, k)'
    BY <2>1 DEF Carried, Flushing, Filing
  <2>7. unconfirmed'[k] = "kept" => Underway(k)'
    BY <2>1 DEF KeyInv, Confirmable, Underway
  <2> QED BY <1>0, <2>1, <2>2, <2>4, <2>5, <2>6, <2>7, KeyStep
<1>2. CASE (pc[p] = "flush" \/ pc[p] = "ready" \/ pc[p] = "unmark") /\ Return(p)
           /\ (Flush(p) \/ providerReady(p) \/ Unmark(p))
  <2>1. Untouched(k) /\ UNCHANGED <<announced, snap, kept>>
    BY <1>2 DEF Flush, providerReady, Unmark, Untouched
  <2>2. k \in refile => k \in refile' \/ k \in sent
    BY <1>2 DEF Flush, providerReady, Unmark, KeyInv, Settled
  <2>3. pc'[p] \notin Active
    BY <1>0, <1>2, ReturnMoves
  <2>4. p = "open" => ~ToOffer(k)
    BY <1>2 DEF ToOffer
  <2>5. pc[p] \notin Filing \ {"mark"}
    BY <1>2 DEF Filing
  <2> QED BY <1>0, <2>1, <2>2, <2>3, <2>4, <2>5, CalmKey
<1>3. CASE Flush(p) /\ ~Return(p)
  <2> DEFINE fr == {j \in Keys : pending[j] = "fresh"}
             fo == {j \in Keys : pending[j] = "force"}
  <2>1. /\ UNCHANGED <<refile, announced, keystore, sent, queue, pending, unconfirmed, wentOffline,
                        snap, kept>>
        /\ pc[p] = "flush" /\ pc'[p] = "ready" /\ loc'[p] = [loc[p] EXCEPT !.fresh = fr, !.forced = fo]
    BY <1>0, <1>3 DEF Flush, Become, Go, Places
  <2>2. loc'[p].fresh = fr /\ loc'[p].forced = fo
    BY <1>0, <2>1 DEF Locals
  <2>3. ToOffer(k) => ToOffer(k)'
    BY <1>0, <2>1 DEF ToOffer
  <2>4. Secure(k)
    BY <2>1 DEF Secure, Underway
  <2>5. Known(k)'
    BY <1>0, <2>1, <2>3 DEF KeyInv, Known, Filing
  <2>6. Forced(k)'
    BY <1>0, <2>1, <2>2, <2>3 DEF KeyInv, Forced, Underway, Flushing
  <2>7. Carried(p, k)'
    BY <2>1, <2>2 DEF Carried, Flushing, Filing, Taken
  <2>8. unconfirmed'[k] = "kept" => Underway(k)'
    BY <2>1 DEF KeyInv, Confirmable, Underway
  <2> QED BY <1>0, <2>1, <2>4, <2>5, <2>6, <2>7, <2>8, KeyStep
<1>4. CASE providerReady(p) /\ ~Return(p)
  <2>1. /\ UNCHANGED <<refile, announced, keystore, sent, queue, pending, unconfirmed, wentOffline,
                        loc, snap, kept>>
        /\ pc[p] = "ready" /\ pc'[p] = "mark"
    BY <1>0, <1>4 DEF providerReady, Go, Places
  <2>3. ToOffer(k) => ToOffer(k)'
    BY <1>0, <2>1 DEF ToOffer
  <2>4. Secure(k)
    BY <2>1 DEF Secure, Underway
  <2>5. Known(k)'
    BY <1>0, <2>1, <2>3 DEF KeyInv, Known, Filing
  <2>6. Forced(k)'
    BY <1>0, <2>1, <2>3 DEF KeyInv, Forced, Underway, Flushing
  <2>7. Carried(p, k)'
    BY <1>0, <2>1 DEF Carried, Flushing, Filing, Taken
  <2>8. unconfirmed'[k] = "kept" => Underway(k)'
    BY <2>1 DEF KeyInv, Confirmable, Underway
  <2> QED BY <1>0, <2>1, <2>4, <2>5, <2>6, <2>7, <2>8, KeyStep
<1>5. CASE Mark(p)
  <2> DEFINE tr == (loc[p].fresh \ announced) \cup loc[p].forced
             label == IF loc[p].fresh # {} THEN "file" ELSE "force"
  <2>1. /\ UNCHANGED <<announced, keystore, sent, queue, pending, unconfirmed, wentOffline, snap, kept>>
        /\ pc[p] = "mark" /\ pc'[p] = label /\ loc'[p] = [loc[p] EXCEPT !.track = tr]
        /\ refile' = refile \cup tr
    BY <1>0, <1>5 DEF Mark, Become, Go, Places
  <2>2. loc'[p].fresh = loc[p].fresh /\ loc'[p].forced = loc[p].forced /\ loc'[p].track = tr
    BY <1>0, <2>1 DEF Locals
  <2>3. ToOffer(k) => ToOffer(k)'
    BY <1>0, <2>1 DEF ToOffer
  <2>4. Secure(k)
    BY <2>1 DEF Secure, Underway
  <2>5. Known(k)'
    BY <1>0, <2>1, <2>3 DEF KeyInv, Known, Filing
  <2>6. Forced(k)'
    BY <1>0, <2>1, <2>2, <2>3 DEF KeyInv, Forced, Underway, Flushing
  <2>7. Carried(p, k)'
    <3>1. k \in announced => k \in sent
      BY DEF KeyInv, Settled
    <3> QED BY <1>0, <2>1, <2>2, <3>1 DEF Carried, Flushing, Filing, Taken
  <2>8. unconfirmed'[k] = "kept" => Underway(k)'
    BY <2>1 DEF KeyInv, Confirmable, Underway
  <2> QED BY <1>0, <2>1, <2>4, <2>5, <2>6, <2>7, <2>8, KeyStep
<1>6. CASE File(p) \/ FileForced(p)
  <2>0. /\ ~Before /\ Flushing(p) /\ pc[p] \in Filing \ {"mark"}
        /\ conn = "offline" => wentOffline
    BY <1>6 DEF File, FileForced, Before, Flushing, Filing, Phase
  <2>1. PICK ks \in SUBSET Taken(p) :
          /\ UNCHANGED <<refile, announced, pending, unconfirmed, wentOffline, loc, snap, kept>>
          /\ keystore' = keystore \cup ks /\ sent' = sent \ (ks \ keystore)
          /\ queue \subseteq queue'
          /\ conn # "offline" => ks \ keystore \subseteq queue'
          /\ pc'[p] \in {"force", "record"}
          /\ \/ pc[p] = "file" /\ ks = loc[p].fresh /\ (pc'[p] = "record" => loc[p].forced = {})
             \/ /\ pc[p] = "force" /\ ks = loc[p].forced /\ pc'[p] = "record"
                /\ conn # "offline" => ks \subseteq queue'
    <3>1. CASE File(p)
      BY <1>0, <3>1 DEF File, StartProviding, Go, Places, Taken
    <3>2. CASE FileForced(p)
      BY <1>0, <3>2 DEF FileForced, StartProviding, Go, Places, Taken
    <3> QED BY <1>6, <3>1, <3>2
  <2>2. k \in ks /\ k \notin keystore => Underway(k)' /\ k \notin sent
    BY <1>0, <2>0, <2>1 DEF Underway, Records
  <2>3. ToOffer(k) => ToOffer(k)'
    BY <1>0, <2>0, <2>1 DEF ToOffer, Filing
  <2>4. Secure(k)
    BY <1>0, <2>1 DEF Secure, Underway, Records
  <2>5. Known(k)'
    <3>1. CASE k \in keystore \ sent
      <4>1. k \in refile /\ \A q \in Procs : pc[q] \in Filing \ {"mark"} => pc'[q] \in Filing \ {"mark"}
        BY <1>0, <2>1, <3>1 DEF KeyInv, Known, Filing
      <4> QED BY <2>1, <2>3, <3>1, <4>1 DEF KeyInv, Known
    <3>2. CASE k \in keystore' \ sent' /\ k \notin keystore
      <4>1. k \in loc[p].track /\ k \in refile /\ (pending[k] # "none" \/ unconfirmed[k] # "none")
        BY <1>0, <2>0, <2>1, <2>2, <3>2 DEF Carried
      <4>2. pending[k] \in {"none", "fresh", "force"}
        BY <1>0 DEF Records
      <4>3. pc'[p] \in Filing \ {"mark"}
        BY <2>1 DEF Filing
      <4> QED BY <2>1, <4>1, <4>2, <4>3 DEF Known
    <3> QED BY <1>0, <2>1, <3>1, <3>2 DEF Known, Records
  <2>6. \/ ~(k \in keystore /\ ~Underway(k))
        \/ /\ pending[k] = "force"
           /\ \A q \in Procs : /\ Flushing(q) => k \notin loc[q].fresh
                               /\ pc[q] = "record" => k \notin loc[q].forced
    BY <2>0 DEF KeyInv, Forced
  <2>7. k \in ks => Underway(k)'
    <3>1. CASE k \notin keystore
      BY <2>2, <3>1
    <3>2. CASE Underway(k)
      BY <2>4, <3>2 DEF Secure
    <3>3. CASE k \in keystore /\ ~Underway(k)
      BY <2>0, <2>1, <2>6, <3>3 DEF Underway
    <3> QED BY <3>1, <3>2, <3>3
  <2>8. Forced(k)'
    <3>1. CASE k \in keystore /\ ~Underway(k) /\ ~Underway(k)'
      <4>1. \A q \in Procs : Flushing(q)' => k \notin loc'[q].fresh
        BY <1>0, <2>0, <2>1, <2>6, <3>1 DEF Flushing
      <4>2. pc'[p] = "record" => k \notin loc'[p].forced
        BY <2>1, <2>7, <3>1
      <4>3. \A q \in Procs : pc'[q] = "record" => k \notin loc'[q].forced
        BY <1>0, <2>1, <2>6, <3>1, <4>2
      <4> QED BY <2>1, <2>6, <3>1, <4>1, <4>3 DEF Forced
    <3>2. CASE k \notin keystore
      BY <2>1, <2>2, <3>2 DEF Forced
    <3>3. CASE Underway(k) \/ Underway(k)'
      BY <2>4, <3>3 DEF Forced, Secure
    <3> QED BY <3>1, <3>2, <3>3
  <2>9. Carried(p, k)'
    <3>1. (Flushing(p) /\ k \in Taken(p) =>
             pending[k] # "none" \/ unconfirmed[k] # "none" \/ k \in sent)'
      BY <1>0, <2>0, <2>1, <2>4 DEF Carried, Secure, Taken
    <3>2. (pc[p] \in Filing \ {"mark"} /\ k \in loc[p].track => k \in Taken(p))'
      BY <1>0, <2>0, <2>1 DEF Carried, Taken
    <3>3. (pc[p] \in Filing \ {"mark"} /\ k \in Taken(p) =>
             k \in sent \/ (k \in loc[p].track /\ k \in refile))'
      BY <1>0, <2>0, <2>1, <2>4 DEF Carried, Taken, Secure
    <3>4. (pc[p] \in {"force", "record"} /\ k \in loc[p].fresh => Underway(k))'
      BY <1>0, <2>1, <2>4, <2>7 DEF Carried, Secure
    <3>5. (pc[p] = "record" /\ k \in loc[p].forced => Underway(k))'
      BY <1>0, <2>1, <2>4, <2>7 DEF Carried, Secure
    <3> QED BY <3>1, <3>2, <3>3, <3>4, <3>5 DEF Carried
  <2>10. unconfirmed'[k] = "kept" => Underway(k)'
    BY <2>1, <2>4 DEF KeyInv, Confirmable, Secure
  <2> QED BY <1>0, <2>1, <2>4, <2>5, <2>8, <2>9, <2>10, KeyStep
<1>7. CASE Record(p)
  <2> DEFINE mine == {j \in loc[p].track : pending[j] # "none"}
             gone == {j \in loc[p].track \ mine : unconfirmed[j] = "none"}
  <2>0. ~Before /\ Flushing(p) /\ pc[p] \in Filing \ {"mark"} /\ pc[p] = "record"
    BY <1>7 DEF Record, Before, Flushing, Filing
  <2>1. /\ UNCHANGED <<refile, announced, keystore, sent, queue, wentOffline, snap, kept>>
        /\ unconfirmed'[k] = IF k \in mine THEN loc[p].at ELSE unconfirmed[k]
        /\ pending'[k] = IF k \in Taken(p) THEN "none" ELSE pending[k]
        /\ Return(p) \/ Become(p, "unmark", [loc[p] EXCEPT !.track = gone])
    BY <1>7 DEF Record, With, Taken
  <2>2. \/ pc'[p] \notin Active
        \/ pc'[p] = "unmark" /\ loc'[p].track = gone
    <3>1. CASE Return(p)
      BY <1>0, <3>1, ReturnMoves
    <3>2. CASE Become(p, "unmark", [loc[p] EXCEPT !.track = gone])
      <4>1. pc'[p] = "unmark" /\ loc'[p] = [loc[p] EXCEPT !.track = gone]
        BY <1>0, <3>2 DEF Become, Go, Places
      <4> QED BY <1>0, <4>1 DEF Locals
    <3> QED BY <2>1, <3>1, <3>2
  <2>3. loc[p].at # "none" /\ pending[k] \in {"none", "fresh", "force"}
    BY <1>0, LocalsAre DEF Time, Records
  <2>4. /\ k \in Taken(p) => k \in loc[p].track \/ k \in sent
        /\ k \in loc[p].track => k \in Taken(p)
        /\ k \in Taken(p) => pending[k] # "none" \/ unconfirmed[k] # "none" \/ k \in sent
        /\ k \in Taken(p) => Underway(k)
    BY <1>0, <2>0 DEF Carried, Taken
  <2>5. k \in gone => k \in sent
    BY <2>4
  <2>6. Secure(k)
    BY <2>1, <2>3, <2>4 DEF Secure, Underway
  <2>7. unconfirmed'[k] = "kept" => Underway(k)'
    <3>1. CASE k \in mine
      BY <2>4, <2>6, <3>1 DEF Secure
    <3>2. CASE k \notin mine
      BY <2>1, <2>6, <3>2 DEF Secure, KeyInv, Confirmable
    <3> QED BY <3>1, <3>2
  <2>8. ToOffer(k) => ToOffer(k)'
    BY <1>0, <2>0, <2>1 DEF ToOffer
  <2>9. Known(k)'
    <3> SUFFICES ASSUME k \in keystore \ sent PROVE Known(k)'
      BY <2>1 DEF Known
    <3>1. CASE k \in Taken(p)
      BY <2>1, <2>3, <2>4, <3>1 DEF Known, KeyInv
    <3>2. CASE k \notin Taken(p)
      <4>1. k \notin loc[p].track
        BY <2>4, <3>2
      <4>2. \A q \in Procs : pc[q] \in Filing \ {"mark"} /\ k \in loc[q].track
                               => pc'[q] = pc[q] /\ loc'[q] = loc[q]
        BY <1>0, <4>1
      <4> QED BY <2>1, <2>8, <3>2, <4>1, <4>2 DEF Known, KeyInv
    <3> QED BY <3>1, <3>2
  <2>10. Forced(k)'
    <3> SUFFICES ASSUME k \in keystore, ~Underway(k), ~Underway(k)' PROVE Forced(k)'
      BY <2>1, <2>6 DEF Forced, Secure
    <3>1. /\ pending[k] = "force"
          /\ \A q \in Procs : /\ Flushing(q) => k \notin loc[q].fresh
                              /\ pc[q] = "record" => k \notin loc[q].forced
      BY <2>0 DEF KeyInv, Forced
    <3>2. k \notin Taken(p)
      BY <2>4
    <3>3. ~Flushing(p)' /\ pc'[p] # "record"
      BY <2>2 DEF Flushing, Active, Filing
    <3>4. \A q \in Procs : /\ Flushing(q)' => k \notin loc'[q].fresh
                           /\ pc'[q] = "record" => k \notin loc'[q].forced
      BY <1>0, <3>1, <3>3 DEF Flushing
    <3> QED BY <2>1, <3>1, <3>2, <3>4 DEF Forced
  <2>11. Carried(p, k)'
    <3>1. ~Flushing(p)' /\ pc'[p] \notin Filing
      BY <2>2 DEF Flushing, Active, Filing
    <3> QED BY <3>1 DEF Carried, Filing
  <2>12. /\ pc'[p] \notin {"settled", "confirmed", "settle", "stats"}
         /\ pc'[p] = "unmark" /\ k \in loc'[p].track => k \in sent'
    BY <2>1, <2>2, <2>5 DEF Active
  <2> QED BY <1>0, <2>1, <2>6, <2>7, <2>9, <2>10, <2>11, <2>12, KeyStep
<1> QED
  <2>1. CASE Flush(p) \/ providerReady(p) \/ Unmark(p)
    <3>1. /\ Flush(p) => pc[p] = "flush"
          /\ providerReady(p) => pc[p] = "ready"
          /\ Unmark(p) => pc[p] = "unmark" /\ Return(p)
      BY DEF Flush, providerReady, Unmark
    <3> QED BY <1>2, <1>3, <1>4, <2>1, <3>1
  <2>2. CASE offerProvides(p) \/ Mark(p) \/ File(p) \/ FileForced(p) \/ Record(p)
    BY <1>1, <1>5, <1>6, <1>7, <2>2
  <2> QED BY <2>1, <2>2 DEF FlushStep

LEMMA DropKey ==
  ASSUME TypeOK, HandsInv, Phase, NEW k \in Safe, NEW p \in Procs, KeyInv(k), DropStep(p)
  PROVE  KeyInv(k)'
<1>0. /\ Records /\ Places /\ Moves(p) /\ (Before => Before') /\ k \in Keys
      /\ {"idle", "done", "seeded", "drop", "dropRefile", "dropAnnounced", "dropFile",
          "dropAgain", "offer"} \cap Active = {}
      /\ {"dropRefile", "dropAnnounced", "dropFile", "dropAgain", "offer"} \subseteq Labels
  BY TypeParts, DropMoves, MovesPhase DEF Active, Filing, Safe, Labels
<1>1. pc[p] \in {"dropRefile", "dropAnnounced", "dropFile"} => k \notin loc[p].keys
  BY DEF HandsInv, Fits, Letting
<1>2. UNCHANGED <<wentOffline, snap, kept>>
  BY DEF DropStep, dropLeftovers, DropRefile, DropAnnounced, DropFile, DropAgain, confirming
<1>3. Untouched(k)
  <2>1. CASE dropLeftovers(p)
    <3>1. seeded => k \notin leftover \ handed
      BY DEF HandsInv, KnownHeld, Complete, Sure
    <3>2. /\ UNCHANGED <<keystore, sent, queue>>
          /\ pending'[k] = pending[k] /\ unconfirmed'[k] = unconfirmed[k]
      BY <1>0, <2>1, <3>1 DEF dropLeftovers, With, external
    <3> QED BY <1>2, <3>2 DEF Untouched
  <2>2. CASE DropRefile(p) \/ DropAnnounced(p) \/ DropAgain(p)
    BY <1>2, <2>2 DEF DropRefile, DropAnnounced, DropAgain, external, Untouched
  <2>3. CASE DropFile(p)
    BY <1>1, <1>2, <2>3 DEF DropFile, StopProviding, external, Untouched
  <2> QED BY <2>1, <2>2, <2>3 DEF DropStep
<1>4. (k \in refile => k \in refile') /\ (k \in announced' => k \in announced)
  <2>1. CASE dropLeftovers(p) \/ DropFile(p) \/ DropAgain(p)
    BY <2>1 DEF dropLeftovers, DropFile, DropAgain, marks
  <2>2. CASE DropRefile(p) \/ DropAnnounced(p)
    BY <1>1, <2>2 DEF DropRefile, DropAnnounced
  <2> QED BY <2>1, <2>2 DEF DropStep
<1>5. pc'[p] \notin Active
  <2>1. \/ Return(p)
        \/ \E label \in {"dropRefile", "offer"} : \E l : Become(p, label, l)
        \/ \E label \in {"dropAnnounced", "dropFile", "dropAgain"} : Go(p, label)
    BY DEF DropStep, dropLeftovers, DropRefile, DropAnnounced, DropFile, DropAgain
  <2>2. CASE Return(p)
    BY <1>0, <2>2, ReturnMoves
  <2>3. CASE \E label \in {"dropRefile", "offer"} : \E l : Become(p, label, l)
    BY <1>0, <2>3 DEF Become, Go, Places
  <2>4. CASE \E label \in {"dropAnnounced", "dropFile", "dropAgain"} : Go(p, label)
    BY <1>0, <2>4 DEF Go, Places
  <2> QED BY <2>1, <2>2, <2>3, <2>4
<1>6. pc[p] \in {"drop", "dropRefile", "dropAnnounced", "dropFile", "dropAgain"}
  BY DEF DropStep, dropLeftovers, DropRefile, DropAnnounced, DropFile, DropAgain
<1>7. pc[p] \notin Filing /\ (p = "open" => ~ToOffer(k))
  BY <1>6 DEF Filing, ToOffer
<1> QED BY <1>0, <1>2, <1>3, <1>4, <1>5, <1>7, CalmKey

LEMMA AppKey ==
  ASSUME TypeOK, HandsInv, Phase, NEW k \in Safe, NEW a \in Apps, KeyInv(k),
         \/ Seeded(a) \/ StopRefile(a) \/ StopAnnounced(a) \/ StopFile(a)
         \/ runSeedAnnounce(a)
         \/ \E ks \in SUBSET Keys : Start(a, ks)
         \/ \E j \in Keys : Stop(a, j)
  PROVE  KeyInv(k)'
<1>0. /\ Records /\ Places /\ Moves(a) /\ (Before => Before') /\ k \in Keys /\ a \in Procs
      /\ {"idle", "done", "seeded", "drop", "stopRefile", "stopAnnounced", "stopFile",
          "offer"} \cap Active = {}
      /\ a # "open"
  BY TypeParts, AppMoves, MovesPhase, ProvideAssumption DEF Active, Filing, Safe, Procs
<1>1. pc[a] \in {"stopRefile", "stopAnnounced", "stopFile"} => k \notin loc[a].keys
  BY <1>0 DEF HandsInv, Fits, Letting
<1>2. UNCHANGED <<wentOffline, snap, kept>>
  BY DEF Seeded, StopRefile, StopAnnounced, StopFile, runSeedAnnounce, Start, Stop, HandOver, confirming
<1>3. Untouched(k) /\ (k \in refile => k \in refile') /\ (k \in announced' => k \in announced)
  <2>1. CASE Seeded(a) \/ runSeedAnnounce(a) \/ \E ks \in SUBSET Keys : Start(a, ks)
    BY <1>2, <2>1 DEF Seeded, runSeedAnnounce, Start, HandOver, external, marks, Untouched
  <2>2. CASE StopRefile(a) \/ StopAnnounced(a)
    BY <1>1, <1>2, <2>2 DEF StopRefile, StopAnnounced, external, Untouched
  <2>3. CASE StopFile(a)
    BY <1>1, <1>2, <2>3 DEF StopFile, StopProviding, external, marks, Untouched
  <2>4. ASSUME NEW j \in Keys, Stop(a, j)
        PROVE  Untouched(k) /\ (k \in refile => k \in refile') /\ (k \in announced' => k \in announced)
    <3>1. j # k
      BY <2>4 DEF Stop, Safe
    <3>2. pending'[k] = pending[k] /\ unconfirmed'[k] = unconfirmed[k]
      BY <1>0, <2>4, <3>1 DEF Stop, Records
    <3> QED BY <1>2, <2>4, <3>2 DEF Stop, external, marks, Untouched
  <2> QED BY <2>1, <2>2, <2>3, <2>4
<1>4. pc'[a] \notin Active
  <2>1. \/ Return(a)
        \/ \E label \in {"idle", "seeded", "offer", "stopRefile"} : \E l : Become(a, label, l)
        \/ \E label \in {"drop", "stopAnnounced", "stopFile"} : Go(a, label)
    BY DEF Seeded, StopRefile, StopAnnounced, StopFile, runSeedAnnounce, Start, Stop, HandOver
  <2>2. CASE Return(a)
    BY <1>0, <2>2, ReturnMoves
  <2>3. CASE \E label \in {"idle", "seeded", "offer", "stopRefile"} : \E l : Become(a, label, l)
    BY <1>0, <2>3 DEF Become, Go, Places
  <2>4. CASE \E label \in {"drop", "stopAnnounced", "stopFile"} : Go(a, label)
    BY <1>0, <2>4 DEF Go, Places
  <2> QED BY <2>1, <2>2, <2>3, <2>4
<1>5. pc[a] \in {"idle", "seeded", "stopRefile", "stopAnnounced", "stopFile"}
  BY DEF Seeded, StopRefile, StopAnnounced, StopFile, runSeedAnnounce, Start, Stop
<1>6. pc[a] \notin Filing
  BY <1>5 DEF Filing
<1> QED BY <1>0, <1>2, <1>3, <1>4, <1>6, CalmKey

LEMMA OpenKey ==
  ASSUME TypeOK, Phase, NEW k \in Keys, KeyInv(k),
         OpenProvider \/ List \/ UseProvider \/ restoreRefiles
  PROVE  KeyInv(k)'
<1> DEFINE p == "open"
<1>0. /\ Records /\ Places /\ Moves(p) /\ (Before => Before') /\ p \in Procs
      /\ {"use", "list", "restore", "drop", "offer"} \cap Active = {}
  BY TypeParts, OpenMoves, MovesPhase DEF Active, Filing, Procs
<1>1. UNCHANGED <<wentOffline, snap, kept, refile, announced>> /\ Untouched(k)
  BY DEF OpenProvider, List, UseProvider, restoreRefiles, confirming, external, marks, Untouched
<1>2. pc[p] \notin Filing /\ pc'[p] \notin Active
  <2>1. pc[p] \in {"begin", "list", "use", "restore"}
    BY DEF OpenProvider, List, UseProvider, restoreRefiles
  <2>2. pc'[p] \in {"use", "list", "restore", "drop", "offer"}
    BY <1>0 DEF OpenProvider, List, UseProvider, restoreRefiles, Become, Go, Places
  <2> QED BY <1>0, <2>1, <2>2 DEF Filing
<1>3. ToOffer(k) => ToOffer(k)'
  <2>1. CASE OpenProvider \/ List \/ UseProvider
    <3>1. pc'[p] \in {"use", "list", "restore"}
      BY <1>0, <2>1 DEF OpenProvider, List, UseProvider, Go, Places
    <3>2. pc[p] # "offer"
      BY <2>1 DEF OpenProvider, List, UseProvider
    <3> QED BY <1>1, <3>1, <3>2 DEF ToOffer
  <2>2. CASE restoreRefiles
    <3> DEFINE l == [Idle EXCEPT !.keys = refile, !.force = TRUE, !.then = "drop"]
    <3>1. l.keys = refile /\ l.force = TRUE /\ l.then = "drop"
      BY DEF Idle
    <3>2. refile = {} \/ (pc'[p] = "offer" /\ loc'[p] = l)
      BY <1>0, <2>2 DEF restoreRefiles, Become, Go, Places
    <3>3. pc[p] = "restore"
      BY <2>2 DEF restoreRefiles
    <3> QED BY <3>1, <3>2, <3>3 DEF ToOffer
  <2> QED BY <2>1, <2>2
<1> QED BY <1>0, <1>1, <1>2, <1>3, CalmKey

LEMMA RetryKey ==
  ASSUME TypeOK, Phase, NEW k \in Keys, KeyInv(k),
         Tick \/ ReadStats \/ Settle \/ MarkAnnounced \/ ClearRefile
  PROVE  KeyInv(k)'
<1> DEFINE p == "retry"
<1>0. /\ Records /\ Places /\ Moves(p) /\ (Before => Before') /\ {p, "open"} \subseteq Procs
      /\ p # "open" /\ {"flush"} \cap Active = {}
      /\ \A q \in Procs \ {p} : pc'[q] = pc[q] /\ loc'[q] = loc[q]
  BY TypeParts, RetryMoves, MovesPhase DEF Active, Filing, Procs, Moves
<1>1. /\ UNCHANGED <<keystore, sent, queue, wentOffline>>
      /\ pc[p] \in {"idle", "stats", "settle", "settled", "confirmed"}
  BY DEF Tick, ReadStats, Settle, MarkAnnounced, ClearRefile, external
<1>2. pc[p] \notin Filing /\ ~Flushing(p)
  BY <1>1 DEF Filing, Flushing
<1>3. CASE pc'[p] = "flush" /\ (Tick \/ ReadStats \/ ClearRefile)
  <2>1. Untouched(k) /\ announced' = announced
    BY <1>1, <1>3 DEF Tick, ReadStats, ClearRefile, marks, Untouched
  <2>2. k \in refile => k \in refile' \/ k \in sent
    BY <1>3 DEF Tick, ReadStats, ClearRefile, marks, KeyInv, Settled
  <2> QED BY <1>0, <1>2, <1>3, <2>1, <2>2, CalmKey
<1>4. CASE pc'[p] # "flush" /\ (Tick \/ ReadStats \/ MarkAnnounced)
  <2>1. /\ UNCHANGED <<refile, pending, unconfirmed, loc>>
        /\ pc'[p] \in {"stats", "settle", "confirmed"}
    BY <1>0, <1>4 DEF Tick, ReadStats, MarkAnnounced, Become, Go, Places, marks
  <2>2. Secure(k)
    BY <1>1, <2>1 DEF Secure, Underway
  <2>3. k \in announced' => k \in announced \/ k \in sent'
    BY <1>1, <1>4 DEF Tick, ReadStats, MarkAnnounced, marks, KeyInv, Settled
  <2>4. pc'[p] = "confirmed" /\ k \in loc'[p].keys => k \in sent'
    <3>1. pc'[p] = "confirmed" => pc[p] = "settled"
      BY <1>0, <1>4 DEF Tick, ReadStats, MarkAnnounced, Become, Go, Places
    <3> QED BY <1>1, <2>1, <3>1 DEF KeyInv, Settled
  <2>5. pc'[p] = "settle" /\ kept' /\ snap'[k] = "kept" => k \in sent'
    <3> SUFFICES ASSUME pc'[p] = "settle", kept', snap'[k] = "kept" PROVE k \in sent'
      OBVIOUS
    <3>1. ReadStats
      BY <1>0, <1>4 DEF Tick, MarkAnnounced, Go, Places
    <3>2. ~Become("retry", "flush", Idle)
      BY <1>0, <1>4 DEF Become, Go, Places
    <3>3. pc[p] = "stats" /\ snap' = snap /\ conn # "offline" /\ queue = {}
      BY <3>1, <3>2 DEF ReadStats
    <3>4. Underway(k) /\ ~wentOffline
      BY <3>3 DEF KeyInv, Confirmable, Phase
    <3> QED BY <1>1, <3>3, <3>4 DEF Underway
  <2>6. pc'[p] = "stats" /\ snap'[k] = "kept" => Underway(k)'
    <3>1. pc'[p] = "stats" => snap' = unconfirmed
      BY <1>0, <1>4 DEF Tick, ReadStats, MarkAnnounced, Become, Go, Places
    <3> QED BY <2>2, <3>1 DEF KeyInv, Confirmable, Secure
  <2>7. unconfirmed'[k] = "kept" => Underway(k)'
    BY <2>1, <2>2 DEF KeyInv, Confirmable, Secure
  <2>8. ToOffer(k) => ToOffer(k)'
    BY <1>0, <2>1 DEF ToOffer
  <2>9. Known(k)'
    BY <1>0, <1>1, <1>2, <2>1, <2>8 DEF KeyInv, Known
  <2>10. ~Flushing(p)' /\ pc'[p] \notin Filing /\ pc'[p] \notin {"unmark", "settled"}
    BY <2>1 DEF Flushing, Filing
  <2>11. Forced(k)'
    BY <1>0, <1>1, <2>1, <2>8, <2>10 DEF KeyInv, Forced, Underway, Flushing, Filing
  <2>12. Carried(p, k)'
    BY <2>10 DEF Carried, Filing
  <2> QED BY <1>0, <2>2, <2>3, <2>4, <2>5, <2>6, <2>7, <2>9, <2>10, <2>11, <2>12, KeyStep
<1>5. CASE Settle
  <2> DEFINE known == {j \in Keys : snap[j] # "none" /\ unconfirmed[j] # "none"}
             done == {j \in known : kept /\ snap[j] = "kept"}
  <2>1. /\ UNCHANGED <<refile, announced>> /\ pc[p] = "settle"
        /\ unconfirmed'[k] = IF k \in known THEN "none" ELSE unconfirmed[k]
        /\ pending'[k] = IF k \in known \ done THEN "force" ELSE pending[k]
        /\ \/ Become("retry", "flush", Idle)
           \/ Become("retry", "settled", [Idle EXCEPT !.keys = done])
    BY <1>5 DEF Settle, With, marks, confirming
  <2>2. k \in done => k \in sent
    BY <2>1 DEF KeyInv, Settled
  <2>3. /\ pc'[p] \in {"flush", "settled"}
        /\ pc'[p] = "settled" => loc'[p].keys = done
    BY <1>0, <2>1 DEF Become, Go, Places, Idle
  <2>4. Secure(k)
    BY <1>1, <2>1, <2>2 DEF Secure, Underway
  <2>5. unconfirmed'[k] = "kept" => Underway(k)'
    BY <2>1, <2>4 DEF KeyInv, Confirmable, Secure
  <2>6. ToOffer(k) => ToOffer(k)'
    BY <1>0, <2>1 DEF ToOffer
  <2>7. Known(k)'
    <3> SUFFICES ASSUME k \in keystore \ sent PROVE Known(k)'
      BY <1>1 DEF Known
    <3>1. CASE k \in known
      BY <2>1, <2>2, <3>1 DEF KeyInv, Known
    <3>2. CASE k \notin known
      BY <1>0, <1>1, <1>2, <2>1, <2>6, <3>2 DEF KeyInv, Known
    <3> QED BY <3>1, <3>2
  <2>8. ~Flushing(p)' /\ pc'[p] \notin Filing
        /\ pc'[p] \notin {"unmark", "confirmed", "settle", "stats"}
    BY <2>3 DEF Flushing, Filing
  <2>9. Forced(k)'
    BY <1>0, <1>1, <2>1, <2>6, <2>8 DEF KeyInv, Forced, Underway, Flushing, Filing
  <2>10. Carried(p, k)'
    BY <2>8 DEF Carried, Filing
  <2>11. pc'[p] = "settled" /\ k \in loc'[p].keys => k \in sent'
    BY <1>1, <2>2, <2>3
  <2> QED BY <1>0, <2>1, <2>4, <2>5, <2>7, <2>8, <2>9, <2>10, <2>11, KeyStep
<1>6. (ClearRefile => pc'[p] = "flush") /\ (MarkAnnounced => pc'[p] # "flush")
  BY <1>0 DEF ClearRefile, MarkAnnounced, Become, Go, Places
<1> QED BY <1>3, <1>4, <1>5, <1>6

LEMMA ConnectKey ==
  ASSUME TypeOK, Patient, Phase, NEW k \in Keys, KeyInv(k), Connect
  PROVE  KeyInv(k)'
<1>0. Records /\ Places /\ {"retry", "open"} \subseteq Procs
  BY TypeParts DEF Procs
<1>1. /\ UNCHANGED <<refile, announced, keystore, sent, queue, pending, pc, kept>>
      /\ wentOffline' = FALSE /\ pruneWith
      /\ \A p \in Procs : ~Flushing(p)
      /\ ~Restoring
      /\ wentOffline => unconfirmed[k] = "none"
  BY DEF Connect, noteOnline, Patient, marks, external
<1>2. /\ snap'[k] = IF wentOffline /\ snap[k] # "none" THEN "lost" ELSE snap[k]
      /\ unconfirmed'[k] = IF wentOffline /\ unconfirmed[k] # "none" THEN "lost" ELSE unconfirmed[k]
      /\ \A p \in Procs : loc'[p] = loc[p] \/ loc'[p] = [loc[p] EXCEPT !.at = "lost"]
  BY DEF Connect, noteOnline, Lost
<1>3. \A p \in Procs : /\ loc'[p].keys = loc[p].keys /\ loc'[p].track = loc[p].track
                       /\ loc'[p].fresh = loc[p].fresh /\ loc'[p].forced = loc[p].forced
  <2> SUFFICES ASSUME NEW p \in Procs
               PROVE  /\ loc'[p].keys = loc[p].keys /\ loc'[p].track = loc[p].track
                      /\ loc'[p].fresh = loc[p].fresh /\ loc'[p].forced = loc[p].forced
    OBVIOUS
  <2>1. loc[p] \in Locals
    BY <1>0 DEF Places
  <2> QED BY <1>2, <2>1 DEF Locals
<1>4. Settled(k)'
  BY <1>0, <1>1, <1>2, <1>3 DEF KeyInv, Settled
<1>5. Confirmable(k)'
  BY <1>1, <1>2 DEF KeyInv, Confirmable, Underway
<1>6. ~ToOffer(k) /\ \A p \in Procs : pc[p] \notin Filing
  <2>1. pc["open"] # "begin"
    BY <1>1 DEF Phase
  <2> QED BY <1>1, <2>1 DEF ToOffer, Restoring, Flushing, Filing
<1>7. k \in keystore \ sent => k \in refile /\ (unconfirmed[k] # "none" \/ pending[k] = "force")
  BY <1>6 DEF KeyInv, Known
<1>8. Known(k)'
  BY <1>1, <1>2, <1>7 DEF Known
<1>9. Forced(k)'
  <2> SUFFICES ASSUME k \in keystore, k \notin sent, k \notin queue PROVE pending[k] = "force"
    BY <1>1, <1>6 DEF Forced, Underway, Flushing, Filing
  <2>1. CASE wentOffline
    BY <1>1, <1>7, <2>1
  <2>2. CASE ~wentOffline
    BY <1>6, <2>2 DEF KeyInv, Forced, Underway
  <2> QED BY <2>1, <2>2
<1>10. \A p \in Procs : Carried(p, k)'
  BY <1>1, <1>6 DEF Carried, Flushing, Filing
<1> QED BY <1>4, <1>5, <1>8, <1>9, <1>10 DEF KeyInv

LEMMA AroundKey ==
  ASSUME TypeOK, Patient, Phase, NEW k \in Keys, KeyInv(k), Around
  PROVE  KeyInv(k)'
<1>1. CASE Connect
  BY <1>1, ConnectKey
<1>2. CASE (\E j \in Keys : Announce(j)) \/ Disconnect \/ GoOffline \/ ReadingExpires
  <2>1. /\ UNCHANGED <<refile, announced, keystore, pending, unconfirmed, pc, loc, snap, kept>>
        /\ k \in sent => k \in sent'
        /\ Underway(k) => Underway(k)'
    BY <1>2 DEF Announce, Disconnect, GoOffline, ReadingExpires, marks, external, confirming,
                Underway
  <2>2. Before => Before' \/ Connect
    BY <1>2, AroundPhase DEF Around
  <2>3. Settled(k)' /\ Confirmable(k)'
    BY <2>1 DEF KeyInv, Settled, Confirmable
  <2>4. ToOffer(k)' <=> ToOffer(k)
    BY <2>1 DEF ToOffer
  <2>5. Known(k)'
    BY <2>1, <2>4 DEF KeyInv, Known
  <2>6. CASE ~Connect
    <3>1. Forced(k)'
      BY <2>1, <2>2, <2>4, <2>6 DEF KeyInv, Forced, Flushing
    <3>2. \A p \in Procs : Carried(p, k)'
      BY <2>1 DEF KeyInv, Carried, Taken, Flushing
    <3> QED BY <2>3, <2>5, <3>1, <3>2 DEF KeyInv
  <2> QED BY <1>1, <2>6
<1> QED BY <1>1, <1>2 DEF Around

LEMMA CrashKey ==
  ASSUME TypeOK, NEW k \in Keys, KeyInv(k), Crash
  PROVE  KeyInv(k)'
<1>1. /\ UNCHANGED <<refile, announced, keystore, sent>> /\ conn' = "offline" /\ wentOffline' = FALSE
      /\ reading' = "none" /\ unconfirmed'[k] = "none" /\ pc'["open"] = "begin"
      /\ \A p \in Procs : pc'[p] \in {"begin", "idle"}
      /\ pc'["retry"] = "idle"
  BY DEF Crash, marks, Procs
<1>2. k \in keystore \ sent => k \in refile
  BY DEF KeyInv, Known
<1>3. Before'
  BY <1>1 DEF Before, Filing
<1>4. k \in keystore \ sent => ToOffer(k)'
  BY <1>1, <1>2 DEF ToOffer
<1>5. Settled(k)' /\ Confirmable(k)'
  BY <1>1 DEF KeyInv, Settled, Confirmable
<1>6. Known(k)' /\ Forced(k)'
  BY <1>1, <1>2, <1>3, <1>4 DEF Known, Forced, Underway
<1>7. \A p \in Procs : Carried(p, k)'
  BY <1>1 DEF Carried, Flushing, Filing
<1> QED BY <1>5, <1>6, <1>7 DEF KeyInv

LEMMA InitKey == ASSUME Init, NEW k \in Keys PROVE KeyInv(k)
<1>1. /\ conn = "offline" /\ reading = "none" /\ unconfirmed[k] = "none"
      /\ \A p \in Procs : pc[p] \in {"begin", "idle"}
      /\ pc["open"] = "begin" /\ pc["retry"] = "idle"
      /\ announced \subseteq sent /\ keystore \ sent \subseteq refile
  BY DEF Init, EarlierRuns, Procs
<1>2. Before
  BY <1>1 DEF Before, Filing
<1>3. k \in keystore \ sent => ToOffer(k)
  BY <1>1 DEF ToOffer
<1>4. Settled(k) /\ Confirmable(k)
  BY <1>1 DEF Settled, Confirmable
<1>5. Known(k) /\ Forced(k)
  BY <1>1, <1>2, <1>3 DEF Known, Forced, Underway
<1>6. \A p \in Procs : Carried(p, k)
  BY <1>1 DEF Carried, Flushing, Filing
<1> QED BY <1>4, <1>5, <1>6 DEF KeyInv

\* In a world of the node's pace, the safe keys have their invariant.
MemoryInv == Patient => Phase /\ \A k \in Safe : KeyInv(k)

LEMMA StepMemory == ASSUME TypeOK, HandsInv, MemoryInv, [Next]_vars PROVE MemoryInv'
<1>1. world' = world /\ Safe' = Safe
  <2>1. ASSUME NEW p \in Procs, Step(p) PROVE world' = world
    BY <2>1, StepMoves DEF Moves
  <2>2. Around \/ dropProvider \/ Crash => world' = world
    BY DEF Around, Announce, Connect, Disconnect, GoOffline, ReadingExpires, dropProvider, Crash
  <2>3. world' = world
    BY <2>1, <2>2, NextSteps DEF vars
  <2> QED BY <2>3 DEF Safe
<1> SUFFICES ASSUME Patient PROVE Phase' /\ \A k \in Safe : KeyInv(k)'
  BY <1>1 DEF MemoryInv, Patient
<1>2. Phase /\ \A k \in Safe : KeyInv(k)
  BY DEF MemoryInv
<1>3. Phase'
  BY <1>2, StepPhase
<1>4. ASSUME NEW k \in Safe PROVE KeyInv(k)'
  <2>1. k \in Keys /\ KeyInv(k)
    BY <1>2 DEF Safe
  <2>2. CASE UNCHANGED vars
    BY <2>1, <2>2 DEF vars, marks, external, leftovers, confirming, KeyInv, Settled, Confirmable,
                      Known, Forced, Carried, Underway, ToOffer, Taken, Flushing, Before
  <2>3. ASSUME NEW p \in Procs, Step(p) PROVE KeyInv(k)'
    BY <1>2, <2>1, <2>3, FlushKey, DropKey, AppKey, OpenKey, RetryKey DEF Step
  <2>4. ~dropProvider
    BY DEF dropProvider, Patient
  <2> QED BY <1>2, <2>1, <2>2, <2>3, <2>4, NextSteps, AroundKey, CrashKey
<1> QED BY <1>3, <1>4

-----------------------------------------------------------------------------
(* Where the provider never comes online, nothing is filed or confirmed.   *)

Barren ==
  world.spells = "endless" =>
    /\ Before /\ \A k \in Keys : unconfirmed[k] = "none"
    /\ \A p \in Procs : pc[p] \notin {"unmark", "settled", "confirmed"}
    /\ FiledIsRemembered

\* A goroutine's step there: it neither confirms nor files, and takes marks of
\* what it lets go of only.
MarksStay(p) ==
  /\ \A k \in Keys : unconfirmed'[k] = "none"
  /\ pc'[p] \notin {"unmark", "settled", "confirmed"}
  /\ \A k \in Safe : k \in keystore' \ sent' => k \in keystore \ sent
  /\ \A k \in Safe : k \in refile => k \in refile'

LEMMA BarrenMarks ==
  ASSUME TypeOK, HandsInv, Barren, world.spells = "endless", NEW p \in Procs, Step(p)
  PROVE  MarksStay(p)
<1>0. /\ Records /\ Places /\ Moves(p) /\ {"retry", "open"} \subseteq Procs
      /\ world' = world /\ Safe' = Safe /\ Before
      /\ pc[p] \notin Filing /\ pc[p] \notin {"unmark", "settled", "confirmed"}
      /\ \A k \in Keys : unconfirmed[k] = "none"
      /\ \A q \in Procs \ {p} : pc'[q] = pc[q] /\ loc'[q] = loc[q]
      /\ pc[p] \in Letting => loc[p].keys \cap Safe = {}
  BY TypeParts, StepMoves DEF Moves, Procs, Barren, Before, Safe, HandsInv, Fits
<1> USE DEF marks, external, leftovers, confirming, MarksStay
<1>1. CASE FlushStep(p)
  <2>1. CASE offerProvides(p)
    BY <1>0, <2>1 DEF offerProvides, Become, Go, Places
  <2>2. CASE Flush(p) \/ providerReady(p)
    <3>1. UNCHANGED <<refile, keystore, sent, unconfirmed>>
      BY <2>2 DEF Flush, providerReady
    <3>2. pc'[p] \in {"ready", "mark", "idle", "done", "seeded", "drop"}
      BY <1>0, <2>2, ReturnMoves DEF Flush, providerReady, Become, Go, Places
    <3> QED BY <1>0, <3>1, <3>2
  <2>3. ~(Mark(p) \/ File(p) \/ FileForced(p) \/ Record(p) \/ Unmark(p))
    BY <1>0 DEF Mark, File, FileForced, Record, Unmark, Filing
  <2> QED BY <1>1, <2>1, <2>2, <2>3 DEF FlushStep
<1>2. CASE DropStep(p)
  <2>1. CASE dropLeftovers(p)
    <3>1. UNCHANGED <<refile, keystore, sent>> /\ \A k \in Keys : unconfirmed'[k] = "none"
      BY <1>0, <2>1 DEF dropLeftovers, With
    <3>2. pc'[p] \in {"dropRefile", "idle", "done", "seeded", "drop"}
      BY <1>0, <2>1, ReturnMoves DEF dropLeftovers, Become, Go, Places
    <3> QED BY <1>0, <3>1, <3>2
  <2>2. CASE DropRefile(p)
    BY <1>0, <2>2 DEF DropRefile, Go, Places, Letting
  <2>3. CASE DropAnnounced(p)
    BY <1>0, <2>3 DEF DropAnnounced, Go, Places
  <2>4. CASE DropFile(p)
    BY <1>0, <2>4 DEF DropFile, StopProviding, Go, Places
  <2>5. CASE DropAgain(p)
    <3>1. UNCHANGED <<refile, keystore, sent, unconfirmed>>
      BY <2>5 DEF DropAgain
    <3>2. pc'[p] \in {"offer", "idle", "done", "seeded", "drop"}
      BY <1>0, <2>5, ReturnMoves DEF DropAgain, Become, Go, Places
    <3> QED BY <1>0, <3>1, <3>2
  <2> QED BY <1>2, <2>1, <2>2, <2>3, <2>4, <2>5 DEF DropStep
<1>3. CASE p = "retry" /\ (Tick \/ ReadStats \/ Settle \/ MarkAnnounced \/ ClearRefile)
  <2>1. ~MarkAnnounced /\ ~ClearRefile
    BY <1>0, <1>3 DEF MarkAnnounced, ClearRefile
  <2>2. CASE Tick \/ ReadStats
    BY <1>0, <1>3, <2>2 DEF Tick, ReadStats, Become, Go, Places
  <2>3. CASE Settle
    <3>1. UNCHANGED <<refile, keystore, sent>> /\ \A k \in Keys : unconfirmed'[k] = "none"
      BY <1>0, <2>3 DEF Settle, With
    <3>2. {j \in {j \in Keys : snap[j] # "none" /\ unconfirmed[j] # "none"} :
             kept /\ snap[j] = "kept"} = {}
      BY <1>0
    <3>3. pc'[p] = "flush"
      BY <1>0, <1>3, <2>3, <3>2 DEF Settle, Become, Go, Places
    <3> QED BY <3>1, <3>3
  <2> QED BY <1>3, <2>1, <2>2, <2>3
<1>4. CASE p = "open" /\ (OpenProvider \/ List \/ UseProvider \/ restoreRefiles)
  <2>1. UNCHANGED <<refile, keystore, sent, unconfirmed>>
    BY <1>4 DEF OpenProvider, List, UseProvider, restoreRefiles
  <2>2. pc'[p] \in {"use", "list", "restore", "drop", "offer"}
    BY <1>0, <1>4 DEF OpenProvider, List, UseProvider, restoreRefiles, Become, Go, Places
  <2> QED BY <1>0, <2>1, <2>2
<1>5. CASE /\ p \in Apps
           /\ \/ Seeded(p) \/ StopRefile(p) \/ StopAnnounced(p) \/ StopFile(p)
              \/ runSeedAnnounce(p)
              \/ \E ks \in SUBSET Keys : Start(p, ks)
              \/ \E j \in Keys : Stop(p, j)
  <2>1. CASE Seeded(p) \/ StopAnnounced(p)
    BY <1>0, <2>1 DEF Seeded, StopAnnounced, Go, Places
  <2>2. CASE StopRefile(p)
    BY <1>0, <2>2 DEF StopRefile, Go, Places, Letting
  <2>3. CASE StopFile(p)
    <3>1. pc'[p] \in {"idle", "done", "seeded", "drop"}
      BY <1>0, <2>3, ReturnMoves DEF StopFile
    <3> QED BY <1>0, <2>3, <3>1 DEF StopFile, StopProviding
  <2>4. CASE runSeedAnnounce(p) \/ \E ks \in SUBSET Keys : Start(p, ks)
    <3>1. UNCHANGED <<refile, keystore, sent, unconfirmed>>
      BY <2>4 DEF runSeedAnnounce, Start, HandOver
    <3>2. pc'[p] \in {"idle", "seeded", "offer"}
      BY <1>0, <2>4 DEF runSeedAnnounce, Start, HandOver, Become, Go, Places
    <3> QED BY <1>0, <3>1, <3>2
  <2>5. ASSUME NEW j \in Keys, Stop(p, j) PROVE MarksStay(p)
    <3>1. UNCHANGED <<refile, keystore, sent>> /\ \A k \in Keys : unconfirmed'[k] = "none"
      BY <1>0, <2>5 DEF Stop, Records
    <3>2. pc'[p] = "stopRefile"
      BY <1>0, <2>5 DEF Stop, Become, Go, Places
    <3> QED BY <3>1, <3>2
  <2> QED BY <1>5, <2>1, <2>2, <2>3, <2>4, <2>5
<1> QED BY <1>1, <1>2, <1>3, <1>4, <1>5 DEF Step

LEMMA BarrenStep ==
  ASSUME TypeOK, HandsInv, Barren, world.spells = "endless", NEW p \in Procs, Step(p)
  PROVE  Barren'
<1>1. /\ Moves(p) /\ MarksStay(p) /\ Safe' = Safe /\ Before
      /\ \A q \in Procs \ {p} : pc'[q] = pc[q]
  BY StepMoves, BarrenMarks DEF Moves, Barren, Safe
<1>2. Before'
  BY <1>1 DEF Moves, Before
<1>3. (\A k \in Keys : unconfirmed[k] = "none")'
      /\ \A q \in Procs : pc'[q] \notin {"unmark", "settled", "confirmed"}
  BY <1>1 DEF MarksStay, Barren
<1>4. FiledIsRemembered'
  <2>1. \A k \in Safe : k \in keystore \ sent => k \in refile
    BY DEF Barren, FiledIsRemembered, Safe
  <2>2. SUFFICES ASSUME NEW k \in Safe, k \in keystore' \ sent' PROVE k \in refile'
    BY <1>1 DEF FiledIsRemembered, Safe
  <2>3. k \in Keys /\ k \in keystore \ sent /\ (k \in refile => k \in refile')
    BY <1>1, <2>2 DEF MarksStay, Safe
  <2> QED BY <2>1, <2>3
<1> QED BY <1>2, <1>3, <1>4 DEF Barren

LEMMA StepBarren == ASSUME TypeOK, HandsInv, Barren, [Next]_vars PROVE Barren'
<1>1. world' = world
  <2>1. ASSUME NEW p \in Procs, Step(p) PROVE world' = world
    BY <2>1, StepMoves DEF Moves
  <2>2. Around \/ dropProvider \/ Crash => world' = world
    BY DEF Around, Announce, Connect, Disconnect, GoOffline, ReadingExpires, dropProvider, Crash
  <2> QED BY <2>1, <2>2, NextSteps DEF vars
<1> SUFFICES ASSUME world.spells = "endless" PROVE Barren'
  BY <1>1 DEF Barren
<1> USE DEF marks, external, leftovers, confirming
<1>2. Records /\ Places /\ {"retry", "open"} \subseteq Procs
  BY TypeParts DEF Procs
<1>3. /\ Before /\ \A k \in Keys : unconfirmed[k] = "none"
      /\ \A p \in Procs : pc[p] \notin {"unmark", "settled", "confirmed"}
      /\ FiledIsRemembered
  BY DEF Barren
<1>4. CASE UNCHANGED vars
  BY <1>4 DEF vars, Barren, Before, FiledIsRemembered
<1>5. ASSUME NEW p \in Procs, Step(p) PROVE Barren'
  BY <1>5, BarrenStep
<1>6. CASE (\E k \in Keys : Announce(k)) \/ Disconnect \/ Connect
  BY <1>3, <1>6 DEF Announce, Disconnect, Connect, Before
<1>7. CASE GoOffline \/ ReadingExpires
  <2>1. /\ UNCHANGED <<world, refile, keystore, sent, unconfirmed, pc>>
        /\ conn' # "online" /\ reading' # "ready"
    BY <1>3, <1>7 DEF GoOffline, ReadingExpires, Before
  <2> QED BY <1>3, <2>1 DEF Barren, Before, FiledIsRemembered
<1>8. CASE dropProvider
  <2>1. /\ UNCHANGED <<world, refile, keystore, sent, unconfirmed, conn, reading>>
        /\ \A p \in Procs : pc'[p] \in {pc[p], "begin"}
    BY <1>2, <1>8 DEF dropProvider, Places
  <2>2. \A p \in Procs : pc'[p] \notin Filing \cup {"unmark", "settled", "confirmed"}
    BY <1>3, <2>1 DEF Before, Filing
  <2> QED BY <1>3, <2>1, <2>2 DEF Barren, Before, FiledIsRemembered
<1>9. CASE Crash
  <2>1. /\ UNCHANGED <<world, refile, keystore, sent>> /\ \A k \in Keys : unconfirmed'[k] = "none"
        /\ conn' = "offline" /\ reading' = "none"
        /\ \A p \in Procs : pc'[p] \in {"begin", "idle"}
    BY <1>9 DEF Crash
  <2>2. \A p \in Procs : pc'[p] \notin Filing \cup {"unmark", "settled", "confirmed"}
    BY <2>1 DEF Filing
  <2> QED BY <1>3, <2>1, <2>2 DEF Barren, Before, FiledIsRemembered
<1> QED BY <1>4, <1>5, <1>6, <1>7, <1>8, <1>9, NextSteps DEF Around

LEMMA InitBarren == Init => Barren
<1> SUFFICES ASSUME Init PROVE Barren
  OBVIOUS
<1>1. /\ conn = "offline" /\ reading = "none" /\ \A k \in Keys : unconfirmed[k] = "none"
      /\ \A p \in Procs : pc[p] \in {"begin", "idle"}
      /\ keystore \ sent \subseteq refile
  BY DEF Init, EarlierRuns
<1>2. \A p \in Procs : pc[p] \notin Filing \cup {"unmark", "settled", "confirmed"}
  BY <1>1 DEF Filing
<1> QED BY <1>1, <1>2 DEF Barren, Before, FiledIsRemembered

\* Where the node reads every Offline spell and opens one provider, or where the
\* provider never comes online, a key that was filed and never announced has
\* its refile mark at every step, so that whatever ends the process the next
\* one hands it over forced (flushProvides, confirmUnconfirmed, restoreRefiles).
THEOREM FiledStaysMarked ==
  ASSUME \A w \in Worlds : w.spells = "endless" \/ (w.spells = "long" /\ ~w.retries)
  PROVE  Spec => []FiledIsRemembered
<1>1. Init => MemoryInv
  BY InitKey, InitPhase DEF MemoryInv, Safe
<1>2. TypeOK /\ MemoryInv /\ Barren => FiledIsRemembered
  <2> SUFFICES ASSUME TypeOK, MemoryInv, Barren PROVE FiledIsRemembered
    OBVIOUS
  <2>1. world.spells = "endless" \/ Patient
    BY DEF TypeOK, Patient
  <2>2. CASE Patient
    BY <2>2 DEF MemoryInv, KeyInv, Known, FiledIsRemembered, Safe
  <2> QED BY <2>1, <2>2 DEF Barren
<1> QED BY <1>1, <1>2, InitTypes, StepTypes, InitHands, StepHands, StepMemory, InitBarren,
           StepBarren, PTL DEF Spec

\* Where the node reads every Offline spell and opens one provider, what it holds for
\* announced was announced, so that no later hand-over passes over a key that was not
\* (confirmUnconfirmed and announcedNS); of keys that are stopped it is not said.
THEOREM AnnouncedWasAnnounced ==
  ASSUME \A w \in Worlds : w.spells = "long" /\ ~w.retries
  PROVE  Spec => [](\A k \in Safe : k \in announced => k \in sent)
<1> DEFINE Was == \A k \in Safe : k \in announced => k \in sent
<1>1. Init => MemoryInv
  BY InitKey, InitPhase DEF MemoryInv, Safe
<1>2. TypeOK /\ MemoryInv => Was
  BY DEF TypeOK, Patient, MemoryInv, KeyInv, Settled
<1>3. TypeOK /\ HandsInv /\ MemoryInv /\ [Next]_vars => MemoryInv'
  BY StepMemory
<1> HIDE DEF Was
<1>4. Spec => []Was
  BY <1>1, <1>2, <1>3, InitTypes, StepTypes, InitHands, StepHands, PTL DEF Spec
<1> QED BY <1>4 DEF Was

(* What is forgotten.  A flush that had read a key as pending may write its *)
(* mark after the key was stopped; it finds the key neither pending nor     *)
(* unconfirmed when it records, and takes the mark away.  So a stopped key  *)
(* is blank in memory, and wherever it is still marked, someone is on the   *)
(* way to take the mark away; only a crossing offers it or cuts that way.   *)

\* A goroutine is on its way to taking k's mark away, if k is not wanted.
Undoing(p, k) ==
  \/ pc[p] = "stopRefile" /\ k \in loc[p].keys
  \/ pc[p] \in {"file", "force", "record", "unmark"} /\ k \in loc[p].track

Blank(k) == pending[k] = "none" /\ unconfirmed[k] = "none"

Clean(k) == Blank(k) /\ (k \in refile => \E p \in Procs : Undoing(p, k))

Offered(p, k) == pc[p] = "offer" /\ k \in loc[p].keys

StopsInv == \A k \in Stopped : Clean(k) /\ \A p \in Procs : ~Offered(p, k)

\* What a goroutine's step keeps of this, where it crosses nothing.
Forgets(p) ==
  \A k \in Stopped' :
    /\ Blank(k)' /\ ~Offered(p, k)'
    /\ k \in Stopped \/ \A q \in Procs \ {p} : ~Offered(q, k)
    /\ k \in refile' => Undoing(p, k)' \/ (k \in refile /\ k \in Stopped /\ ~Undoing(p, k))

LEMMA ForgetsStops ==
  ASSUME StopsInv, NEW p \in Procs, Moves(p), Forgets(p) PROVE StopsInv'
<1>0. \A q \in Procs \ {p} : pc'[q] = pc[q] /\ loc'[q] = loc[q]
  BY DEF Moves
<1>1. ASSUME NEW k \in Stopped', k \in refile', ~Undoing(p, k)'
      PROVE  \E q \in Procs : Undoing(q, k)'
  <2>1. k \in refile /\ k \in Stopped /\ ~Undoing(p, k)
    BY <1>1 DEF Forgets
  <2>2. PICK q \in Procs : Undoing(q, k)
    BY <2>1 DEF StopsInv, Clean
  <2> QED BY <1>0, <2>1, <2>2 DEF Undoing
<1>2. ASSUME NEW k \in Stopped', NEW q \in Procs PROVE ~Offered(q, k)'
  BY <1>0, <1>2 DEF Forgets, StopsInv, Offered
<1>3. \A k \in Stopped' : Blank(k)'
  BY DEF Forgets
<1> QED BY <1>1, <1>2, <1>3 DEF StopsInv, Clean

\* A step that writes no mark, offers nothing and gives up no mark it was to
\* take away.
LEMMA TameForgets ==
  ASSUME NEW p \in Procs, held' = held, handed' = handed, refile' \subseteq refile,
         pc'[p] # "offer",
         \A k \in Stopped : Blank(k)',
         \A k \in Stopped : Undoing(p, k) /\ k \in refile' => Undoing(p, k)'
  PROVE  Forgets(p)
<1>1. Stopped' = Stopped
  BY DEF Stopped
<1> QED BY <1>1 DEF Forgets, Offered

LEMMA FlushForgets ==
  ASSUME TypeOK, StopsInv, NEW p \in Procs, FlushStep(p), ~FlushCut PROVE Forgets(p)
<1>0. /\ Records /\ Places /\ loc[p].track \subseteq Keys /\ Stopped \subseteq Keys
      /\ \A k \in Stopped : Blank(k) /\ ~Offered(p, k)
  BY TypeParts, LocalsAre DEF StopsInv, Clean, Places, Records, Stopped
<1> USE DEF marks, external, leftovers, confirming
<1>1. CASE offerProvides(p)
  <2>1. /\ UNCHANGED <<held, handed, refile, unconfirmed>>
        /\ \A k \in Keys : k \notin loc[p].keys => pending'[k] = pending[k]
        /\ pc[p] = "offer" /\ pc'[p] = "flush"
    BY <1>0, <1>1 DEF offerProvides, Become, Go, Places
  <2>2. \A k \in Stopped : Blank(k)' /\ ~Undoing(p, k)
    BY <1>0, <2>1 DEF Blank, Undoing, Offered
  <2> QED BY <2>1, <2>2, TameForgets
<1>2. CASE Flush(p) \/ providerReady(p)
  <2>1. /\ UNCHANGED <<held, handed, refile, unconfirmed, pending>>
        /\ pc[p] \in {"flush", "ready"}
    BY <1>2 DEF Flush, providerReady
  <2>2. pc'[p] \in {"ready", "mark", "idle", "done", "seeded", "drop"}
    BY <1>0, <1>2, ReturnMoves DEF Flush, providerReady, Become, Go, Places
  <2>3. \A k \in Stopped : Blank(k)' /\ ~Undoing(p, k)
    BY <1>0, <2>1 DEF Blank, Undoing
  <2> QED BY <2>1, <2>2, <2>3, TameForgets
<1>3. CASE Mark(p)
  <2> DEFINE tr == (loc[p].fresh \ announced) \cup loc[p].forced
             l == [loc[p] EXCEPT !.track = tr]
  <2>1. /\ UNCHANGED <<held, handed, unconfirmed, pending>>
        /\ pc[p] = "mark" /\ refile' = refile \cup tr
        /\ Become(p, "file", l) \/ Become(p, "force", l)
    BY <1>3 DEF Mark
  <2>2. l.track = tr
    BY <1>0 DEF Places, Locals
  <2> HIDE DEF tr, l
  <2>3. pc'[p] \in {"file", "force"} /\ loc'[p].track = tr
    BY <1>0, <2>1, <2>2 DEF Become, Go, Places
  <2>4. Stopped' = Stopped
    BY <2>1 DEF Stopped
  <2> QED BY <1>0, <2>1, <2>3, <2>4 DEF Forgets, Blank, Offered, Undoing
<1>4. CASE File(p) \/ FileForced(p)
  <2>1. UNCHANGED <<held, handed, refile, unconfirmed, pending>> /\ pc[p] \in {"file", "force"}
    BY <1>4 DEF File, FileForced
  <2>2. CASE loc[p].closed
    <3>1. pc'[p] \in {"idle", "done", "seeded", "drop"}
      BY <1>0, <1>4, <2>2, ReturnMoves DEF File, FileForced
    <3>2. \A k \in Stopped : Blank(k)' /\ ~Undoing(p, k)
      BY <1>0, <1>4, <2>1, <2>2 DEF FlushCut, Blank, Undoing
    <3> QED BY <2>1, <3>1, <3>2, TameForgets
  <2>3. CASE ~loc[p].closed
    <3>1. pc'[p] \in {"force", "record"} /\ loc' = loc
      BY <1>0, <1>4, <2>3 DEF File, FileForced, Go, Places
    <3>2. \A k \in Stopped : Blank(k)' /\ (Undoing(p, k) => Undoing(p, k)')
      BY <1>0, <2>1, <3>1 DEF Blank, Undoing
    <3> QED BY <2>1, <3>1, <3>2, TameForgets
  <2> QED BY <2>2, <2>3
<1>5. CASE Record(p)
  <2> DEFINE mine == {k \in loc[p].track : pending[k] # "none"}
             gone == {k \in loc[p].track \ mine : unconfirmed[k] = "none"}
             l == [loc[p] EXCEPT !.track = gone]
  <2>1. /\ UNCHANGED <<held, handed, refile>> /\ pc[p] = "record"
        /\ \A k \in Keys : unconfirmed'[k] = IF k \in mine THEN loc[p].at ELSE unconfirmed[k]
        /\ \A k \in Keys : pending'[k] = "none" \/ pending'[k] = pending[k]
        /\ (gone = {} /\ Return(p)) \/ Become(p, "unmark", l)
    BY <1>5 DEF Record, With
  <2>2. \A k \in Stopped : k \notin mine /\ (k \in loc[p].track => k \in gone)
    BY <1>0 DEF Blank
  <2>3. l.track = gone
    BY <1>0 DEF Places, Locals
  <2> HIDE DEF mine, gone, l
  <2>4. \/ gone = {} /\ pc'[p] \in {"idle", "done", "seeded", "drop"}
        \/ pc'[p] = "unmark" /\ loc'[p].track = gone
    BY <1>0, <2>1, <2>3, ReturnMoves DEF Become, Go, Places
  <2>5. \A k \in Stopped : Blank(k)' /\ (Undoing(p, k) => Undoing(p, k)')
    BY <1>0, <2>1, <2>2, <2>4 DEF Blank, Undoing
  <2>6. pc'[p] # "offer"
    BY <2>4
  <2> QED BY <2>1, <2>5, <2>6, TameForgets
<1>6. CASE Unmark(p)
  <2>1. /\ UNCHANGED <<held, handed, unconfirmed, pending>>
        /\ pc[p] = "unmark" /\ refile' = refile \ loc[p].track /\ Return(p)
    BY <1>6 DEF Unmark
  <2>2. pc'[p] \in {"idle", "done", "seeded", "drop"}
    BY <1>0, <2>1, ReturnMoves
  <2>3. \A k \in Stopped : Blank(k)' /\ ~(Undoing(p, k) /\ k \in refile')
    BY <1>0, <2>1 DEF Blank, Undoing
  <2> QED BY <2>1, <2>2, <2>3, TameForgets
<1> QED BY <1>1, <1>2, <1>3, <1>4, <1>5, <1>6 DEF FlushStep

LEMMA DropForgets ==
  ASSUME TypeOK, StopsInv, NEW p \in Procs, DropStep(p), ~OfferOfStopped PROVE Forgets(p)
<1> USE DEF marks, external, leftovers, confirming
<1>0. /\ Records /\ Places /\ Stopped \subseteq Keys /\ \A k \in Stopped : Blank(k)
  BY TypeParts DEF StopsInv, Clean, Records, Stopped
<1>1. CASE DropAgain(p)
  <2> DEFINE again == loc[p].keys \cap handed
             l == [Idle EXCEPT !.keys = again, !.force = TRUE, !.then = Rest(p)]
  <2>1. /\ UNCHANGED <<held, handed, refile, pending, unconfirmed>> /\ pc[p] = "dropAgain"
        /\ Return(p) \/ Become(p, "offer", l)
        /\ again \cap Stopped = {}
    BY <1>1 DEF DropAgain, OfferOfStopped
  <2>2. l.keys = again
    BY DEF Idle
  <2> HIDE DEF again, l
  <2>3. \/ pc'[p] \in {"idle", "done", "seeded", "drop"}
        \/ pc'[p] = "offer" /\ loc'[p].keys = again
    BY <1>0, <2>1, <2>2, ReturnMoves DEF Become, Go, Places
  <2>4. Stopped' = Stopped
    BY <2>1 DEF Stopped
  <2>5. \A k \in Stopped : Blank(k)' /\ ~Offered(p, k)' /\ ~Undoing(p, k)
    BY <1>0, <2>1, <2>3 DEF Blank, Offered, Undoing
  <2> QED BY <2>1, <2>4, <2>5 DEF Forgets
<1>2. CASE dropLeftovers(p) \/ DropRefile(p) \/ DropAnnounced(p) \/ DropFile(p)
  <2>1. /\ UNCHANGED <<held, handed>> /\ refile' \subseteq refile
        /\ pc[p] \in {"drop", "dropRefile", "dropAnnounced", "dropFile"}
    BY <1>2 DEF dropLeftovers, DropRefile, DropAnnounced, DropFile
  <2>2. pc'[p] \in {"idle", "done", "seeded", "drop", "dropRefile", "dropAnnounced", "dropFile",
                    "dropAgain"}
    BY <1>0, <1>2, ReturnMoves
       DEF dropLeftovers, DropRefile, DropAnnounced, DropFile, Become, Go, Places
  <2>3. \A k \in Keys : /\ pending'[k] = "none" \/ pending'[k] = pending[k]
                        /\ unconfirmed'[k] = "none" \/ unconfirmed'[k] = unconfirmed[k]
    BY <1>2 DEF dropLeftovers, DropRefile, DropAnnounced, DropFile, With
  <2>4. \A k \in Stopped : Blank(k)' /\ ~Undoing(p, k)
    BY <1>0, <2>1, <2>3 DEF Blank, Undoing
  <2> QED BY <2>1, <2>2, <2>4, TameForgets
<1> QED BY <1>1, <1>2 DEF DropStep

LEMMA RetryForgets ==
  ASSUME TypeOK, StopsInv, Tick \/ ReadStats \/ Settle \/ MarkAnnounced \/ ClearRefile
  PROVE  Forgets("retry")
<1> USE DEF marks, external, leftovers, confirming
<1>0. /\ Records /\ Places /\ Stopped \subseteq Keys /\ (\A k \in Stopped : Blank(k))
      /\ "retry" \in Procs
  BY TypeParts DEF StopsInv, Clean, Records, Stopped, Procs
<1>1. /\ UNCHANGED <<held, handed>> /\ refile' \subseteq refile
      /\ pc["retry"] \in {"idle", "stats", "settle", "settled", "confirmed"}
  BY DEF Tick, ReadStats, Settle, MarkAnnounced, ClearRefile
<1>2. pc'["retry"] \in {"stats", "flush", "settle", "settled", "confirmed"}
  BY <1>0 DEF Tick, ReadStats, Settle, MarkAnnounced, ClearRefile, Become, Go, Places
<1>3. \A k \in Stopped : Blank(k)' /\ ~Undoing("retry", k)
  <2>1. CASE Settle
    <3>1. \A k \in Keys : unconfirmed[k] = "none" =>
            unconfirmed'[k] = "none" /\ pending'[k] = pending[k]
      BY <2>1 DEF Settle, With
    <3> QED BY <1>0, <1>1, <3>1 DEF Blank, Undoing
  <2>2. CASE Tick \/ ReadStats \/ MarkAnnounced \/ ClearRefile
    <3>1. UNCHANGED <<pending, unconfirmed>>
      BY <2>2 DEF Tick, ReadStats, MarkAnnounced, ClearRefile
    <3> QED BY <1>0, <1>1, <3>1 DEF Blank, Undoing
  <2> QED BY <2>1, <2>2
<1> QED BY <1>0, <1>1, <1>2, <1>3, TameForgets

LEMMA OpenForgets ==
  ASSUME TypeOK, StopsInv, OpenProvider \/ List \/ UseProvider \/ restoreRefiles, ~OfferOfStopped
  PROVE  Forgets("open")
<1> USE DEF marks, external, leftovers, confirming
<1>0. /\ Records /\ Places /\ (\A k \in Stopped : Blank(k)) /\ "open" \in Procs
      /\ pc["open"] \in {"begin", "list", "use", "restore"}
  BY TypeParts DEF StopsInv, Clean, Procs, OpenProvider, List, UseProvider, restoreRefiles
<1>1. /\ UNCHANGED <<held, handed, refile, pending, unconfirmed>>
      /\ \A k \in Stopped : ~Undoing("open", k)
  BY <1>0 DEF OpenProvider, List, UseProvider, restoreRefiles, Undoing
<1>2. CASE OpenProvider \/ List \/ UseProvider
  <2>1. pc'["open"] \in {"use", "list", "restore"}
    BY <1>0, <1>2 DEF OpenProvider, List, UseProvider, Go, Places
  <2> QED BY <1>0, <1>1, <2>1, TameForgets DEF Blank
<1>3. CASE restoreRefiles
  <2> DEFINE l == [Idle EXCEPT !.keys = refile, !.force = TRUE, !.then = "drop"]
  <2>1. l.keys = refile /\ refile \cap Stopped = {}
    BY <1>3 DEF Idle, OfferOfStopped
  <2>2. \/ refile = {} /\ Become("open", "drop", [Idle EXCEPT !.then = "done"])
        \/ Become("open", "offer", l)
    BY <1>3 DEF restoreRefiles
  <2> HIDE DEF l
  <2>3. pc'["open"] = "drop" \/ (pc'["open"] = "offer" /\ loc'["open"].keys = refile)
    BY <1>0, <2>1, <2>2 DEF Become, Go, Places
  <2>4. Stopped' = Stopped
    BY <1>1 DEF Stopped
  <2> QED BY <1>0, <1>1, <2>1, <2>3, <2>4 DEF Forgets, Blank, Offered
<1> QED BY <1>2, <1>3

LEMMA AppForgets ==
  ASSUME TypeOK, StopsInv, ~StopBesideOffer, NEW a \in Apps,
         \/ Seeded(a) \/ StopRefile(a) \/ StopAnnounced(a) \/ StopFile(a)
         \/ runSeedAnnounce(a)
         \/ \E ks \in SUBSET Keys : Start(a, ks)
         \/ \E k \in Keys : Stop(a, k)
  PROVE  Forgets(a)
<1> USE DEF marks, external, leftovers, confirming
<1>0. /\ Records /\ Places /\ a \in Procs
      /\ \A k \in Stopped : Blank(k)
  BY TypeParts DEF StopsInv, Clean, Procs
<1>1. CASE Seeded(a) \/ StopRefile(a) \/ StopAnnounced(a) \/ StopFile(a)
  <2>1. /\ UNCHANGED <<held, handed, pending, unconfirmed>>
        /\ refile' \subseteq refile
    BY <1>1 DEF Seeded, StopRefile, StopAnnounced, StopFile
  <2>2. pc'[a] \in {"drop", "stopAnnounced", "stopFile", "idle", "done", "seeded"}
    BY <1>0, <1>1, ReturnMoves DEF Seeded, StopRefile, StopAnnounced, StopFile, Go, Places
  <2>3. \A k \in Stopped : Blank(k)' /\ ~(Undoing(a, k) /\ k \in refile')
    BY <1>0, <1>1, <2>1 DEF Blank, Undoing, Seeded, StopRefile, StopAnnounced, StopFile
  <2> QED BY <1>0, <2>1, <2>2, <2>3, TameForgets
<1>2. ASSUME NEW ks \in SUBSET Keys, NEW next \in {"idle", "seeded"}, HandOver(a, ks, next),
             held' = held \cup ks, pc[a] = "idle"
      PROVE  Forgets(a)
  <2> DEFINE l == [Idle EXCEPT !.keys = ks, !.then = next]
  <2>1. /\ UNCHANGED <<refile, pending, unconfirmed>> /\ handed' = handed \cup ks
        /\ Become(a, next, Idle) \/ Become(a, "offer", l)
    BY <1>2 DEF HandOver
  <2>2. l.keys = ks
    BY DEF Idle
  <2> HIDE DEF l
  <2>3. pc'[a] = next \/ (pc'[a] = "offer" /\ loc'[a].keys = ks)
    BY <1>0, <2>1, <2>2 DEF Become, Go, Places
  <2>4. \A k \in Stopped' : k \in Stopped /\ k \notin ks
    BY <1>2, <2>1 DEF Stopped
  <2>5. \A k \in Stopped' : Blank(k)' /\ ~Offered(a, k)' /\ ~Undoing(a, k)
    BY <1>0, <1>2, <2>1, <2>3, <2>4 DEF Blank, Offered, Undoing
  <2> QED BY <2>1, <2>4, <2>5 DEF Forgets
<1>3. CASE runSeedAnnounce(a) \/ \E ks \in SUBSET Keys : Start(a, ks)
  <2>1. held \in SUBSET Keys
    BY <1>0 DEF Records
  <2> QED BY <1>2, <1>3, <2>1 DEF runSeedAnnounce, Start
<1>4. ASSUME NEW j \in Keys, Stop(a, j) PROVE Forgets(a)
  <2> DEFINE l == [Idle EXCEPT !.keys = {j}]
  <2>1. /\ UNCHANGED <<handed, refile>> /\ pc[a] = "idle"
        /\ held' = held \ {j} /\ pending'[j] = "none" /\ unconfirmed'[j] = "none"
        /\ \A k \in Keys \ {j} : pending'[k] = pending[k] /\ unconfirmed'[k] = unconfirmed[k]
        /\ Become(a, "stopRefile", l)
    BY <1>0, <1>4 DEF Stop, Records
  <2>2. l.keys = {j}
    BY DEF Idle
  <2> HIDE DEF l
  <2>3. pc'[a] = "stopRefile" /\ loc'[a].keys = {j}
    BY <1>0, <2>1, <2>2 DEF Become, Go, Places
  <2>4. \A q \in Procs : ~Offered(q, j)
    BY <1>4 DEF StopBesideOffer, Offered
  <2>5. ASSUME NEW k \in Stopped'
        PROVE  /\ Blank(k)' /\ ~Offered(a, k)'
               /\ k \in Stopped \/ \A q \in Procs \ {a} : ~Offered(q, k)
               /\ k \in refile' => Undoing(a, k)' \/ (k \in refile /\ k \in Stopped /\ ~Undoing(a, k))
    <3>0. k \in Keys
      BY <1>0, <2>1 DEF Records, Stopped
    <3>1. CASE k = j
      BY <2>1, <2>3, <2>4, <3>1 DEF Blank, Undoing, Offered
    <3>2. CASE k # j
      <4>1. k \in Stopped
        BY <2>1, <3>2 DEF Stopped
      <4> QED BY <1>0, <2>1, <2>3, <3>0, <3>2, <4>1 DEF Blank, Undoing, Offered
    <3> QED BY <3>1, <3>2
  <2> QED BY <2>5 DEF Forgets
<1> QED BY <1>1, <1>3, <1>4

\* What happens around the goroutines, a provider that is closed included.
LEMMA AroundStops ==
  ASSUME TypeOK, StopsInv, Around \/ dropProvider PROVE StopsInv'
<1> USE DEF marks, external, leftovers, confirming
<1>0. Records /\ Places /\ Stopped \subseteq Keys
  BY TypeParts DEF Records, Stopped
<1>1. CASE (\E k \in Keys : Announce(k)) \/ Disconnect \/ GoOffline \/ ReadingExpires
  <2>1. UNCHANGED <<held, handed, refile, pending, unconfirmed, pc, loc>>
    BY <1>1 DEF Announce, Disconnect, GoOffline, ReadingExpires
  <2> QED BY <2>1 DEF StopsInv, Stopped, Offered, Clean, Blank, Undoing
<1>2. CASE Connect
  <2>1. /\ UNCHANGED <<held, handed, refile, pending, pc>>
        /\ \A k \in Keys : unconfirmed[k] = "none" => unconfirmed'[k] = "none"
    BY <1>2 DEF Connect, noteOnline, Lost
  <2>2. ASSUME NEW q \in Procs
        PROVE  loc'[q].keys = loc[q].keys /\ loc'[q].track = loc[q].track
    <3>1. loc'[q] = loc[q] \/ loc'[q] = [loc[q] EXCEPT !.at = "lost"]
      BY <1>2 DEF Connect, noteOnline
    <3> QED BY <1>0, <3>1 DEF Places, Locals
  <2>3. Stopped' = Stopped
    BY <2>1 DEF Stopped
  <2> QED BY <1>0, <2>1, <2>2, <2>3 DEF StopsInv, Offered, Clean, Blank, Undoing
<1>3. CASE dropProvider
  <2>1. UNCHANGED <<held, handed, refile, pending, unconfirmed>> /\ pc["open"] = "done"
    BY <1>3 DEF dropProvider
  <2>2. ASSUME NEW q \in Procs
        PROVE  /\ loc'[q].keys = loc[q].keys /\ loc'[q].track = loc[q].track
               /\ pc'[q] = pc[q] \/ (pc[q] = "done" /\ pc'[q] = "begin")
    <3>1. loc'[q] = loc[q] \/ loc'[q] = [loc[q] EXCEPT !.closed = TRUE]
      BY <1>3 DEF dropProvider
    <3>2. pc'[q] = pc[q] \/ (pc[q] = "done" /\ pc'[q] = "begin")
      BY <1>0, <1>3 DEF dropProvider, Places
    <3> QED BY <1>0, <3>1, <3>2 DEF Places, Locals
  <2>3. Stopped' = Stopped
    BY <2>1 DEF Stopped
  <2>4. ASSUME NEW q \in Procs, NEW k \in Stopped
        PROVE  Undoing(q, k)' = Undoing(q, k) /\ Offered(q, k)' = Offered(q, k)
    BY <2>2 DEF Undoing, Offered
  <2> QED BY <2>1, <2>3, <2>4 DEF StopsInv, Clean, Blank
<1> QED BY <1>1, <1>2, <1>3 DEF Around

LEMMA StepStops ==
  ASSUME TypeOK, StopsInv, [Next /\ ~Crossing]_vars PROVE StopsInv'
<1>1. CASE UNCHANGED vars
  BY <1>1 DEF vars, marks, external, leftovers, StopsInv, Stopped, Offered, Clean, Blank, Undoing
<1>2. ASSUME Next, ~Crossing PROVE StopsInv'
  <2>1. ASSUME NEW p \in Procs, Step(p) PROVE StopsInv'
    <3>1. Moves(p)
      BY <2>1, StepMoves
    <3>2. Forgets(p)
      BY <1>2, <2>1, FlushForgets, DropForgets, RetryForgets, OpenForgets, AppForgets
         DEF Step, Crossing
    <3> QED BY <3>1, <3>2, ForgetsStops
  <2>2. CASE Around \/ dropProvider
    BY <2>2, AroundStops
  <2>3. CASE Crash
    <3>1. Stopped' = {}
      BY <2>3 DEF Crash, Stopped
    <3> QED BY <3>1 DEF StopsInv
  <2> QED BY <1>2, <2>1, <2>2, <2>3, NextSteps
<1> QED BY <1>1, <1>2

\* For any keys, any callers beside each other and any worlds, nothing is left
\* of a stopped key once the calls are over, unless a stop falls beside an
\* offer of the key, marks or leftovers read before a stop are offered after
\* it, or a flush is cut by a closing provider (stopProviding, flushProvides):
\* neither a flush that had read the key as pending, nor a confirmation under
\* way, nor a mark of an earlier attempt brings it back.
THEOREM OnlyACrossingRevives == UncrossedSpec => []StoppedIsForgotten
<1>1. TypeOK /\ StopsInv => StoppedIsForgotten
  BY DEF StoppedIsForgotten, StopsInv, Stopped, Clean, Blank, Quiet, Undoing
<1>2. Init => StopsInv
  BY DEF Init, StopsInv, Stopped
<1>3. [Next /\ ~Crossing]_vars => [Next]_vars
  OBVIOUS
<1> QED BY <1>1, <1>2, <1>3, InitTypes, StepTypes, StepStops, PTL DEF UncrossedSpec

=============================================================================
