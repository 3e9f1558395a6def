------------------------------ MODULE Provide ------------------------------
(***************************************************************************)
(* Making what the node holds findable (provide.go, seedannounce.go): the  *)
(* hand-over of keys to the sweeping provider.  The provider files a key   *)
(* it is handed at once and durably, but announces it only from a queue    *)
(* that is dropped when it goes Offline and with the process, and ignores  *)
(* a filed key handed over again.  So the node remembers which keys it     *)
(* handed over without knowing them announced: in memory (unconfirmed) and *)
(* in the datastore (the refile marks).                                    *)
(*                                                                         *)
(* One action per critical section of provideSt.mu, per batch of marks and *)
(* per call into the provider, for every goroutine that runs them: the     *)
(* callers (Apps), the retry loop and goOnline, which opens the provider.  *)
(* Times are compared only with lostBefore, so a time is kept as whether   *)
(* it is after lostBefore ("kept") or not ("lost").                        *)
(***************************************************************************)
EXTENDS Naturals, FiniteSets

CONSTANTS
  Keys,
  Apps,       \* goroutines of the app: they pin, publish, unpin, list
  Worlds  \* the environments looked at: each a record of
          \*  callers: the goroutines of the app that call;
          \*  keys: what the app may hold;
          \*  stoppable: what it may unpin while the node runs;
          \*  droppable: what may be unpinned between two runs;
          \*  reoffer: whether a key is ever handed over again, by the app, which
          \*    lists all it holds after each publish, or by a restart;
          \*  retries: whether goOnline may fail after useProvider, and be retried;
          \*  spells: how short an Offline spell may be: "endless", the provider
          \*    never comes online; "long", the node reads it Offline; "brief", it
          \*    may fall between two readings; "instant", it may fall inside a
          \*    flush or useProvider

ASSUME ProvideAssumption ==
  /\ Worlds \subseteq
       [callers : SUBSET Apps, keys : SUBSET Keys, stoppable : SUBSET Keys, droppable : SUBSET Keys,
        reoffer : BOOLEAN, retries : BOOLEAN,
        spells : {"endless", "long", "brief", "instant"}]
  /\ Apps \cap {"retry", "open"} = {}

Procs == Apps \cup {"retry", "open"}

VARIABLES
  world,       \* the environment of this behavior
  held,        \* what the app wants findable (its pins): durable
  refile,      \* the marks under refileNS: durable
  announced,   \* the marks under announcedNS: durable
  keystore,    \* the provider's filed keys: durable
  sent,        \* history: the filed keys announced since they were filed
  queue,       \* the provider's provide queue, ongoing sends included
  conn,        \* the provider: "online", "disconnected" or "offline"
  provider,    \* n.provider is set
  pending,     \* provideSt.pending: "none", "fresh" or "force" per key
  unconfirmed, \* provideSt.unconfirmed: "none", "kept" or "lost" per key
  handed, leftover, listed, seeded, pruneWith, wentOffline, \* of provideSt
  reading,     \* provideSt.ready, "none" once older than providerReadyTTL
  pc,          \* per goroutine, the section it runs next
  loc,         \* per goroutine, the locals of the calls it is in
  snap, kept   \* confirmUnconfirmed's snapshot and its reading of the stats, until
               \* it settles them

durable == <<held, refile, announced, keystore, sent>>
marks == <<refile, announced>>
external == <<keystore, sent, queue>>
leftovers == <<handed, leftover, listed, seeded, pruneWith>>
confirming == <<snap, kept>>
vars == <<world, held, marks, external, conn, provider, pending, unconfirmed,
          leftovers, wentOffline, reading, pc, loc, confirming>>

\* The locals: the keys a call is about; while it flushes its snapshot (fresh,
\* forced), the keys it tracks and the hand-over time; what follows the flush;
\* whether the provider it captured was closed.
Idle == [keys |-> {}, force |-> FALSE, fresh |-> {}, forced |-> {},
         track |-> {}, at |-> "kept", then |-> "idle", closed |-> FALSE]

Labels == {"begin", "list", "use", "restore", "done", "idle", "offer", "flush",
           "ready", "mark", "file", "force", "record", "unmark", "stats",
           "settle", "settled", "confirmed", "stopRefile", "stopAnnounced",
           "stopFile", "seeded", "drop", "dropRefile", "dropAnnounced",
           "dropFile", "dropAgain"}

Time == {"kept", "lost"}

TypeOK ==
  /\ world \in Worlds
  /\ held \subseteq Keys /\ refile \subseteq Keys /\ announced \subseteq Keys
  /\ keystore \subseteq Keys /\ queue \subseteq keystore /\ sent \subseteq keystore
  /\ conn \in {"online", "disconnected", "offline"}
  /\ pending \in [Keys -> {"none", "fresh", "force"}]
  /\ unconfirmed \in [Keys -> {"none"} \cup Time]
  /\ handed \subseteq Keys /\ leftover \subseteq Keys
  /\ {provider, listed, seeded, pruneWith, wentOffline, kept} \subseteq BOOLEAN
  /\ reading \in {"none", "ready", "not"}
  /\ pc \in [Procs -> Labels]
  /\ loc \in [Procs -> [keys : SUBSET Keys, force : BOOLEAN, fresh : SUBSET Keys,
                        forced : SUBSET Keys, track : SUBSET Keys, at : Time,
                        then : {"idle", "done", "seeded", "drop"},
                        closed : BOOLEAN]]
  /\ snap \in [Keys -> {"none"} \cup Time]

Nothing == [k \in Keys |-> "none"]
With(f, ks, v) == [k \in Keys |-> IF k \in ks THEN v ELSE f[k]]
Lost(f) == [k \in Keys |-> IF f[k] = "none" THEN "none" ELSE "lost"]
Go(p, label) == pc' = [pc EXCEPT ![p] = label]
Become(p, label, locals) == Go(p, label) /\ loc' = [loc EXCEPT ![p] = locals]

\* A call ends: its goroutine goes on with what follows it.
Rest(p) == IF p = "open" THEN "done" ELSE "idle"
Return(p) == Become(p, loc[p].then, [Idle EXCEPT !.then = Rest(p)])

(***************************************************************************)
(* The provider, as the node uses it.                                      *)
(***************************************************************************)
\* StartProviding files the keys and queues the new ones, or all if forced;
\* Offline it only files them.
StartProviding(force, ks) ==
  LET new == ks \ keystore
  IN  /\ keystore' = keystore \cup ks
      /\ sent' = sent \ new
      /\ queue' = IF conn = "offline" THEN queue
                  ELSE queue \cup (IF force THEN ks ELSE new)

StopProviding(ks) ==
  /\ keystore' = keystore \ ks
  /\ queue' = queue \ ks
  /\ sent' = sent \ ks

\* Only the queue announces here: nothing may count on the 22 h reprovide.
Announce(k) ==
  /\ conn = "online" /\ k \in queue
  /\ queue' = queue \ {k}
  /\ sent' = sent \cup {k}
  /\ UNCHANGED <<world, held, marks, keystore, conn, provider, pending, unconfirmed,
                 leftovers, wentOffline, reading, pc, loc, confirming>>

\* noteOnline: lostBefore becomes now, after every hand-over time taken so far.
noteOnline ==
  /\ wentOffline' = FALSE
  /\ IF wentOffline
     THEN /\ unconfirmed' = Lost(unconfirmed)
          /\ snap' = Lost(snap)
          /\ loc' = [p \in Procs |-> IF pc[p] \in {"file", "force", "record"}
                                     THEN [loc[p] EXCEPT !.at = "lost"] ELSE loc[p]]
     ELSE UNCHANGED <<unconfirmed, snap, loc>>

Flushing(p) == pc[p] \in {"ready", "mark", "file", "force", "record"}
Restoring == \/ pc["open"] \in {"list", "use", "restore"}
             \/ pc["open"] \in {"offer", "flush"} /\ loc["open"].then = "drop"

Connect ==
  /\ world.spells # "endless" /\ pruneWith /\ conn # "online"
  /\ world.spells # "instant" => ~(Restoring \/ \E p \in Procs : Flushing(p))
  /\ world.spells = "long" /\ wentOffline => \A k \in Keys : unconfirmed[k] = "none"
  /\ conn' = "online"
  /\ noteOnline
  /\ UNCHANGED <<world, held, marks, external, provider, pending, leftovers, reading,
                 pc, kept>>

Disconnect ==
  /\ conn = "online" /\ conn' = "disconnected"
  /\ UNCHANGED <<world, held, marks, external, provider, pending, unconfirmed,
                 leftovers, wentOffline, reading, pc, loc, confirming>>

\* Disconnected past its delay, the provider drops its queue; noteOffline.
GoOffline ==
  /\ conn = "disconnected" /\ conn' = "offline"
  /\ queue' = {}
  /\ wentOffline' = TRUE
  /\ UNCHANGED <<world, held, marks, keystore, sent, provider, pending, unconfirmed,
                 leftovers, reading, pc, loc, confirming>>

(***************************************************************************)
(* startProviding, runSeedAnnounce, offerProvides                          *)
(***************************************************************************)
HandOver(a, ks, next) ==
  /\ handed' = handed \cup ks
  /\ IF ks = {} THEN Become(a, next, Idle)
     ELSE Become(a, "offer", [Idle EXCEPT !.keys = ks, !.then = next])
  /\ UNCHANGED <<world, marks, external, conn, provider, pending, unconfirmed, leftover,
                 listed, seeded, pruneWith, wentOffline, reading, confirming>>

\* The app pinned or published ks.  A runSeedAnnounce whose pinLs fails is the
\* same: it hands over what the app listed, and stops there.
Start(a, ks) ==
  /\ pc[a] = "idle" /\ ks # {}
  /\ world.reoffer \/ ks \cap handed = {}
  /\ held' = held \cup ks
  /\ HandOver(a, ks, "idle")

\* A list that was not complete, taken for the app's full hand-over.
runSeedAnnouncePartial(a) ==
  /\ pc[a] = "idle"
  /\ world.reoffer \/ held \cap handed = {}
  /\ \E ks \in SUBSET held : HandOver(a, ks, "seeded")
  /\ UNCHANGED held

\* runSeedAnnounce: everything the app holds, then seeded and dropLeftovers.
runSeedAnnounce(a) ==
  /\ pc[a] = "idle"
  /\ world.reoffer \/ held \cap handed = {}
  /\ HandOver(a, held, "seeded")
  /\ UNCHANGED held

Seeded(a) ==
  /\ pc[a] = "seeded"
  /\ seeded' = TRUE
  /\ Go(a, "drop")
  /\ UNCHANGED <<world, held, marks, external, conn, provider, pending, unconfirmed,
                 handed, leftover, listed, pruneWith, wentOffline, reading, loc,
                 confirming>>

\* A force mark sticks.  (Starting the retry loop is left out: while nothing
\* was offered its ticks do nothing.)
offerProvides(p) ==
  /\ pc[p] = "offer"
  /\ pending' = [k \in Keys |-> IF k \notin loc[p].keys THEN pending[k]
                                ELSE IF loc[p].force \/ pending[k] = "force"
                                THEN "force" ELSE "fresh"]
  /\ Become(p, "flush", [loc[p] EXCEPT !.keys = {}, !.force = FALSE])
  /\ UNCHANGED <<world, held, marks, external, conn, provider, unconfirmed, leftovers,
                 wentOffline, reading, confirming>>

(***************************************************************************)
(* flushProvides                                                           *)
(***************************************************************************)
Flush(p) ==
  LET fr == {k \in Keys : pending[k] = "fresh"}
      fo == {k \in Keys : pending[k] = "force"}
  IN  /\ pc[p] = "flush"
      /\ IF provider /\ fr \cup fo # {}
         THEN Become(p, "ready", [loc[p] EXCEPT !.fresh = fr, !.forced = fo])
         ELSE Return(p)
      /\ UNCHANGED <<world, held, marks, external, conn, provider, pending, unconfirmed,
                     leftovers, wentOffline, reading, confirming>>

\* providerReady: the last reading while it is young, else a new one.
providerReady(p) ==
  /\ pc[p] = "ready"
  /\ reading' = IF reading # "none" THEN reading
                ELSE IF conn = "online" /\ ~loc[p].closed THEN "ready" ELSE "not"
  /\ IF reading' = "ready" THEN Go(p, "mark") /\ UNCHANGED loc ELSE Return(p)
  /\ UNCHANGED <<world, held, marks, external, conn, provider, pending, unconfirmed,
                 leftovers, wentOffline, confirming>>

ReadingExpires ==
  /\ reading # "none" /\ reading' = "none"
  /\ UNCHANGED <<world, held, marks, external, conn, provider, pending, unconfirmed,
                 leftovers, wentOffline, pc, loc, confirming>>

\* A hand-over that leaves its refile marks to later.
MarkUnwritten(p) ==
  /\ pc[p] = "mark"
  /\ Become(p, IF loc[p].fresh # {} THEN "file" ELSE "force",
            [loc[p] EXCEPT !.track = (loc[p].fresh \ announced) \cup loc[p].forced])
  /\ UNCHANGED <<world, held, marks, external, conn, provider, pending, unconfirmed,
                 leftovers, wentOffline, reading, confirming>>

\* The refile marks of what is to be tracked, and the hand-over time.
Mark(p) ==
  LET tr == (loc[p].fresh \ announced) \cup loc[p].forced
  IN  /\ pc[p] = "mark"
      /\ refile' = refile \cup tr
      /\ Become(p, IF loc[p].fresh # {} THEN "file" ELSE "force",
                [loc[p] EXCEPT !.track = tr])
      /\ UNCHANGED <<world, held, announced, external, conn, provider, pending,
                     unconfirmed, leftovers, wentOffline, reading, confirming>>

File(p) ==
  /\ pc[p] = "file"
  /\ IF loc[p].closed THEN Return(p) /\ UNCHANGED external
     ELSE /\ StartProviding(FALSE, loc[p].fresh)
          /\ Go(p, IF loc[p].forced # {} THEN "force" ELSE "record")
          /\ UNCHANGED loc
  /\ UNCHANGED <<world, held, marks, conn, provider, pending, unconfirmed, leftovers,
                 wentOffline, reading, confirming>>

FileForced(p) ==
  /\ pc[p] = "force"
  /\ IF loc[p].closed THEN Return(p) /\ UNCHANGED external
     ELSE /\ StartProviding(TRUE, loc[p].forced)
          /\ Go(p, "record")
          /\ UNCHANGED loc
  /\ UNCHANGED <<world, held, marks, conn, provider, pending, unconfirmed, leftovers,
                 wentOffline, reading, confirming>>

\* A flush that tracks what was stopped meanwhile.
RecordStopped(p) ==
  /\ pc[p] = "record"
  /\ unconfirmed' = With(unconfirmed, loc[p].track, loc[p].at)
  /\ pending' = With(pending, loc[p].fresh \cup loc[p].forced, "none")
  /\ Return(p)
  /\ UNCHANGED <<world, held, marks, external, conn, provider, leftovers,
                 wentOffline, reading, confirming>>

\* Takes the keys still pending over into unconfirmed; the others were stopped
\* meanwhile, unless a flush beside this one took them.
Record(p) ==
  LET mine == {k \in loc[p].track : pending[k] # "none"}
      gone == {k \in loc[p].track \ mine : unconfirmed[k] = "none"}
  IN  /\ pc[p] = "record"
      /\ unconfirmed' = With(unconfirmed, mine, loc[p].at)
      /\ pending' = With(pending, loc[p].fresh \cup loc[p].forced, "none")
      /\ IF gone = {} THEN Return(p)
         ELSE Become(p, "unmark", [loc[p] EXCEPT !.track = gone])
      /\ UNCHANGED <<world, held, marks, external, conn, provider, leftovers,
                     wentOffline, reading, confirming>>

Unmark(p) ==
  /\ pc[p] = "unmark"
  /\ refile' = refile \ loc[p].track
  /\ Return(p)
  /\ UNCHANGED <<world, held, announced, external, conn, provider, pending,
                 unconfirmed, leftovers, wentOffline, reading, confirming>>

(***************************************************************************)
(* confirmUnconfirmed and the retry loop                                   *)
(***************************************************************************)
\* A tick that only confirms: what was not ready to be filed stays pending.
TickConfirmsOnly ==
  /\ pc["retry"] = "idle" /\ provider
  /\ \E k \in Keys : unconfirmed[k] # "none"
  /\ snap' = unconfirmed
  /\ Go("retry", "stats")
  /\ UNCHANGED <<world, held, marks, external, conn, provider, pending, unconfirmed,
                 leftovers, wentOffline, reading, loc, kept>>

\* A tick: the snapshot of confirmUnconfirmed, then (here at once when there
\* is nothing to confirm) flushProvides.
Tick ==
  /\ pc["retry"] = "idle" /\ provider
  /\ \E k \in Keys : pending[k] # "none" \/ unconfirmed[k] # "none"
  /\ snap' = unconfirmed
  /\ Go("retry", IF \E k \in Keys : unconfirmed[k] # "none" THEN "stats" ELSE "flush")
  /\ UNCHANGED <<world, held, marks, external, conn, provider, pending, unconfirmed,
                 leftovers, wentOffline, reading, loc, kept>>

\* The stats, after the snapshot.
ReadStats ==
  /\ pc["retry"] = "stats"
  /\ IF loc["retry"].closed THEN UNCHANGED reading
     ELSE reading' = IF conn = "online" THEN "ready" ELSE "not"
  /\ IF loc["retry"].closed \/ (conn # "offline" /\ queue # {})
     THEN /\ Become("retry", "flush", Idle)
          /\ snap' = Nothing /\ UNCHANGED kept
     ELSE /\ Go("retry", "settle") /\ UNCHANGED <<loc, snap>>
          /\ kept' = (conn # "offline")
  /\ UNCHANGED <<world, held, marks, external, conn, provider, pending, unconfirmed,
                 leftovers, wentOffline>>

\* Announced, or sent back to be handed over again forced.
Settle ==
  LET known == {k \in Keys : snap[k] # "none" /\ unconfirmed[k] # "none"}
      done == {k \in known : kept /\ snap[k] = "kept"}
  IN  /\ pc["retry"] = "settle"
      /\ snap' = Nothing /\ kept' = FALSE
      /\ unconfirmed' = With(unconfirmed, known, "none")
      /\ pending' = With(pending, known \ done, "force")
      /\ IF done = {} THEN Become("retry", "flush", Idle)
         ELSE Become("retry", "settled", [Idle EXCEPT !.keys = done])
      /\ UNCHANGED <<world, held, marks, external, conn, provider, leftovers,
                     wentOffline, reading>>

MarkAnnounced ==
  /\ pc["retry"] = "settled"
  /\ announced' = announced \cup loc["retry"].keys
  /\ Go("retry", "confirmed")
  /\ UNCHANGED <<world, held, refile, external, conn, provider, pending, unconfirmed,
                 leftovers, wentOffline, reading, loc, confirming>>

ClearRefile ==
  /\ pc["retry"] = "confirmed"
  /\ refile' = refile \ loc["retry"].keys
  /\ Become("retry", "flush", Idle)
  /\ UNCHANGED <<world, held, announced, external, conn, provider, pending, unconfirmed,
                 leftovers, wentOffline, reading, confirming>>

(***************************************************************************)
(* stopProviding                                                           *)
(***************************************************************************)
Stop(a, k) ==
  /\ pc[a] = "idle" /\ k \in held \cap world.stoppable
  /\ held' = held \ {k}
  /\ pending' = [pending EXCEPT ![k] = "none"]
  /\ unconfirmed' = [unconfirmed EXCEPT ![k] = "none"]
  /\ Become(a, "stopRefile", [Idle EXCEPT !.keys = {k}])
  /\ UNCHANGED <<world, marks, external, conn, provider, leftovers, wentOffline, reading,
                 confirming>>

StopRefile(a) ==
  /\ pc[a] = "stopRefile"
  /\ refile' = refile \ loc[a].keys
  /\ Go(a, "stopAnnounced")
  /\ UNCHANGED <<world, held, announced, external, conn, provider, pending, unconfirmed,
                 leftovers, wentOffline, reading, loc, confirming>>

StopAnnounced(a) ==
  /\ pc[a] = "stopAnnounced"
  /\ announced' = announced \ loc[a].keys
  /\ Go(a, "stopFile")
  /\ UNCHANGED <<world, held, refile, external, conn, provider, pending, unconfirmed,
                 leftovers, wentOffline, reading, loc, confirming>>

StopFile(a) ==
  /\ pc[a] = "stopFile"
  /\ IF provider THEN StopProviding(loc[a].keys) ELSE UNCHANGED external
  /\ Return(a)
  /\ UNCHANGED <<world, held, marks, conn, provider, pending, unconfirmed, leftovers,
                 wentOffline, reading, confirming>>

(***************************************************************************)
(* useProvider, restoreRefiles                                             *)
(***************************************************************************)
\* goOnline opens a provider: not bootstrapped, or with the prefix it measured
\* in an earlier run.  useProvider takes it for dropLeftovers.
OpenProvider ==
  /\ pc["open"] = "begin"
  /\ conn' \in {"offline", "disconnected"}
  /\ pruneWith' = TRUE
  /\ listed' = TRUE
  /\ Go("open", IF listed THEN "use" ELSE "list")
  /\ UNCHANGED <<world, held, marks, external, provider, pending, unconfirmed, handed,
                 leftover, seeded, wentOffline, reading, loc, confirming>>

\* The keystore as an earlier run left it, or nothing if it cannot be listed.
List ==
  /\ pc["open"] = "list"
  /\ leftover' \in {keystore, {}}
  /\ Go("open", "use")
  /\ UNCHANGED <<world, held, marks, external, conn, provider, pending, unconfirmed,
                 handed, listed, seeded, pruneWith, wentOffline, reading, loc,
                 confirming>>

UseProvider ==
  /\ pc["open"] = "use"
  /\ provider' = TRUE
  /\ Go("open", "restore")
  /\ UNCHANGED <<world, held, marks, external, conn, pending, unconfirmed, leftovers,
                 wentOffline, reading, loc, confirming>>

restoreRefiles ==
  /\ pc["open"] = "restore"
  /\ IF refile = {} THEN Become("open", "drop", [Idle EXCEPT !.then = "done"])
     ELSE Become("open", "offer", [Idle EXCEPT !.keys = refile, !.force = TRUE,
                                               !.then = "drop"])
  /\ UNCHANGED <<world, held, marks, external, conn, provider, pending, unconfirmed,
                 leftovers, wentOffline, reading, confirming>>

\* A failed goOnline closes the provider it installed (dropProvider); whoever
\* captured it is told closed.
dropProvider ==
  /\ world.retries /\ pc["open"] = "done"
  /\ provider' = FALSE /\ pruneWith' = FALSE
  /\ queue' = {}
  /\ pc' = [pc EXCEPT !["open"] = "begin"]
  /\ loc' = [p \in Procs |->
               IF pc[p] \in {"ready", "mark", "file", "force", "stats",
                             "dropRefile", "dropAnnounced", "dropFile"}
               THEN [loc[p] EXCEPT !.closed = TRUE] ELSE loc[p]]
  /\ UNCHANGED <<world, held, marks, keystore, sent, conn, pending, unconfirmed, handed,
                 leftover, listed, seeded, wentOffline, reading, confirming>>

(***************************************************************************)
(* dropLeftovers                                                           *)
(***************************************************************************)
dropLeftovers(p) ==
  LET stale == leftover \ handed
  IN  /\ pc[p] = "drop"
      /\ IF seeded /\ pruneWith
         THEN /\ leftover' = {}
              /\ pending' = With(pending, stale, "none")
              /\ unconfirmed' = With(unconfirmed, stale, "none")
              /\ IF stale = {} THEN Return(p)
                 ELSE Become(p, "dropRefile",
                             [Idle EXCEPT !.keys = stale, !.then = Rest(p)])
         ELSE Return(p) /\ UNCHANGED <<leftover, pending, unconfirmed>>
      /\ UNCHANGED <<world, held, marks, external, conn, provider, handed, listed,
                     seeded, pruneWith, wentOffline, reading, confirming>>

DropRefile(p) ==
  /\ pc[p] = "dropRefile"
  /\ refile' = refile \ loc[p].keys
  /\ Go(p, "dropAnnounced")
  /\ UNCHANGED <<world, held, announced, external, conn, provider, pending, unconfirmed,
                 leftovers, wentOffline, reading, loc, confirming>>

DropAnnounced(p) ==
  /\ pc[p] = "dropAnnounced"
  /\ announced' = announced \ loc[p].keys
  /\ Go(p, "dropFile")
  /\ UNCHANGED <<world, held, refile, external, conn, provider, pending, unconfirmed,
                 leftovers, wentOffline, reading, loc, confirming>>

DropFile(p) ==
  /\ pc[p] = "dropFile"
  /\ IF loc[p].closed THEN UNCHANGED external ELSE StopProviding(loc[p].keys)
  /\ Go(p, "dropAgain")
  /\ UNCHANGED <<world, held, marks, conn, provider, pending, unconfirmed, leftovers,
                 wentOffline, reading, loc, confirming>>

DropAgain(p) ==
  /\ pc[p] = "dropAgain"
  /\ LET again == loc[p].keys \cap handed
     IN  IF again = {} THEN Return(p)
         ELSE Become(p, "offer", [Idle EXCEPT !.keys = again, !.force = TRUE,
                                              !.then = Rest(p)])
  /\ UNCHANGED <<world, held, marks, external, conn, provider, pending, unconfirmed,
                 leftovers, wentOffline, reading, confirming>>

\* The process ends, and the app may let go of keys before the next run.
Crash ==
  /\ world.reoffer
  /\ \E ks \in SUBSET world.droppable : held' = held \ ks
  /\ queue' = {} /\ conn' = "offline"
  /\ provider' = FALSE
  /\ pending' = Nothing /\ unconfirmed' = Nothing
  /\ handed' = {} /\ leftover' = {}
  /\ listed' = FALSE /\ seeded' = FALSE /\ pruneWith' = FALSE /\ wentOffline' = FALSE
  /\ reading' = "none"
  /\ pc' = [p \in Procs |-> IF p = "open" THEN "begin" ELSE "idle"]
  /\ loc' = [p \in Procs |-> [Idle EXCEPT !.then = Rest(p)]]
  /\ snap' = Nothing /\ kept' = FALSE
  /\ UNCHANGED <<world, marks, keystore, sent>>

\* What earlier runs left in the datastore: nothing, or what a crash can leave.
EarlierRuns ==
  /\ {held, refile, announced, keystore, sent} \subseteq SUBSET Keys
  /\ announced \subseteq sent /\ sent \subseteq keystore
  /\ keystore \ sent \subseteq refile
  /\ (keystore \cup refile) \ held \subseteq world.droppable

Init ==
  /\ world \in Worlds
  /\ \E h, r, a, f, s \in IF world.reoffer THEN SUBSET world.keys ELSE {{}} :
       held = h /\ refile = r /\ announced = a /\ keystore = f /\ sent = s
  /\ EarlierRuns
  /\ queue = {} /\ conn = "offline"
  /\ provider = FALSE
  /\ pending = Nothing /\ unconfirmed = Nothing
  /\ handed = {} /\ leftover = {}
  /\ listed = FALSE /\ seeded = FALSE /\ pruneWith = FALSE /\ wentOffline = FALSE
  /\ reading = "none"
  /\ pc = [p \in Procs |-> IF p = "open" THEN "begin" ELSE "idle"]
  /\ loc = [p \in Procs |-> [Idle EXCEPT !.then = Rest(p)]]
  /\ snap = Nothing /\ kept = FALSE

\* What a goroutine goes on with by itself.
FlushStep(p) ==
  \/ offerProvides(p) \/ Flush(p) \/ providerReady(p) \/ Mark(p) \/ File(p)
  \/ FileForced(p) \/ Record(p) \/ Unmark(p)

DropStep(p) == \/ dropLeftovers(p) \/ DropRefile(p) \/ DropAnnounced(p)
               \/ DropFile(p) \/ DropAgain(p)

RetryStep == \/ FlushStep("retry") \/ Tick \/ ReadStats \/ Settle \/ MarkAnnounced
             \/ ClearRefile

OpenStep == \/ FlushStep("open") \/ DropStep("open") \/ OpenProvider \/ List
            \/ UseProvider \/ restoreRefiles

AppStep(a) == \/ FlushStep(a) \/ DropStep(a) \/ Seeded(a) \/ StopRefile(a)
              \/ StopAnnounced(a) \/ StopFile(a)

Next ==
  \/ RetryStep
  \/ OpenStep
  \/ \E a \in world.callers : \/ AppStep(a) \/ runSeedAnnounce(a)
                              \/ \E ks \in SUBSET world.keys : Start(a, ks)
                              \/ \E k \in Keys : Stop(a, k)
  \/ \E k \in Keys : Announce(k)
  \/ Connect \/ Disconnect \/ GoOffline \/ ReadingExpires
  \/ dropProvider
  \/ Crash

Spec == Init /\ [][Next]_vars

(***************************************************************************)
(* Fairness: every goroutine goes on, the ticker ticks, a reading gets old, *)
(* and the provider works its queue off while it is online.                *)
(***************************************************************************)
Fairness ==
  /\ WF_pc(RetryStep) /\ WF_pc(OpenStep) /\ WF_reading(ReadingExpires)
  /\ \A a \in Apps : WF_pc(AppStep(a))
  /\ \A k \in Keys : WF_queue(Announce(k))

(***************************************************************************)
(* Properties.                                                             *)
(***************************************************************************)
\* A key the provider filed and never announced has its refile mark, at every
\* step: whenever the process ends, the next run offers it again forced.  Not
\* claimed of keys that are unpinned, whose marks go first.
FiledIsRemembered ==
  \A k \in Keys \ (world.stoppable \cup world.droppable) :
    k \in keystore \ sent => k \in refile

\* What an earlier run filed and the app still holds is never stopped: the
\* leftovers are dropped only against a complete list.
HeldIsNeverDropped ==
  [][\A k \in Keys \ (world.stoppable \cup world.droppable) : k \in keystore => k \in keystore']_vars

Quiet == \A p \in Procs : pc[p] \in {"idle", "done"}

\* Once the calls are over, a key the app stopped in this run is neither marked
\* for refiling nor offered or confirmed, although a flush that had read it as
\* pending wrote its mark after stopProviding cleared it: "a next run must not
\* announce what we stopped holding" (stopProviding).  Of UncrossedSpec only.
StoppedIsForgotten ==
  Quiet => \A k \in handed \ held :
             k \notin refile /\ pending[k] = "none" /\ unconfirmed[k] = "none"

Stopped == handed \ held

\* The orders in which the code breaks it.  A stop that falls between the
\* hand-over of a key, or the reading of its mark, and its offer.
StopBesideOffer ==
  \E a \in Apps, k \in Keys :
    Stop(a, k) /\ \E p \in Procs : pc[p] = "offer" /\ k \in loc[p].keys

\* An offer of marks read, or of leftovers handed over, before a stop was done
\* with them.
OfferOfStopped ==
  \/ restoreRefiles /\ refile \cap Stopped # {}
  \/ \E p \in Procs : DropAgain(p) /\ loc[p].keys \cap Stopped # {}

\* A flush that ends at a closed provider: its marks stay, those of keys that
\* were stopped meanwhile too.
FlushCut ==
  \E p \in Procs : /\ File(p) \/ FileForced(p)
                   /\ loc[p].closed /\ loc[p].track \cap Stopped # {}

Crossing == StopBesideOffer \/ OfferOfStopped \/ FlushCut

\* The behaviors without these three.
UncrossedSpec == Init /\ [][Next /\ ~Crossing]_vars

\* The spec of the run: where nothing is stopped, all behaviors under fairness.
FairSpec == UncrossedSpec /\ Fairness

\* What this run handed over is announced, however often the provider or the
\* process went down before, once it stays online.
EventuallyAnnounced ==
  \A k \in Keys :
    <>[](conn = "online") =>
      (k \in handed \ (world.stoppable \cup world.droppable)
         ~> k \in sent \/ k \notin handed)

\* What the comments say of the code and TLC refutes: "a key we no longer hold
\* is dropped from the schedule (never reprovided again)" (stopProviding);
StoppedStaysStopped == Quiet => keystore \subseteq held

\* announcedNS holds "the keys known announced", a brief Offline spell or not
\* (confirmUnconfirmed);
KnownAnnounced == \A k \in Keys : k \in announced => k \in sent

\* "a crash between the two must not leave a filed key nobody re-offers"
\* (refileNS): what the app holds when a run begins is marked unless announced.
NobodyReoffers ==
  pc["open"] = "begin" => \A k \in held \cap keystore : k \in sent \cup refile
=============================================================================
