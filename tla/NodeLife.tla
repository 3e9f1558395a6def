---- MODULE NodeLife ----
(***************************************************************************)
(* The life of the node: openNode, goOnline with the retry of a failed     *)
(* attempt, closeNode, the compaction of its datastore, and its name: the  *)
(* identity key, the loop that republishes the index under it, the restore *)
(* of a backup, and the sequences that resolves have seen.                 *)
(*                                                                         *)
(* openNode, closeNode and every attempt of retryOnline hold gMu from      *)
(* their first line to their last; the compactions and the fetches that    *)
(* ask for them do not. The nodes of one process are numbered in the order *)
(* they were opened; a goroutine of an old node may outlive it.            *)
(***************************************************************************)
EXTENDS Integers, FiniteSets

CONSTANTS
    Keys,       \* the identity keys; a key stands for its name and its index
    Resolvers,  \* calls of ipnsResolve that may overlap, for one name
    MaxSeq,     \* the highest sequence number
    Worlds,     \* what goes on beside the opens and closes: "store" (the
                \* compactions), "identity" or "resolve"; they share nothing
    MaxOpens,   \* how many times the node is opened
    MaxFails,   \* how many attempts at goOnline fail
    MaxEnding   \* how many ended compactions may be short of their WG.Done

ASSUME NodeLifeAssumption ==
    /\ MaxOpens \in Nat /\ MaxFails \in Nat /\ MaxEnding \in Nat \ {0}
    /\ MaxSeq \in Nat /\ Worlds \subseteq {"store", "identity", "resolve"}
    /\ Keys # {} /\ {"none", "torn", "friend"} \cap Keys = {}

Nodes == 1 .. MaxOpens

None == 0

NoKey == "none"

Friend == "friend"

\* What goOnline builds, in its order: the host and its DHT, bitswap behind the
\* quarantine, the provider, mDNS, and what lives on the node's context alone:
\* the presence loop, the link maintainer, the overlay.
Built == <<"host", "exchange", "provider", "mdns", "social">>

Last == 5

Parts == {Built[k] : k \in 1 .. Last}

VARIABLES
    gNode,      \* the live node, or None
    opened,     \* how many nodes were opened
    mu,         \* who holds gMu: "free", "open", "retry" or "close"
    step,       \* the part goOnline builds next, or closeNode's step
    live,       \* live[n][p]: how many of node n's parts p are running
    online,     \* the nodes whose goOnline has succeeded
    retry,      \* retry[n]: retryOnline: "none", "asleep" or "due"
    ctx,        \* the nodes whose context is not cancelled
    db,         \* the nodes whose datastore is open
    barred,     \* compactClosed
    busy,       \* compactBusy
    compact,    \* compact[n]: "none", "waiting" or "running"
    ending,     \* how many compactions are between their two deferred steps
    fgIdle,     \* no fetch holds or waits for a network slot
    fails,      \* attempts failed so far
    world,      \* the one of Worlds this behaviour is about
    key,        \* identity.key
    prev,       \* identity.key.prev, NoKey or "torn"
    self,       \* ipns_self.cid: the key whose index it names, or NoKey
    importing,  \* importIdentity: its step, the key restored, the one
                \* replaced, the node it was asked of, and whether no error of
                \* the copy was ignored
    priv,       \* priv[n]: the key node n went online with
    current,    \* current[n]: ipnsCurrent
    loop,       \* loop[n]: ipnsRepublishLoop: its step, its value, its sequence
    signed,     \* the records published: whose name, and whose index
    published,  \* published[k]: the highest sequence published under k's name
    high,       \* ipns_seq.json: the highest sequence seen of each name
    resolver,   \* a resolve: its step, its record's sequence, and the floor
    returned    \* the highest sequence a resolve has returned

net == <<live, online, retry, fails>>
work == <<barred, busy, compact, ending>>
life == <<gNode, opened, mu, step, net, ctx, db, work, fgIdle>>
disk == <<key, prev, self, high>>
loops == <<priv, current, loop, signed, published>>
resolves == <<resolver, returned>>
names == <<world, disk, importing, loops, resolves>>
vars == <<life, names>>

NoImport == [at |-> "none", new |-> NoKey, old |-> NoKey, node |-> None, whole |-> TRUE]
NoLoop == [at |-> "off", cid |-> NoKey, seq |-> 0]
NoResolve == [at |-> "idle", seq |-> 0, floor |-> 0]

Init ==
    /\ world \in Worlds
    /\ gNode = None /\ opened = 0 /\ mu = "free" /\ step = 0
    /\ live = [n \in Nodes |-> [p \in Parts |-> 0]]
    /\ online = {} /\ retry = [n \in Nodes |-> "none"]
    /\ ctx = {} /\ db = {} /\ barred = {} /\ busy = {}
    /\ compact = [n \in Nodes |-> "none"]
    /\ ending = [n \in Nodes |-> 0]
    /\ fgIdle = TRUE /\ fails = IF world = "store" THEN 0 ELSE MaxFails
    /\ key = CHOOSE k \in Keys : TRUE
    /\ prev = NoKey
    /\ self \in IF world = "identity" THEN {NoKey, key} ELSE {NoKey}
    /\ importing = NoImport
    /\ priv = [n \in Nodes |-> NoKey] /\ current = [n \in Nodes |-> NoKey]
    /\ loop = [n \in Nodes |-> NoLoop]
    /\ signed = {} /\ published = [k \in Keys |-> 0] /\ high = [k \in Keys \cup {Friend} |-> 0]
    /\ resolver = [r \in Resolvers |-> NoResolve] /\ returned = 0

-----------------------------------------------------------------------------
(* openNode and goOnline.                                                  *)

\* The datastore and the offline node; goOnline follows under the same lock.
OpenNode ==
    /\ mu = "free" /\ gNode = None /\ opened < MaxOpens
    /\ opened' = opened + 1 /\ gNode' = opened + 1
    /\ ctx' = ctx \cup {opened + 1} /\ db' = db \cup {opened + 1}
    /\ mu' = "open" /\ step' = 1
    /\ UNCHANGED <<net, work, fgIdle, names>>

Building == mu \in {"open", "retry"}

\* The next part; the first is built with the identity read from the disk.
Build ==
    /\ Building /\ step <= Last
    /\ live' = [live EXCEPT ![gNode][Built[step]] = @ + 1]
    /\ step' = step + 1
    /\ priv' = [priv EXCEPT ![gNode] = IF step = 1 THEN key ELSE @]
    /\ UNCHANGED <<gNode, opened, mu, online, retry, fails, ctx, db, work, fgIdle,
                   world, disk, importing, current, loop, signed, published, resolves>>

\* published: from here closeNode owns the teardown; the republish loop starts.
Publish ==
    /\ Building /\ step = Last + 1
    /\ online' = online \cup {gNode}
    /\ retry' = [retry EXCEPT ![gNode] = "none"]
    /\ mu' = "free" /\ step' = 0
    /\ loop' = [loop EXCEPT ![gNode].at = IF world = "identity" THEN "load" ELSE "off"]
    /\ UNCHANGED <<gNode, opened, live, fails, ctx, db, work, fgIdle,
                   world, disk, importing, priv, current, signed, published, resolves>>

\* The deferred cleanup of an attempt: what it names of what was built. The
\* presence loop and the link maintainer live on the node's context.
CleanedEarly == {"host"}

Cleaned == {"mdns", "provider", "exchange", "host"}

BuiltBefore(k) == {Built[i] : i \in 1 .. k - 1}

\* An error (a port, the DHT) or a panic, which guardErr turns into one; the
\* node stays, offline, and retryOnline tries again.
AttemptFails ==
    /\ Building /\ fails < MaxFails
    /\ fails' = fails + 1
    /\ live' = [live EXCEPT ![gNode] =
                  [p \in Parts |-> IF p \in Cleaned \cap BuiltBefore(step)
                                   THEN @[p] - 1 ELSE @[p]]]
    /\ retry' = [retry EXCEPT ![gNode] = "asleep"]
    /\ mu' = "free" /\ step' = 0
    /\ UNCHANGED <<gNode, opened, online, ctx, db, work, fgIdle, names>>

-----------------------------------------------------------------------------
(* retryOnline.                                                            *)

RetryWakes(n) ==
    /\ retry[n] = "asleep"
    /\ retry' = [retry EXCEPT ![n] = "due"]
    /\ UNCHANGED <<gNode, opened, mu, step, live, online, fails, ctx, db, work, fgIdle, names>>

RetryStops(n) ==
    /\ retry[n] = "asleep" /\ n \notin ctx
    /\ retry' = [retry EXCEPT ![n] = "none"]
    /\ UNCHANGED <<gNode, opened, mu, step, live, online, fails, ctx, db, work, fgIdle, names>>

RetryTries(n) ==
    /\ retry[n] = "due" /\ mu = "free"
    /\ IF gNode # n
       THEN /\ retry' = [retry EXCEPT ![n] = "none"]
            /\ UNCHANGED <<mu, step>>
       ELSE /\ mu' = "retry" /\ step' = 1
            /\ UNCHANGED retry
    /\ UNCHANGED <<gNode, opened, live, online, fails, ctx, db, work, fgIdle, names>>
-----------------------------------------------------------------------------
(* closeNode.                                                              *)

Closing(k) == mu = "close" /\ step = k

CloseServices ==
    /\ mu = "free" /\ gNode # None
    /\ mu' = "close" /\ step' = 1
    /\ live' = [live EXCEPT ![gNode] =
                  [p \in Parts |-> IF p \in {"mdns", "provider", "host"}
                                   THEN 0 ELSE @[p]]]
    /\ UNCHANGED <<gNode, opened, online, retry, fails, ctx, db, work, fgIdle, names>>

CloseCancelsNothing ==
    /\ Closing(1) /\ step' = 2
    /\ UNCHANGED <<gNode, opened, mu, net, ctx, db, work, fgIdle, names>>

\* n.cancel: every loop on the node's context ends.
CloseCancels ==
    /\ Closing(1) /\ step' = 2
    /\ ctx' = ctx \ {gNode}
    /\ live' = [live EXCEPT ![gNode] = [p \in Parts |-> 0]]
    /\ UNCHANGED <<gNode, opened, mu, online, retry, fails, db, work, fgIdle, names>>

CloseBars ==
    /\ Closing(2) /\ step' = 3
    /\ barred' = barred \cup {gNode}
    /\ UNCHANGED <<gNode, opened, mu, net, ctx, db, busy, compact, ending, fgIdle, names>>

\* compactWG.
Outstanding(n) == compact[n] # "none" \/ ending[n] > 0

CloseStoreEarly ==
    /\ Closing(3)
    /\ busy \cap {gNode} = {}
    /\ db' = db \ {gNode}
    /\ gNode' = None /\ mu' = "free" /\ step' = 0
    /\ UNCHANGED <<opened, net, ctx, work, fgIdle, names>>

\* compactWG.Wait, then the datastore.
CloseStore ==
    /\ Closing(3) /\ ~Outstanding(gNode)
    /\ db' = db \ {gNode}
    /\ gNode' = None /\ mu' = "free" /\ step' = 0
    /\ UNCHANGED <<opened, net, ctx, work, fgIdle, names>>

-----------------------------------------------------------------------------
(* scheduleCompaction, by any fetch or call that holds the node, also an   *)
(* old one.                                                                *)

Schedule(n) ==
    /\ world = "store" /\ n <= opened /\ ending[n] < MaxEnding
    /\ n \notin busy /\ n \notin barred
    /\ busy' = busy \cup {n}
    /\ compact' = [compact EXCEPT ![n] = "waiting"]
    /\ UNCHANGED <<gNode, opened, mu, step, net, ctx, db, barred, ending, fgIdle, names>>

\* waitFgIdle, which may also see the idle queue of a closing node.
CompactRuns(n) ==
    /\ compact[n] = "waiting" /\ fgIdle
    /\ compact' = [compact EXCEPT ![n] = "running"]
    /\ UNCHANGED <<gNode, opened, mu, step, net, ctx, db, barred, busy, ending, fgIdle, names>>

\* The end of the run, or of the wait of a closing node: compactBusy is cleared
\* under the mutex, WG.Done follows.
CompactEnds(n) ==
    /\ \/ compact[n] = "running"
       \/ compact[n] = "waiting" /\ n \notin ctx
    /\ compact' = [compact EXCEPT ![n] = "none"]
    /\ busy' = busy \ {n}
    /\ ending' = [ending EXCEPT ![n] = @ + 1]
    /\ UNCHANGED <<gNode, opened, mu, step, net, ctx, db, barred, fgIdle, names>>

CompactDone(n) ==
    /\ ending[n] > 0
    /\ ending' = [ending EXCEPT ![n] = @ - 1]
    /\ UNCHANGED <<gNode, opened, mu, step, net, ctx, db, barred, busy, compact, fgIdle, names>>

FetchesChange ==
    /\ world = "store"
    /\ fgIdle' = ~fgIdle
    /\ UNCHANGED <<gNode, opened, mu, step, net, ctx, db, work, names>>

-----------------------------------------------------------------------------
(* ipnsRepublishLoop. A loop of a closed node may still finish a publish   *)
(* whose PutValue has returned.                                            *)

ipnsRecordAnySeq(name, seq) ==
    high' = [high EXCEPT ![name] = seq]

ipnsRecordSeq(name, seq) ==
    high' = [high EXCEPT ![name] = IF seq > @ THEN seq ELSE @]

At(n, from, to) ==
    /\ loop[n].at = from
    /\ loop' = [loop EXCEPT ![n].at = to]

\* ipnsLoadSelf.
LoopLoads(n) ==
    /\ At(n, "load", "rest")
    /\ current' = [current EXCEPT ![n] = IF self # NoKey THEN self ELSE @]
    /\ UNCHANGED <<life, world, disk, importing, priv, signed, published, resolves>>

LoopStops(n) ==
    /\ n \notin ctx /\ At(n, "rest", "off")
    /\ UNCHANGED <<life, world, disk, importing, priv, current, signed, published, resolves>>

\* A turn of the loop: the value, and the sequence seen of our name.
LoopPicks(n) ==
    /\ n \in ctx /\ loop[n].at = "rest" /\ current[n] # NoKey
    /\ loop' = [loop EXCEPT ![n] =
                   [at |-> "look", cid |-> current[n], seq |-> high[priv[n]]]]
    /\ UNCHANGED <<life, world, disk, importing, priv, current, signed, published, resolves>>

\* liveRecordSeq: none, or the sequence of any record a holder still has.
LiveSeqs(name) == 0 .. published[name]

LoopLooks(n) ==
    /\ loop[n].at = "look"
    /\ \E live0 \in LiveSeqs(priv[n]) :
          LET top == IF live0 > loop[n].seq THEN live0 ELSE loop[n].seq
          IN  /\ top < MaxSeq
              /\ loop' = [loop EXCEPT ![n].at = "put", ![n].seq = top + 1]
    /\ UNCHANGED <<life, world, disk, importing, priv, current, signed, published, resolves>>

Lands(n) ==
    /\ signed' = signed \cup {<<priv[n], loop[n].cid>>}
    /\ published' = [published EXCEPT ![priv[n]] = IF loop[n].seq > @ THEN loop[n].seq ELSE @]

PutValue(n) ==
    /\ n \in ctx /\ At(n, "put", "record")
    /\ Lands(n)
    /\ UNCHANGED <<life, world, disk, importing, priv, current, resolves>>

\* An error; the record may have reached its holders.
PutFails(n) ==
    /\ At(n, "put", "rest")
    /\ \/ UNCHANGED <<signed, published>>
       \/ n \in ctx /\ Lands(n)
    /\ UNCHANGED <<life, world, disk, importing, priv, current, resolves>>

LoopRecords(n) ==
    /\ At(n, "record", "store")
    /\ ipnsRecordSeq(priv[n], loop[n].seq)
    /\ UNCHANGED <<life, world, key, prev, self, importing, priv, current, signed, published, resolves>>

\* ipnsStoreSelf: the value in memory, then the file.
LoopStores(n) ==
    /\ At(n, "store", "write")
    /\ current' = [current EXCEPT ![n] = loop[n].cid]
    /\ UNCHANGED <<life, world, disk, importing, priv, signed, published, resolves>>

LoopWrites(n) ==
    /\ At(n, "write", "rest")
    /\ self' = loop[n].cid
    /\ UNCHANGED <<life, world, key, prev, high, importing, priv, current, signed, published, resolves>>

-----------------------------------------------------------------------------
(* importIdentity. The running node keeps the old key.                     *)

Importing(from, to) ==
    /\ importing.at = from
    /\ importing' = [importing EXCEPT !.at = to]

Imports(k, at, whole) ==
    /\ world = "identity" /\ mu = "free" /\ gNode # None /\ importing = NoImport /\ k # key
    /\ importing' = [at |-> at, new |-> k, old |-> key, node |-> gNode, whole |-> whole]

ImportSkipsBackup(k) ==
    /\ Imports(k, "install", TRUE)
    /\ UNCHANGED <<life, world, disk, loops, resolves>>

\* The copy beside the key is begun: until it is whole it is torn. (One restore
\* in a behaviour.)
ImportBegins(k) ==
    /\ Imports(k, "backup", TRUE)
    /\ prev' = "torn"
    /\ UNCHANGED <<life, world, key, self, high, loops, resolves>>

\* The old key cannot be read, or its copy not be created: no copy, and on.
ImportCopiesNothing(k) ==
    /\ Imports(k, "install", FALSE)
    /\ UNCHANGED <<life, world, disk, loops, resolves>>

ImportBacksUp ==
    /\ Importing("backup", "install")
    /\ prev' = key
    /\ UNCHANGED <<life, world, key, self, high, loops, resolves>>

\* The write of the copy fails: its error is dropped, and the rename follows.
ImportCopyFails ==
    /\ importing.at = "backup"
    /\ importing' = [importing EXCEPT !.at = "install", !.whole = FALSE]
    /\ UNCHANGED <<life, world, disk, loops, resolves>>

ImportInstalls ==
    /\ Importing("install", "drop")
    /\ key' = importing.new
    /\ UNCHANGED <<life, world, prev, self, high, loops, resolves>>

\* The new key cannot be staged, or not be renamed: the import returns the error.
ImportFails ==
    /\ Importing("install", "none")
    /\ UNCHANGED <<life, world, disk, loops, resolves>>

\* Whether the file goes or not: the error of its removal is dropped.
ImportDrops ==
    /\ Importing("drop", "clear")
    /\ self' \in {self, NoKey}
    /\ UNCHANGED <<life, world, key, prev, high, loops, resolves>>

ImportClears ==
    /\ Importing("clear", "none")
    /\ current' = [current EXCEPT ![importing.node] = NoKey]
    /\ UNCHANGED <<life, world, disk, priv, loop, signed, published, resolves>>

\* The process dies: the files stay.
Crash ==
    /\ world = "identity" /\ gNode # None
    /\ gNode' = None /\ mu' = "free" /\ step' = 0
    /\ live' = [n \in Nodes |-> [p \in Parts |-> 0]]
    /\ retry' = [n \in Nodes |-> "none"]
    /\ ctx' = {} /\ db' = {}
    /\ loop' = [n \in Nodes |-> NoLoop]
    /\ importing' = [importing EXCEPT !.at = "none"]
    /\ UNCHANGED <<opened, online, fails, work, fgIdle, world, disk, priv, current, signed, published, resolves>>

-----------------------------------------------------------------------------
(* ipnsResolve of a friend's name, by calls that overlap.                  *)

\* A record arrives, of any age, and is valid for the name.
ResolveAsks(r) ==
    /\ world = "resolve" /\ mu = "free" /\ gNode # None /\ resolver[r].at = "idle"
    /\ \E s \in 1 .. MaxSeq :
          resolver' = [resolver EXCEPT ![r] = [at |-> "check", seq |-> s, floor |-> returned]]
    /\ UNCHANGED <<life, world, disk, importing, loops, returned>>

\* ipnsAcceptSeq: the comparison, and in a section of its own the record.
ResolveChecks(r) ==
    /\ resolver[r].at = "check"
    /\ resolver' = [resolver EXCEPT ![r] =
                       IF @.seq < high[Friend] THEN NoResolve ELSE [@ EXCEPT !.at = "record"]]
    /\ UNCHANGED <<life, world, disk, importing, loops, returned>>

ResolveRecords(r) ==
    /\ resolver[r].at = "record"
    /\ ipnsRecordSeq(Friend, resolver[r].seq)
    /\ returned' = IF resolver[r].seq > returned THEN resolver[r].seq ELSE returned
    /\ resolver' = [resolver EXCEPT ![r] = NoResolve]
    /\ UNCHANGED <<life, world, key, prev, self, importing, loops>>

Next ==
    \/ OpenNode \/ Build \/ Publish \/ AttemptFails
    \/ CloseServices \/ CloseCancels \/ CloseBars \/ CloseStore
    \/ FetchesChange \/ Crash
    \/ \E k \in Keys : ImportBegins(k) \/ ImportCopiesNothing(k)
    \/ ImportBacksUp \/ ImportCopyFails \/ ImportInstalls \/ ImportFails
    \/ ImportDrops \/ ImportClears
    \/ \E r \in Resolvers : ResolveAsks(r) \/ ResolveChecks(r) \/ ResolveRecords(r)
    \/ \E n \in Nodes :
          \/ RetryWakes(n) \/ RetryStops(n) \/ RetryTries(n)
          \/ Schedule(n) \/ CompactRuns(n) \/ CompactEnds(n) \/ CompactDone(n)
          \/ LoopLoads(n) \/ LoopStops(n) \/ LoopPicks(n) \/ LoopLooks(n)
          \/ PutValue(n) \/ PutFails(n) \/ LoopRecords(n) \/ LoopStores(n) \/ LoopWrites(n)

Spec == Init /\ [][Next]_vars

\* A call that holds the lock goes on, a timer rings, a compaction ends. That
\* a fetch ends is never asked for, nor that anyone opens or closes the node.
Fairness ==
    /\ WF_vars(Build) /\ WF_vars(Publish)
    /\ WF_vars(CloseCancels) /\ WF_vars(CloseBars) /\ WF_vars(CloseStore)
    /\ \A n \in Nodes :
          /\ WF_vars(RetryWakes(n)) /\ WF_vars(RetryTries(n))
          /\ WF_vars(CompactEnds(n)) /\ WF_vars(CompactDone(n))

FairSpec == Spec /\ Fairness

-----------------------------------------------------------------------------
TypeOK ==
    /\ gNode \in 0 .. MaxOpens /\ opened \in 0 .. MaxOpens
    /\ mu \in {"free", "open", "retry", "close"} /\ step \in 0 .. Last + 1
    /\ live \in [Nodes -> [Parts -> Nat]]
    /\ retry \in [Nodes -> {"none", "asleep", "due"}]
    /\ online \subseteq Nodes /\ ctx \subseteq Nodes /\ db \subseteq Nodes
    /\ barred \subseteq Nodes /\ busy \subseteq Nodes
    /\ compact \in [Nodes -> {"none", "waiting", "running"}]
    /\ ending \in [Nodes -> Nat]
    /\ fgIdle \in BOOLEAN /\ fails \in 0 .. MaxFails
    /\ key \in Keys /\ prev \in Keys \cup {NoKey, "torn"} /\ self \in Keys \cup {NoKey}
    /\ high \in [Keys \cup {Friend} -> 0 .. MaxSeq]
    /\ signed \subseteq Keys \X Keys /\ published \in [Keys -> 0 .. MaxSeq]

\* One host under the node's identity: whatever attempts failed or were closed
\* over, a host, a DHT, a bitswap or a provider runs only for the live node,
\* and only one of it (the cleanup of goOnline, retryOnline's check of gNode).
OneNetwork ==
    \A n \in Nodes : \A p \in {"host", "exchange", "provider"} :
        live[n][p] <= IF n = gNode THEN 1 ELSE 0

\* Nothing compacts a closed datastore (closeNode's bar and wait).
StoreOutlivesWork == \A n \in Nodes : Outstanding(n) => n \in db

\* Whatever step an import fails or is cut at, the identity it replaces is in
\* one of the two files, unless an error of the copy was ignored
\* (importIdentity's copy, then its rename).
KeyIsNeverLost ==
    importing.old # NoKey /\ importing.whole => importing.old \in {key, prev}

\* The same of every import: "recoverable if the user restored the wrong file".
OldKeyIsKept == importing.old # NoKey => importing.old \in {key, prev}

\* What a resolve returns is no older than what any resolve had returned when
\* it began, for all that the comparison and the record of ipnsAcceptSeq are
\* two sections.
NoRollback ==
    [][\A r \in Resolvers :
         resolver[r].at = "record" /\ resolver'[r].at = "idle"
           => resolver[r].seq >= resolver[r].floor]_vars

\* The republish loop never signs one identity's index with another's key:
\* importIdentity drops the old value so that it cannot.
OwnIndexOnly == \A r \in signed : r[1] = r[2]

\* Closing returns, though a fetch that never ends keeps the queue busy and a
\* compaction waits for it (n.cancel before the wait).
CloseReturns == mu = "close" ~> mu # "close"

====
