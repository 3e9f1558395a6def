--------------------------- MODULE NodeLifeProofs ---------------------------
(***************************************************************************)
(* What the node keeps, for any keys, any number of opens, failed attempts *)
(* and overlapping calls: the datastore outlives the compactions, one host *)
(* runs, an import that could copy the old key loses it at no step, and no *)
(* resolve returns less than was returned when it began.  And what it takes*)
(* for an index to be signed with another identity's key.                  *)
(*                                                                         *)
(* Each of the four is about the variables of its own, so that each has    *)
(* an invariant of its own and a frame: the steps that leave it alone.     *)
(* The last rests on those of the network and of the key.                  *)
(***************************************************************************)
EXTENDS NodeLife, TLAPS

-----------------------------------------------------------------------------
(* The store.  Only a node that is not barred is given a compaction, and   *)
(* one that is not barred has its store; while a store is open, closeNode  *)
(* is the only one to close it, and waits.  In a world of crashes nothing  *)
(* is compacted.                                                           *)

WorkTypes ==
  /\ compact \in [Nodes -> {"none", "waiting", "running"}]
  /\ ending \in [Nodes -> Nat]
  /\ opened \in Nat

\* A node that was opened and is not barred has its store.
Unbarred == world = "store" => \A n \in Nodes : n <= opened /\ n \notin barred => n \in db

\* closeNode has barred the node before it closes the store.
BarredFirst == Closing(3) => gNode \in barred

\* Nothing is compacted beside imports and resolves.
OnlyInStore ==
  world # "store" => \A n \in Nodes : compact[n] = "none" /\ ending[n] = 0

StoreInv == WorkTypes /\ Unbarred /\ BarredFirst /\ OnlyInStore /\ StoreOutlivesWork

storeVars == <<gNode, opened, mu, step, db, barred, compact, ending, world>>

LEMMA StoreStill == ASSUME StoreInv, UNCHANGED storeVars PROVE StoreInv'
BY DEF StoreInv, storeVars, WorkTypes, Unbarred, BarredFirst, OnlyInStore,
       StoreOutlivesWork, Outstanding, Closing

\* A step that leaves the stores and their work alone, and does not come to
\* the last step of closeNode.
LEMMA StoreUntouched ==
  ASSUME StoreInv, UNCHANGED <<opened, db, barred, compact, ending, world>>, ~Closing(3)'
  PROVE  StoreInv'
BY DEF StoreInv, WorkTypes, Unbarred, BarredFirst, OnlyInStore, StoreOutlivesWork,
       Outstanding

LEMMA OpenNodeStore == ASSUME StoreInv, OpenNode PROVE StoreInv'
<1> USE DEF StoreInv
<1>1. /\ UNCHANGED <<barred, compact, ending, world>>
      /\ opened' = opened + 1 /\ db' = db \cup {opened + 1} /\ mu' = "open"
  BY DEF OpenNode, work, names
<1>2. WorkTypes'
  BY <1>1 DEF WorkTypes
<1>3. Unbarred'
  BY <1>1 DEF Unbarred, WorkTypes, Nodes
<1>4. BarredFirst'
  BY <1>1 DEF BarredFirst, Closing
<1>5. OnlyInStore' /\ StoreOutlivesWork'
  BY <1>1 DEF OnlyInStore, StoreOutlivesWork, Outstanding
<1> QED BY <1>2, <1>3, <1>4, <1>5

LEMMA CloseStoreInv == ASSUME StoreInv, CloseBars \/ CloseStore PROVE StoreInv'
<1> USE DEF StoreInv
<1>1. CASE CloseBars
  <2>1. /\ UNCHANGED <<gNode, opened, mu, db, compact, ending, world>>
        /\ barred' = barred \cup {gNode}
    BY <1>1 DEF CloseBars, names
  <2> QED BY <2>1 DEF WorkTypes, Unbarred, BarredFirst, OnlyInStore, StoreOutlivesWork,
                      Outstanding
<1>2. CASE CloseStore
  <2>1. /\ UNCHANGED <<opened, barred, compact, ending, world>>
        /\ db' = db \ {gNode} /\ ~Outstanding(gNode) /\ mu' = "free" /\ Closing(3)
    BY <1>2 DEF CloseStore, work, names
  <2>2. Unbarred'
    BY <2>1 DEF Unbarred, BarredFirst
  <2>3. StoreOutlivesWork'
    BY <2>1 DEF StoreOutlivesWork, Outstanding
  <2> QED BY <2>1, <2>2, <2>3 DEF WorkTypes, OnlyInStore, BarredFirst, Closing
<1> QED BY <1>1, <1>2

LEMMA CompactInv ==
  ASSUME StoreInv, NEW n \in Nodes,
         Schedule(n) \/ CompactRuns(n) \/ CompactEnds(n) \/ CompactDone(n)
  PROVE  StoreInv'
<1> USE DEF StoreInv
<1>1. UNCHANGED <<gNode, opened, mu, step, db, barred, world>>
  BY DEF Schedule, CompactRuns, CompactEnds, CompactDone, names
<1>2. /\ n \in db /\ world = "store"
      /\ compact' \in [Nodes -> {"none", "waiting", "running"}]
      /\ ending' \in [Nodes -> Nat]
      /\ \A k \in Nodes \ {n} : compact'[k] = compact[k] /\ ending'[k] = ending[k]
  <2>1. CASE Schedule(n)
    BY <2>1 DEF Schedule, WorkTypes, Unbarred
  <2>2. CASE CompactRuns(n)
    BY <2>2 DEF CompactRuns, WorkTypes, OnlyInStore, StoreOutlivesWork, Outstanding
  <2>3. CASE CompactEnds(n)
    BY <2>3 DEF CompactEnds, WorkTypes, OnlyInStore, StoreOutlivesWork, Outstanding
  <2>4. CASE CompactDone(n)
    BY <2>4 DEF CompactDone, WorkTypes, OnlyInStore, StoreOutlivesWork, Outstanding
  <2> QED BY <2>1, <2>2, <2>3, <2>4
<1>3. WorkTypes' /\ Unbarred' /\ OnlyInStore'
  BY <1>1, <1>2 DEF WorkTypes, Unbarred, OnlyInStore
<1>4. BarredFirst'
  BY <1>1 DEF BarredFirst, Closing
<1>5. StoreOutlivesWork'
  BY <1>1, <1>2 DEF StoreOutlivesWork, Outstanding
<1> QED BY <1>3, <1>4, <1>5

\* The process dies in the world of imports alone.
LEMMA CrashStore == ASSUME StoreInv, Crash PROVE StoreInv'
BY DEF Crash, StoreInv, WorkTypes, Unbarred, BarredFirst, OnlyInStore, StoreOutlivesWork,
       Outstanding, Closing, work

LEMMA StepStore == ASSUME StoreInv, [Next]_vars PROVE StoreInv'
<1>1. CASE OpenNode
  BY <1>1, OpenNodeStore
<1>2. CASE CloseBars \/ CloseStore
  BY <1>2, CloseStoreInv
<1>3. ASSUME NEW n \in Nodes, Schedule(n) \/ CompactRuns(n) \/ CompactEnds(n) \/ CompactDone(n)
      PROVE  StoreInv'
  BY <1>3, CompactInv
<1>4. CASE Crash
  BY <1>4, CrashStore
<1>5. CASE Build \/ Publish \/ AttemptFails \/ CloseServices \/ CloseCancels
           \/ \E n \in Nodes : RetryTries(n)
  <2>1. UNCHANGED <<opened, db, barred, compact, ending, world>>
    BY <1>5 DEF Build, Publish, AttemptFails, CloseServices, CloseCancels, RetryTries, work, names
  <2>2. ~Closing(3)'
    BY <1>5, StoreInv DEF Build, Publish, AttemptFails, CloseServices, CloseCancels, RetryTries,
                          Building, Closing, StoreInv
  <2> QED BY <2>1, <2>2, StoreUntouched
<1>6. CASE FetchesChange \/ (\E k \in Keys : ImportBegins(k) \/ ImportCopiesNothing(k))
           \/ ImportBacksUp \/ ImportCopyFails \/ ImportInstalls \/ ImportFails
           \/ ImportDrops \/ ImportClears
           \/ (\E r \in Resolvers : ResolveAsks(r) \/ ResolveChecks(r) \/ ResolveRecords(r))
  <2>1. UNCHANGED storeVars
    BY <1>6 DEF FetchesChange, ImportBegins, ImportCopiesNothing, Imports, ImportBacksUp, ImportCopyFails,
                Importing, ImportInstalls, ImportFails, ImportDrops, ImportClears, ResolveAsks, ResolveChecks, ResolveRecords, storeVars, life,
                work, names
  <2> QED BY <2>1, StoreStill
<1>7. ASSUME NEW n \in Nodes,
             \/ RetryWakes(n) \/ RetryStops(n)
             \/ LoopLoads(n) \/ LoopStops(n) \/ LoopPicks(n) \/ LoopLooks(n)
             \/ PutValue(n) \/ PutFails(n) \/ LoopRecords(n) \/ LoopStores(n) \/ LoopWrites(n)
      PROVE  StoreInv'
  <2>1. UNCHANGED storeVars
    BY <1>7 DEF RetryWakes, RetryStops, LoopLoads, LoopStops, LoopPicks, LoopLooks, PutValue,
                PutFails, LoopRecords, LoopStores, LoopWrites, storeVars, life, work, names
  <2> QED BY <2>1, StoreStill
<1>8. CASE UNCHANGED vars
  <2>1. UNCHANGED storeVars
    BY <1>8 DEF vars, life, names, work, storeVars
  <2> QED BY <2>1, StoreStill
<1> QED BY <1>1, <1>2, <1>3, <1>4, <1>5, <1>6, <1>7, <1>8 DEF Next

\* closeNode closes the datastore only when no compaction is waiting, running
\* or short of its WG.Done, however many nodes are opened, attempts fail and
\* compactions are asked for (closeNode, scheduleCompaction).
THEOREM StoreOutlives == Spec => []StoreOutlivesWork
<1>1. Init => StoreInv
  BY NodeLifeAssumption
     DEF Init, StoreInv, WorkTypes, Unbarred, BarredFirst, OnlyInStore, StoreOutlivesWork,
         Outstanding, Closing, Nodes
<1>2. StoreInv => StoreOutlivesWork
  BY DEF StoreInv
<1> QED BY <1>1, <1>2, StepStore, PTL DEF Spec

-----------------------------------------------------------------------------
(* The identity.  Up to the rename the old key is where it was, and from   *)
(* the end of the copy on it is in the copy, if the copy was made.         *)

\* Which of the two files has the old key at a step of the import.
CopiedFirst ==
  /\ importing.at \in {"backup", "install"} => key = importing.old
  /\ importing.at \in {"install", "drop", "clear"} /\ importing.whole => prev = importing.old

KeyInv ==
  /\ gNode \in Nat /\ opened \in Nat /\ key \in Keys
  /\ importing \in [at : {"none", "backup", "install", "drop", "clear"},
                     new : Keys \cup {NoKey}, old : Keys \cup {NoKey}, node : Nat,
                     whole : BOOLEAN]
  /\ importing.at # "none" => importing.new \in Keys
  /\ CopiedFirst /\ KeyIsNeverLost

LEMMA ImportInv ==
  ASSUME KeyInv,
         \/ \E k \in Keys : ImportBegins(k) \/ ImportCopiesNothing(k)
         \/ ImportBacksUp \/ ImportCopyFails \/ ImportInstalls \/ ImportFails
         \/ ImportDrops \/ ImportClears
  PROVE  KeyInv'
<1> USE DEF life
<1>1. ASSUME NEW k \in Keys, ImportBegins(k) \/ ImportCopiesNothing(k) PROVE KeyInv'
  <2>1. \E at \in {"backup", "install"}, whole \in BOOLEAN :
          /\ importing' = [at |-> at, new |-> k, old |-> key, node |-> gNode, whole |-> whole]
          /\ at = "install" => ~whole
    BY <1>1 DEF ImportBegins, ImportCopiesNothing, Imports
  <2>2. UNCHANGED <<gNode, opened, key>>
    BY <1>1 DEF ImportBegins, ImportCopiesNothing, disk
  <2> QED BY <2>1, <2>2 DEF KeyInv, CopiedFirst, KeyIsNeverLost
<1>2. CASE ImportBacksUp
  BY <1>2 DEF ImportBacksUp, Importing, KeyInv, CopiedFirst, KeyIsNeverLost, NoImport
<1>3. CASE ImportCopyFails \/ ImportFails
  BY <1>3 DEF ImportCopyFails, ImportFails, Importing, KeyInv, CopiedFirst, KeyIsNeverLost,
              NoImport, disk
<1>4. CASE ImportInstalls
  BY <1>4 DEF ImportInstalls, Importing, KeyInv, CopiedFirst, KeyIsNeverLost, NoImport
<1>5. CASE ImportDrops
  BY <1>5 DEF ImportDrops, Importing, KeyInv, CopiedFirst, KeyIsNeverLost, NoImport
<1>6. CASE ImportClears
  BY <1>6 DEF ImportClears, Importing, KeyInv, CopiedFirst, KeyIsNeverLost, NoImport, disk
<1> QED BY <1>1, <1>2, <1>3, <1>4, <1>5, <1>6

keyVars == <<gNode, opened, key, prev, importing>>

LEMMA StepKey == ASSUME KeyInv, [Next]_vars PROVE KeyInv'
<1>1. CASE (\E k \in Keys : ImportBegins(k) \/ ImportCopiesNothing(k))
           \/ ImportBacksUp \/ ImportCopyFails \/ ImportInstalls \/ ImportFails
           \/ ImportDrops \/ ImportClears
  BY <1>1, ImportInv
<1>2. CASE Crash
  BY <1>2 DEF Crash, KeyInv, CopiedFirst, KeyIsNeverLost, disk, None
<1>3. CASE OpenNode \/ CloseStore
  <2>1. /\ gNode' \in Nat /\ opened' \in Nat
        /\ UNCHANGED <<key, prev, importing>>
    BY <1>3 DEF OpenNode, CloseStore, KeyInv, names, disk, None
  <2> QED BY <2>1 DEF KeyInv, CopiedFirst, KeyIsNeverLost
<1>4. CASE Build \/ Publish \/ AttemptFails \/ CloseServices \/ CloseCancels \/ CloseBars
           \/ FetchesChange
           \/ (\E r \in Resolvers : ResolveAsks(r) \/ ResolveChecks(r) \/ ResolveRecords(r))
           \/ UNCHANGED vars
  <2>1. UNCHANGED keyVars
    BY <1>4 DEF Build, Publish, AttemptFails, CloseServices, CloseCancels, CloseBars,
                FetchesChange, ResolveAsks, ResolveChecks, ResolveRecords, keyVars, vars, life,
                names, disk
  <2> QED BY <2>1 DEF keyVars, KeyInv, CopiedFirst, KeyIsNeverLost
<1>5. ASSUME NEW n \in Nodes,
             \/ RetryWakes(n) \/ RetryStops(n) \/ RetryTries(n)
             \/ Schedule(n) \/ CompactRuns(n) \/ CompactEnds(n) \/ CompactDone(n)
             \/ LoopLoads(n) \/ LoopStops(n) \/ LoopPicks(n) \/ LoopLooks(n)
             \/ PutValue(n) \/ PutFails(n) \/ LoopRecords(n) \/ LoopStores(n) \/ LoopWrites(n)
      PROVE  KeyInv'
  <2>1. UNCHANGED keyVars
    BY <1>5 DEF RetryWakes, RetryStops, RetryTries, Schedule, CompactRuns, CompactEnds,
                CompactDone, LoopLoads, LoopStops, LoopPicks, LoopLooks, PutValue, PutFails,
                LoopRecords, LoopStores, LoopWrites, keyVars, life, names, disk
  <2> QED BY <2>1 DEF keyVars, KeyInv, CopiedFirst, KeyIsNeverLost
<1> QED BY <1>1, <1>2, <1>3, <1>4, <1>5 DEF Next

LEMMA InitKey == Init => KeyInv
<1> SUFFICES ASSUME Init PROVE KeyInv
  OBVIOUS
<1>1. key \in Keys
  BY NodeLifeAssumption DEF Init
<1>2. /\ gNode = 0 /\ opened = 0
      /\ importing = [at |-> "none", new |-> NoKey, old |-> NoKey, node |-> 0, whole |-> TRUE]
  BY DEF Init, NoImport, None
<1> QED BY <1>1, <1>2 DEF KeyInv, CopiedFirst, KeyIsNeverLost

\* The identity an import replaces is in identity.key or in its copy, whatever
\* step the process died at or the install failed at, unless an error of the copy
\* was ignored: KeyIsNeverLost (importIdentity).
THEOREM KeySurvives == Spec => []KeyIsNeverLost
<1>1. Init => KeyInv
  BY InitKey
<1>2. KeyInv => KeyIsNeverLost
  BY DEF KeyInv
<1> QED BY <1>1, <1>2, StepKey, PTL DEF Spec

-----------------------------------------------------------------------------
(* The resolves.  What was returned is within the high-water mark, so that *)
(* the comparison is against no less, and the mark only rises.             *)

\* Beside resolves no record is published, so that the mark is theirs alone.
ResolveTypes ==
  /\ loop = [n \in Nodes |-> NoLoop]
  /\ high \in [Keys \cup {Friend} -> Nat] /\ returned \in Nat
  /\ resolver \in [Resolvers -> [at : {"idle", "check", "record"}, seq : Nat, floor : Nat]]

\* The floor of a resolve under way is within the mark, and of one that has
\* compared, within its record.
FloorHolds ==
  /\ returned <= high[Friend]
  /\ \A r \in Resolvers :
       /\ resolver[r].at = "check" => resolver[r].floor <= high[Friend]
       /\ resolver[r].at = "record" => resolver[r].floor <= resolver[r].seq

ResolveInv ==
  /\ world = "resolve" => ResolveTypes /\ FloorHolds
  /\ world # "resolve" => resolver = [r \in Resolvers |-> NoResolve]

resolveVars == <<world, loop, high, resolver, returned>>

LEMMA ResolveStill == ASSUME ResolveInv, UNCHANGED resolveVars PROVE ResolveInv'
BY DEF ResolveInv, resolveVars, ResolveTypes, FloorHolds

LEMMA ResolvesInv ==
  ASSUME ResolveInv, NEW r \in Resolvers, ResolveAsks(r) \/ ResolveChecks(r) \/ ResolveRecords(r)
  PROVE  ResolveInv'
<1>1. world = "resolve" /\ world' = "resolve" /\ loop' = loop
  <2>1. world' = world /\ loop' = loop
    BY DEF ResolveAsks, ResolveChecks, ResolveRecords, loops
  <2>2. ~ResolveAsks(r) => resolver[r].at # "idle"
    BY DEF ResolveChecks, ResolveRecords
  <2> QED BY <2>1, <2>2 DEF ResolveAsks, ResolveInv, NoResolve
<1>2. ResolveTypes /\ FloorHolds
  BY <1>1 DEF ResolveInv
<1>3. CASE ResolveAsks(r)
  <2>1. PICK s \in 1 .. MaxSeq :
          resolver' = [resolver EXCEPT ![r] = [at |-> "check", seq |-> s, floor |-> returned]]
    BY <1>3 DEF ResolveAsks
  <2>2. high' = high /\ returned' = returned
    BY <1>3 DEF ResolveAsks, disk
  <2>3. ResolveTypes'
    BY <1>1, <1>2, <2>1, <2>2, NodeLifeAssumption DEF ResolveTypes
  <2>4. FloorHolds'
    BY <1>2, <2>1, <2>2 DEF FloorHolds, ResolveTypes
  <2> QED BY <1>1, <2>3, <2>4 DEF ResolveInv
<1>4. CASE ResolveChecks(r)
  <2>1. /\ resolver[r].at = "check" /\ high' = high /\ returned' = returned
        /\ \/ resolver' = [resolver EXCEPT ![r] = NoResolve]
           \/ /\ ~(resolver[r].seq < high[Friend])
              /\ resolver' = [resolver EXCEPT ![r] = [resolver[r] EXCEPT !.at = "record"]]
    BY <1>4 DEF ResolveChecks, disk
  <2>2. resolver[r].seq \in Nat /\ resolver[r].floor \in Nat /\ high[Friend] \in Nat
    BY <1>2 DEF ResolveTypes
  <2>3. ResolveTypes'
    BY <1>1, <1>2, <2>1 DEF ResolveTypes, NoResolve
  <2>4. FloorHolds'
    BY <1>2, <2>1, <2>2 DEF FloorHolds, ResolveTypes, NoResolve
  <2> QED BY <1>1, <2>3, <2>4 DEF ResolveInv
<1>5. CASE ResolveRecords(r)
  <2>1. /\ resolver[r].at = "record" /\ resolver' = [resolver EXCEPT ![r] = NoResolve]
        /\ high' = [high EXCEPT ![Friend] = IF resolver[r].seq > high[Friend]
                                              THEN resolver[r].seq ELSE high[Friend]]
        /\ returned' = IF resolver[r].seq > returned THEN resolver[r].seq ELSE returned
    BY <1>5 DEF ResolveRecords, ipnsRecordSeq
  <2>2. /\ resolver[r].seq \in Nat /\ high[Friend] \in Nat /\ returned \in Nat
        /\ returned <= high[Friend]
    BY <1>2 DEF ResolveTypes, FloorHolds
  <2>3. ResolveTypes'
    BY <1>1, <1>2, <2>1, <2>2 DEF ResolveTypes, NoResolve
  <2>4. high'[Friend] \in Nat /\ high[Friend] <= high'[Friend] /\ returned' <= high'[Friend]
    BY <1>2, <2>1, <2>2 DEF ResolveTypes
  <2>5. FloorHolds'
    BY <1>2, <2>1, <2>2, <2>4 DEF FloorHolds, ResolveTypes, NoResolve
  <2> QED BY <1>1, <2>3, <2>5 DEF ResolveInv
<1> QED BY <1>3, <1>4, <1>5

\* Beside resolves, no loop runs.
LEMMA NoLoopRuns ==
  ASSUME ResolveInv, NEW n \in Nodes,
         \/ LoopLoads(n) \/ LoopStops(n) \/ LoopPicks(n) \/ LoopLooks(n)
         \/ PutValue(n) \/ PutFails(n) \/ LoopRecords(n) \/ LoopStores(n) \/ LoopWrites(n)
  PROVE  ResolveInv'
<1>1. loop[n].at # "off"
  BY DEF LoopLoads, LoopStops, LoopPicks, LoopLooks, PutValue, PutFails, LoopRecords,
         LoopStores, LoopWrites, At
<1>2. world # "resolve"
  BY <1>1 DEF ResolveInv, ResolveTypes, NoLoop
<1>3. world' = world /\ resolver' = resolver
  BY DEF LoopLoads, LoopStops, LoopPicks, LoopLooks, PutValue, PutFails, LoopRecords,
         LoopStores, LoopWrites, resolves
<1> QED BY <1>2, <1>3 DEF ResolveInv

LEMMA StepResolve == ASSUME ResolveInv, [Next]_vars PROVE ResolveInv'
<1>1. ASSUME NEW r \in Resolvers, ResolveAsks(r) \/ ResolveChecks(r) \/ ResolveRecords(r)
      PROVE  ResolveInv'
  BY <1>1, ResolvesInv
<1>2. ASSUME NEW n \in Nodes,
             \/ LoopLoads(n) \/ LoopStops(n) \/ LoopPicks(n) \/ LoopLooks(n)
             \/ PutValue(n) \/ PutFails(n) \/ LoopRecords(n) \/ LoopStores(n) \/ LoopWrites(n)
      PROVE  ResolveInv'
  BY <1>2, NoLoopRuns
<1>3. CASE Publish
  <2>1. /\ UNCHANGED <<world, high, resolver, returned>>
        /\ world # "identity" => loop' = [loop EXCEPT ![gNode].at = "off"]
    BY <1>3 DEF Publish, disk, resolves
  <2>2. ASSUME world = "resolve" PROVE loop' = loop
    BY <2>1, <2>2 DEF ResolveInv, ResolveTypes, NoLoop
  <2> QED BY <2>1, <2>2 DEF ResolveInv, ResolveTypes, FloorHolds
<1>4. CASE Crash
  BY <1>4 DEF Crash, ResolveInv, resolves
<1>5. CASE OpenNode \/ Build \/ AttemptFails \/ CloseServices \/ CloseCancels \/ CloseBars
           \/ CloseStore \/ FetchesChange \/ UNCHANGED vars
  <2>1. UNCHANGED resolveVars
    BY <1>5 DEF OpenNode, Build, AttemptFails, CloseServices, CloseCancels, CloseBars, CloseStore,
                FetchesChange, resolveVars, vars, names, disk, loops, resolves
  <2> QED BY <2>1, ResolveStill
<1>6. ASSUME NEW n \in Nodes,
             \/ RetryWakes(n) \/ RetryStops(n) \/ RetryTries(n)
             \/ Schedule(n) \/ CompactRuns(n) \/ CompactEnds(n) \/ CompactDone(n)
      PROVE  ResolveInv'
  <2>1. UNCHANGED resolveVars
    BY <1>6 DEF RetryWakes, RetryStops, RetryTries, Schedule, CompactRuns, CompactEnds,
                CompactDone, resolveVars, names, disk, loops, resolves
  <2> QED BY <2>1, ResolveStill
<1>7. CASE (\E k \in Keys : ImportBegins(k) \/ ImportCopiesNothing(k))
           \/ ImportBacksUp \/ ImportCopyFails \/ ImportInstalls \/ ImportFails
           \/ ImportDrops \/ ImportClears
  <2>1. UNCHANGED resolveVars
    BY <1>7 DEF ImportBegins, ImportCopiesNothing, Imports, ImportBacksUp, ImportCopyFails,
                Importing, ImportInstalls, ImportFails, ImportDrops, ImportClears,
                resolveVars, names, disk, loops, resolves
  <2> QED BY <2>1, ResolveStill
<1> QED BY <1>1, <1>2, <1>3, <1>4, <1>5, <1>6, <1>7 DEF Next

\* Any number of resolves may overlap between the comparison and the record
\* of ipnsAcceptSeq: none returns a record older than one that was returned
\* before it began.
THEOREM NothingRollsBack == Spec => NoRollback
<1>1. Init => ResolveInv
  <2> SUFFICES ASSUME Init PROVE ResolveInv
    OBVIOUS
  <2>1. /\ loop = [n \in Nodes |-> NoLoop] /\ high = [k \in Keys \cup {Friend} |-> 0]
        /\ resolver = [r \in Resolvers |-> NoResolve] /\ returned = 0
    BY DEF Init
  <2>2. ResolveTypes
    BY <2>1 DEF ResolveTypes, NoResolve
  <2>3. FloorHolds
    BY <2>1 DEF FloorHolds, NoResolve
  <2> QED BY <2>1, <2>2, <2>3 DEF ResolveInv
<1>2. ASSUME ResolveInv, [Next]_vars, NEW r \in Resolvers,
             resolver[r].at = "record", resolver'[r].at = "idle"
      PROVE  resolver[r].seq >= resolver[r].floor
  <2>1. world = "resolve"
    BY <1>2 DEF ResolveInv, NoResolve
  <2> QED BY <1>2, <2>1 DEF ResolveInv, ResolveTypes, FloorHolds
<1>3. ResolveInv /\ [Next]_vars =>
        [\A r \in Resolvers : resolver[r].at = "record" /\ resolver'[r].at = "idle"
           => resolver[r].seq >= resolver[r].floor]_vars
  BY <1>2
<1> QED BY <1>1, <1>3, StepResolve, PTL DEF Spec, NoRollback

-----------------------------------------------------------------------------
(* The network.  An attempt begins with nothing running and counts up, its *)
(* cleanup counts down to nothing, and only then a retry may come; of a    *)
(* node that is not the live one nothing runs, because closeNode leaves    *)
(* nothing.                                                                *)

NetTypes ==
  /\ live \in [Nodes -> [Parts -> Int]] /\ gNode \in 0 .. MaxOpens
  /\ opened \in 0 .. MaxOpens /\ step \in 0 .. Last + 1
  /\ mu \in {"free", "open", "retry", "close"}
  /\ retry \in [Nodes -> {"none", "asleep", "due"}]

Down(n) == live[n]["host"] = 0 /\ live[n]["exchange"] = 0 /\ live[n]["provider"] = 0

OthersDown == \A n \in Nodes : n # gNode => Down(n)

\* An attempt has built one of each part that it has come past.
BuiltSoFar ==
  Building => /\ gNode # None /\ step >= 1
              /\ live[gNode]["host"] = IF step > 1 THEN 1 ELSE 0
              /\ live[gNode]["exchange"] = IF step > 2 THEN 1 ELSE 0
              /\ live[gNode]["provider"] = IF step > 3 THEN 1 ELSE 0

Single ==
  gNode # None =>
    live[gNode]["host"] <= 1 /\ live[gNode]["exchange"] <= 1 /\ live[gNode]["provider"] <= 1

RetriesFromNothing ==
  ~Building /\ gNode # None /\ retry[gNode] # "none" => Down(gNode)

ClosesAll == mu = "close" => gNode # None /\ step >= 1 /\ (step >= 2 => Down(gNode))

NetInv ==
  NetTypes /\ OthersDown /\ BuiltSoFar /\ Single /\ RetriesFromNothing /\ ClosesAll

netVars == <<live, gNode, opened, mu, step, retry>>

LEMMA NetStill == ASSUME NetInv, UNCHANGED netVars PROVE NetInv'
BY DEF netVars, NetInv, NetTypes, OthersDown, BuiltSoFar, Single, RetriesFromNothing, ClosesAll,
       Down, Building

LEMMA PartsAre ==
  /\ Parts = {"host", "exchange", "provider", "mdns", "social"}
  /\ Built[1] = "host" /\ Built[2] = "exchange" /\ Built[3] = "provider"
  /\ Built[4] = "mdns" /\ Built[5] = "social"
  /\ Last = 5
<1>1. /\ Built[1] = "host" /\ Built[2] = "exchange" /\ Built[3] = "provider"
      /\ Built[4] = "mdns" /\ Built[5] = "social"
  BY DEF Built
<1>2. 1 .. Last = {1, 2, 3, 4, 5}
  BY DEF Last
<1> QED BY <1>1, <1>2 DEF Parts, Last

LEMMA OpenNodeNet == ASSUME NetInv, OpenNode PROVE NetInv'
<1> USE DEF NetInv
<1>1. /\ gNode = None /\ opened < MaxOpens /\ opened' = opened + 1 /\ gNode' = opened + 1
      /\ mu' = "open" /\ step' = 1 /\ live' = live /\ retry' = retry
  BY DEF OpenNode, net
<1>2. gNode' \in Nodes /\ gNode' # None
  BY <1>1, NodeLifeAssumption DEF NetTypes, Nodes, None
<1>3. Down(gNode')
  BY <1>1, <1>2 DEF OthersDown
<1>4. NetTypes'
  BY <1>1, NodeLifeAssumption DEF NetTypes, Last
<1>5. OthersDown'
  BY <1>1 DEF OthersDown, Down, None, Nodes
<1>6. BuiltSoFar' /\ Single' /\ RetriesFromNothing' /\ ClosesAll'
  BY <1>1, <1>2, <1>3 DEF BuiltSoFar, Single, RetriesFromNothing, ClosesAll, Down, Building
<1> QED BY <1>4, <1>5, <1>6

LEMMA BuildNet == ASSUME NetInv, Build PROVE NetInv'
<1> USE DEF NetInv
<1> DEFINE p == Built[step]
<1>1. /\ Building /\ step <= Last /\ step' = step + 1
      /\ live' = [live EXCEPT ![gNode][p] = live[gNode][p] + 1]
      /\ UNCHANGED <<gNode, opened, mu, retry>>
  BY DEF Build
<1>2. gNode \in Nodes /\ gNode # None /\ step \in 1 .. 5 /\ Building'
  BY <1>1, PartsAre DEF NetTypes, Nodes, None, BuiltSoFar, Building
<1>3. p \in Parts /\ live[gNode] \in [Parts -> Int]
  BY <1>2, PartsAre DEF NetTypes
<1>4. /\ live' \in [Nodes -> [Parts -> Int]]
      /\ \A n \in Nodes \ {gNode} : live'[n] = live[n]
      /\ \A q \in Parts : live'[gNode][q] = IF q = p THEN live[gNode][q] + 1 ELSE live[gNode][q]
  BY <1>1, <1>2, <1>3 DEF NetTypes
<1>5. /\ p = "host" <=> step = 1
      /\ p = "exchange" <=> step = 2
      /\ p = "provider" <=> step = 3
  BY <1>2, PartsAre
<1>6. /\ live'[gNode]["host"] = IF step + 1 > 1 THEN 1 ELSE 0
      /\ live'[gNode]["exchange"] = IF step + 1 > 2 THEN 1 ELSE 0
      /\ live'[gNode]["provider"] = IF step + 1 > 3 THEN 1 ELSE 0
  BY <1>1, <1>2, <1>4, <1>5, PartsAre DEF BuiltSoFar
<1>7. NetTypes'
  BY <1>1, <1>2, <1>4, PartsAre DEF NetTypes
<1>8. OthersDown'
  BY <1>1, <1>4 DEF OthersDown, Down
<1>9. BuiltSoFar' /\ Single' /\ RetriesFromNothing' /\ ClosesAll'
  BY <1>1, <1>2, <1>6 DEF BuiltSoFar, Single, RetriesFromNothing, ClosesAll, Building
<1> QED BY <1>7, <1>8, <1>9

LEMMA FailsNet == ASSUME NetInv, AttemptFails PROVE NetInv'
<1> USE DEF NetInv
<1> DEFINE cleaned == Cleaned \cap BuiltBefore(step)
<1>1. /\ Building /\ mu' = "free" /\ step' = 0
      /\ live' = [live EXCEPT ![gNode] =
                    [p \in Parts |-> IF p \in cleaned THEN live[gNode][p] - 1 ELSE live[gNode][p]]]
      /\ retry' = [retry EXCEPT ![gNode] = "asleep"]
      /\ UNCHANGED <<gNode, opened>>
  BY DEF AttemptFails
<1>2. gNode \in Nodes /\ gNode # None /\ step \in 1 .. 6 /\ ~Building'
  BY <1>1, PartsAre DEF NetTypes, Nodes, None, BuiltSoFar, Building
<1>3. live[gNode] \in [Parts -> Int]
  BY <1>2 DEF NetTypes
<1>4. /\ "host" \in cleaned <=> step > 1
      /\ "exchange" \in cleaned <=> step > 2
      /\ "provider" \in cleaned <=> step > 3
  BY <1>2, PartsAre DEF Cleaned, BuiltBefore
<1>5. /\ \A n \in Nodes \ {gNode} : live'[n] = live[n]
      /\ \A p \in Parts : live'[gNode][p] = IF p \in cleaned THEN live[gNode][p] - 1
                                                             ELSE live[gNode][p]
  BY <1>1, <1>2 DEF NetTypes
<1> HIDE DEF cleaned
<1>6. Down(gNode)'
  BY <1>1, <1>4, <1>5, PartsAre DEF Down, BuiltSoFar
<1>7. live' \in [Nodes -> [Parts -> Int]]
  BY <1>1, <1>2, <1>3 DEF NetTypes
<1>8. NetTypes'
  BY <1>1, <1>2, <1>7 DEF NetTypes, Last
<1>9. OthersDown'
  BY <1>1, <1>5 DEF OthersDown, Down
<1>10. BuiltSoFar' /\ Single' /\ RetriesFromNothing' /\ ClosesAll'
  BY <1>1, <1>2, <1>6 DEF BuiltSoFar, Single, RetriesFromNothing, ClosesAll, Down
<1> QED BY <1>8, <1>9, <1>10

LEMMA PublishNet == ASSUME NetInv, Publish PROVE NetInv'
<1> USE DEF NetInv
<1>1. /\ Building /\ mu' = "free" /\ step' = 0 /\ retry' = [retry EXCEPT ![gNode] = "none"]
      /\ UNCHANGED <<live, gNode, opened>>
  BY DEF Publish
<1>2. gNode \in Nodes /\ ~Building'
  BY <1>1 DEF NetTypes, Nodes, None, BuiltSoFar, Building
<1>3. retry'[gNode] = "none" /\ NetTypes'
  BY <1>1, <1>2 DEF NetTypes, Last
<1> QED BY <1>1, <1>2, <1>3
    DEF OthersDown, BuiltSoFar, Single, RetriesFromNothing, ClosesAll, Down

LEMMA RetryNet ==
  ASSUME NetInv, NEW n \in Nodes, RetryWakes(n) \/ RetryStops(n) \/ RetryTries(n)
  PROVE  NetInv'
<1> USE DEF NetInv
<1>1. UNCHANGED <<live, gNode, opened>>
  BY DEF RetryWakes, RetryStops, RetryTries
<1>2. CASE RetryTries(n) /\ gNode = n
  <2>1. retry[n] = "due" /\ mu = "free" /\ mu' = "retry" /\ step' = 1 /\ retry' = retry
    BY <1>2 DEF RetryTries
  <2>2. Down(gNode) /\ gNode # None
    BY <1>2, <2>1 DEF RetriesFromNothing, Building, Nodes, None
  <2>3. NetTypes'
    BY <1>1, <2>1 DEF NetTypes, Last
  <2> QED BY <1>1, <2>1, <2>2, <2>3
      DEF OthersDown, BuiltSoFar, Single, RetriesFromNothing, ClosesAll, Down, Building
<1>3. CASE ~(RetryTries(n) /\ gNode = n)
  <2>1. /\ retry[n] # "none" /\ UNCHANGED <<mu, step>>
        /\ \E s \in {"due", "none"} : retry' = [retry EXCEPT ![n] = s]
    BY <1>3 DEF RetryWakes, RetryStops, RetryTries
  <2>2. /\ retry' \in [Nodes -> {"none", "asleep", "due"}]
        /\ \A k \in Nodes : retry'[k] # "none" => retry[k] # "none"
    BY <2>1 DEF NetTypes
  <2>3. NetTypes'
    BY <1>1, <2>1, <2>2 DEF NetTypes
  <2>4. RetriesFromNothing'
    BY <1>1, <2>1, <2>2 DEF RetriesFromNothing, NetTypes, Nodes, None, Building, Down
  <2> QED BY <1>1, <2>1, <2>3, <2>4
      DEF OthersDown, BuiltSoFar, Single, ClosesAll, Down, Building
<1> QED BY <1>2, <1>3

LEMMA CloseNet ==
  ASSUME NetInv, CloseServices \/ CloseCancels \/ CloseBars \/ CloseStore
  PROVE  NetInv'
<1> USE DEF NetInv
<1>1. CASE CloseServices
  <2>1. /\ gNode # None /\ mu = "free" /\ mu' = "close" /\ step' = 1
        /\ live' = [live EXCEPT ![gNode] =
                      [p \in Parts |-> IF p \in {"mdns", "provider", "host"}
                                       THEN 0 ELSE live[gNode][p]]]
        /\ UNCHANGED <<gNode, opened, retry>>
    BY <1>1 DEF CloseServices
  <2>2. gNode \in Nodes
    BY <2>1 DEF NetTypes, Nodes, None
  <2>3. live' \in [Nodes -> [Parts -> Int]]
    BY <2>1, <2>2 DEF NetTypes
  <2>4. /\ \A n \in Nodes \ {gNode} : live'[n] = live[n]
        /\ live'[gNode]["host"] = 0 /\ live'[gNode]["provider"] = 0
        /\ live'[gNode]["exchange"] = live[gNode]["exchange"]
    BY <2>1, <2>2, PartsAre DEF NetTypes
  <2>5. NetTypes'
    BY <2>1, <2>3 DEF NetTypes, Last
  <2> QED BY <2>1, <2>4, <2>5
      DEF OthersDown, BuiltSoFar, Single, RetriesFromNothing, ClosesAll, Down, Building
<1>2. CASE CloseCancels
  <2>1. /\ mu = "close" /\ gNode # None /\ step' = 2
        /\ live' = [live EXCEPT ![gNode] = [p \in Parts |-> 0]]
        /\ UNCHANGED <<gNode, opened, mu, retry>>
    BY <1>2 DEF CloseCancels, Closing, ClosesAll
  <2>2. gNode \in Nodes
    BY <2>1 DEF NetTypes, Nodes, None
  <2>3. /\ live' \in [Nodes -> [Parts -> Int]]
        /\ \A n \in Nodes \ {gNode} : live'[n] = live[n]
        /\ live'[gNode] = [p \in Parts |-> 0]
    BY <2>1, <2>2 DEF NetTypes
  <2>4. Down(gNode)'
    BY <2>1, <2>3, PartsAre DEF Down
  <2>5. NetTypes'
    BY <2>1, <2>3 DEF NetTypes, Last
  <2> QED BY <2>1, <2>3, <2>4, <2>5
      DEF OthersDown, BuiltSoFar, Single, RetriesFromNothing, ClosesAll, Down, Building
<1>3. CASE CloseBars
  <2>1. /\ mu = "close" /\ step = 2 /\ step' = 3
        /\ UNCHANGED <<live, gNode, opened, mu, retry>>
    BY <1>3 DEF CloseBars, Closing, net
  <2>2. NetTypes'
    BY <2>1 DEF NetTypes, Last
  <2> QED BY <2>1, <2>2
      DEF OthersDown, BuiltSoFar, Single, RetriesFromNothing, ClosesAll, Down, Building
<1>4. CASE CloseStore
  <2>1. /\ mu = "close" /\ step = 3 /\ mu' = "free" /\ step' = 0 /\ gNode' = None
        /\ UNCHANGED <<live, opened, retry>>
    BY <1>4 DEF CloseStore, Closing, net
  <2>2. NetTypes'
    BY <2>1, NodeLifeAssumption DEF NetTypes, Last, None
  <2>3. \A n \in Nodes : Down(n)
    BY <2>1 DEF OthersDown, ClosesAll
  <2> QED BY <2>1, <2>2, <2>3
      DEF OthersDown, BuiltSoFar, Single, RetriesFromNothing, ClosesAll, Down, Building
<1> QED BY <1>1, <1>2, <1>3, <1>4

LEMMA CrashNet == ASSUME NetInv, Crash PROVE NetInv'
<1> USE DEF NetInv
<1>1. /\ gNode' = None /\ mu' = "free" /\ step' = 0 /\ opened' = opened
      /\ live' = [n \in Nodes |-> [p \in Parts |-> 0]]
      /\ retry' = [n \in Nodes |-> "none"]
  BY DEF Crash
<1>2. NetTypes'
  BY <1>1, NodeLifeAssumption DEF NetTypes, Last, None
<1>3. \A n \in Nodes : Down(n)'
  BY <1>1, PartsAre DEF Down
<1> QED BY <1>1, <1>2, <1>3
    DEF OthersDown, BuiltSoFar, Single, RetriesFromNothing, ClosesAll, Building

LEMMA StepNet == ASSUME NetInv, [Next]_vars PROVE NetInv'
<1>1. CASE OpenNode
  BY <1>1, OpenNodeNet
<1>2. CASE Build
  BY <1>2, BuildNet
<1>3. CASE Publish
  BY <1>3, PublishNet
<1>4. CASE AttemptFails
  BY <1>4, FailsNet
<1>5. CASE CloseServices \/ CloseCancels \/ CloseBars \/ CloseStore
  BY <1>5, CloseNet
<1>6. ASSUME NEW n \in Nodes, RetryWakes(n) \/ RetryStops(n) \/ RetryTries(n) PROVE NetInv'
  BY <1>6, RetryNet
<1>7. CASE Crash
  BY <1>7, CrashNet
<1>8. ASSUME NEW n \in Nodes,
             \/ Schedule(n) \/ CompactRuns(n) \/ CompactEnds(n) \/ CompactDone(n)
             \/ LoopLoads(n) \/ LoopStops(n) \/ LoopPicks(n) \/ LoopLooks(n)
             \/ PutValue(n) \/ PutFails(n) \/ LoopRecords(n) \/ LoopStores(n) \/ LoopWrites(n)
      PROVE  NetInv'
  <2>1. UNCHANGED netVars
    BY <1>8 DEF Schedule, CompactRuns, CompactEnds, CompactDone, LoopLoads, LoopStops, LoopPicks,
                LoopLooks, PutValue, PutFails, LoopRecords, LoopStores, LoopWrites, netVars,
                life, net
  <2> QED BY <2>1, NetStill
<1>9. CASE \/ FetchesChange \/ (\E k \in Keys : ImportBegins(k) \/ ImportCopiesNothing(k))
           \/ ImportBacksUp \/ ImportCopyFails \/ ImportInstalls \/ ImportFails
           \/ ImportDrops \/ ImportClears
           \/ (\E r \in Resolvers : ResolveAsks(r) \/ ResolveChecks(r) \/ ResolveRecords(r))
           \/ UNCHANGED vars
  <2>1. UNCHANGED netVars
    BY <1>9 DEF FetchesChange, ImportBegins, ImportCopiesNothing, Imports, ImportBacksUp, ImportCopyFails,
                Importing, ImportInstalls, ImportFails, ImportDrops, ImportClears, ResolveAsks, ResolveChecks, ResolveRecords, netVars, vars, life, net
  <2> QED BY <2>1, NetStill
<1> QED BY <1>1, <1>2, <1>3, <1>4, <1>5, <1>6, <1>7, <1>8, <1>9 DEF Next

LEMMA InitNet == Init => NetInv
<1> SUFFICES ASSUME Init PROVE NetInv
  OBVIOUS
<1>1. /\ gNode = None /\ opened = 0 /\ mu = "free" /\ step = 0
      /\ live = [n \in Nodes |-> [p \in Parts |-> 0]]
      /\ retry = [n \in Nodes |-> "none"]
  BY DEF Init
<1>2. NetTypes
  BY <1>1, NodeLifeAssumption DEF NetTypes, Last, None
<1>3. \A n \in Nodes : Down(n)
  BY <1>1, PartsAre DEF Down
<1> QED BY <1>1, <1>2, <1>3
    DEF NetInv, OthersDown, BuiltSoFar, Single, RetriesFromNothing, ClosesAll, Building

\* One host, one bitswap and one provider under the node's identity, and none for
\* a node that is closed, whatever attempts fail, at any of their steps, and are
\* retried or closed over (goOnline's cleanup, retryOnline, closeNode): OneNetwork.
THEOREM OneHost == Spec => []OneNetwork
<1>1. Init => NetInv
  BY InitNet
<1>2. NetInv => OneNetwork
  BY DEF NetInv, OthersDown, Single, OneNetwork, Down, NetTypes, Nodes, None
<1> QED BY <1>1, <1>2, StepNet, PTL DEF Spec

-----------------------------------------------------------------------------
(* The index.  What a loop signs it has read from ipns_self.cid, and the   *)
(* file is of the key that is installed, but for what comes between the    *)
(* rename and the removal of the file: a publish that began under the old  *)
(* key and writes its value after, a crash there, a removal that fails, a  *)
(* loop that starts there.  Nodes are opened one after the other and the key changes once,  *)
(* so that a node has the new key if one opened before it has.             *)

LateWrite == \E n \in Nodes : LoopWrites(n) /\ priv[n] # key
CutShort == Crash /\ importing.at = "drop"
KeptValue == ImportDrops /\ self' # NoKey
EarlyStart == \E n \in Nodes : LoopLoads(n) /\ importing.at = "drop"

Shape ==
  /\ DOMAIN loop = Nodes /\ DOMAIN priv = Nodes /\ DOMAIN current = Nodes
  /\ \A n \in Nodes : DOMAIN loop[n] = {"at", "cid", "seq"}

Unready(n) == loop[n].at = "off" /\ current[n] = NoKey

\* Only the node opened last is live; one that is not online has no loop.
Starting ==
  /\ gNode \in {None, opened}
  /\ ctx \subseteq Nodes \cap {gNode}
  /\ mu = "close" /\ step >= 2 => gNode \notin ctx
  /\ \A n \in Nodes : n > opened => Unready(n) /\ retry[n] = "none" /\ priv[n] = NoKey
  /\ \A n \in Nodes : retry[n] # "none" => Unready(n)
  /\ Building => Unready(gNode) /\ (step > 1 => priv[gNode] # NoKey)
  /\ \A n \in Nodes : loop[n].at # "off" => priv[n] # NoKey

\* The nodes have the key that is installed; once another is, those opened after
\* one that has it have it.
KeyOrder ==
  /\ importing = NoImport \/ importing.at \in {"backup", "install"}
       => \A n \in Nodes : priv[n] \in {NoKey, key}
  /\ importing.at \in {"backup", "install"} => importing.new # key
  /\ \A m, n \in Nodes : m < n /\ priv[m] = key /\ priv[n] # NoKey => priv[n] = key

\* What the file names is the installed key's, and the live node's if it has one.
OwnSelf ==
  importing.at # "drop" /\ self # NoKey =>
    /\ self = key
    /\ gNode # None => priv[gNode] \in {NoKey, key}

OwnLoops ==
  \A n \in Nodes :
    /\ n \in ctx /\ current[n] # NoKey => current[n] = priv[n]
    /\ loop[n].at \in {"look", "put", "record", "store", "write"} => loop[n].cid = priv[n]

OwnInv == Shape /\ Starting /\ KeyOrder /\ OwnSelf /\ OwnLoops /\ OwnIndexOnly

ownVars == <<gNode, opened, mu, step, ctx, retry, key, self, importing, priv, current, loop,
             signed>>

LEMMA OwnStill == ASSUME OwnInv, UNCHANGED ownVars PROVE OwnInv'
BY DEF ownVars, OwnInv, Shape, Starting, Unready, Building, KeyOrder, OwnSelf, OwnLoops,
       OwnIndexOnly

LEMMA LoopAt ==
  ASSUME Shape, NEW n \in Nodes, NEW from, NEW to, At(n, from, to)
  PROVE  /\ loop[n].at = from /\ loop'[n].at = to /\ loop'[n].cid = loop[n].cid
         /\ \A m \in Nodes : m # n => loop'[m] = loop[m]
         /\ DOMAIN loop' = Nodes /\ \A m \in Nodes : DOMAIN loop'[m] = {"at", "cid", "seq"}
BY DEF Shape, At

\* A loop that runs moves on: it is of a node that is online.
LEMMA LoopMoves ==
  ASSUME NetInv, OwnInv, NEW n \in Nodes, loop[n].at # "off",
         UNCHANGED <<gNode, opened, mu, step, ctx, retry, priv>>,
         \A m \in Nodes : m # n => loop'[m] = loop[m] /\ current'[m] = current[m]
  PROVE  Starting'
<1>1. \A m \in Nodes : m # n => Unready(m) = Unready(m)'
  BY DEF Unready
<1>2. n <= opened /\ retry[n] = "none" /\ (Building => gNode # n)
  BY DEF OwnInv, Starting, Unready, NetInv, NetTypes, Nodes
<1>3. priv[n] # NoKey
  BY DEF OwnInv, Starting
<1>4. Building => gNode \in Nodes
  BY DEF NetInv, NetTypes, BuiltSoFar, Nodes, None
<1> QED BY <1>1, <1>2, <1>3, <1>4 DEF OwnInv, Starting, Building

\* What the loop does, without what it reads or writes of the file.
LEMMA LoopTurns ==
  ASSUME NetInv, OwnInv, NEW n \in Nodes,
         \/ LoopStops(n) \/ LoopPicks(n) \/ LoopLooks(n) \/ PutValue(n) \/ PutFails(n)
         \/ LoopRecords(n) \/ LoopStores(n)
  PROVE  OwnInv'
<1> DEFINE Others == \A m \in Nodes : m # n => loop'[m] = loop[m] /\ current'[m] = current[m]
<1>1. /\ UNCHANGED <<gNode, opened, mu, step, ctx, retry, key, self, importing, priv>>
      /\ loop[n].at # "off"
  BY DEF LoopStops, LoopPicks, LoopLooks, PutValue, PutFails, LoopRecords, LoopStores, At, life,
         net, disk
<1>2. Shape' /\ Others
  <2>1. CASE LoopPicks(n)
    BY <2>1 DEF LoopPicks, OwnInv, Shape
  <2>2. CASE LoopLooks(n)
    BY <2>2 DEF LoopLooks, OwnInv, Shape
  <2>3. CASE LoopStops(n) \/ PutValue(n) \/ PutFails(n) \/ LoopRecords(n) \/ LoopStores(n)
    BY <2>3, LoopAt DEF LoopStops, PutValue, PutFails, LoopRecords, LoopStores, OwnInv, Shape
  <2> QED BY <2>1, <2>2, <2>3
<1>3. /\ loop'[n].at \in {"look", "put", "record", "store", "write"} => loop'[n].cid = priv[n]
      /\ current'[n] = current[n] \/ current'[n] = priv[n]
  <2>1. CASE LoopPicks(n)
    BY <2>1 DEF LoopPicks, OwnInv, Shape, OwnLoops
  <2>2. CASE LoopLooks(n)
    BY <2>2 DEF LoopLooks, OwnInv, Shape, OwnLoops
  <2>3. CASE LoopStops(n) \/ PutValue(n) \/ PutFails(n) \/ LoopRecords(n) \/ LoopStores(n)
    BY <2>3, LoopAt DEF LoopStops, PutValue, PutFails, LoopRecords, LoopStores, OwnInv, Shape,
                        OwnLoops
  <2> QED BY <2>1, <2>2, <2>3
<1>4. OwnIndexOnly'
  <2>1. signed' = signed \/ (loop[n].at = "put" /\ signed' = signed \cup {<<priv[n], loop[n].cid>>})
    BY DEF LoopStops, LoopPicks, LoopLooks, PutValue, PutFails, LoopRecords, LoopStores, At, Lands
  <2> QED BY <2>1 DEF OwnInv, OwnIndexOnly, OwnLoops
<1>5. Starting'
  BY <1>1, <1>2, LoopMoves
<1>6. KeyOrder' /\ OwnSelf'
  BY <1>1 DEF OwnInv, KeyOrder, OwnSelf
<1>7. OwnLoops'
  BY <1>1, <1>2, <1>3 DEF OwnInv, OwnLoops
<1> QED BY <1>2, <1>4, <1>5, <1>6, <1>7 DEF OwnInv

\* A loop that starts: the live node's reads its own index or nothing.
LEMMA LoopStarts ==
  ASSUME NetInv, OwnInv, NEW n \in Nodes, LoopLoads(n), importing.at # "drop"
  PROVE  OwnInv'
<1>1. /\ UNCHANGED <<gNode, opened, mu, step, ctx, retry, key, self, importing, priv, signed>>
      /\ At(n, "load", "rest")
      /\ current' = [current EXCEPT ![n] = IF self # NoKey THEN self ELSE current[n]]
  BY DEF LoopLoads, life, net, disk
<1>2. /\ loop[n].at = "load" /\ loop'[n].at = "rest" /\ loop'[n].cid = loop[n].cid /\ Shape'
      /\ \A m \in Nodes : m # n => loop'[m] = loop[m] /\ current'[m] = current[m]
      /\ current'[n] = IF self # NoKey THEN self ELSE current[n]
  BY <1>1, LoopAt DEF OwnInv, Shape
<1>3. Starting'
  BY <1>1, <1>2, LoopMoves
<1>4. KeyOrder' /\ OwnSelf' /\ OwnIndexOnly'
  BY <1>1 DEF OwnInv, KeyOrder, OwnSelf, OwnIndexOnly
<1>5. n \in ctx /\ self # NoKey => self = priv[n]
  <2>1. n \in ctx => gNode = n /\ gNode # None /\ priv[n] # NoKey
    BY <1>2 DEF OwnInv, Starting, Nodes, None
  <2> QED BY <2>1 DEF OwnInv, OwnSelf
<1>6. OwnLoops'
  BY <1>1, <1>2, <1>5 DEF OwnInv, OwnLoops
<1> QED BY <1>2, <1>3, <1>4, <1>6 DEF OwnInv

\* A publish whose value is written while its key is the installed one.
LEMMA LoopWritesOwn ==
  ASSUME NetInv, OwnInv, NEW n \in Nodes, LoopWrites(n), priv[n] = key
  PROVE  OwnInv'
<1>1. /\ UNCHANGED <<gNode, opened, mu, step, ctx, retry, key, importing, priv, current, signed>>
      /\ At(n, "write", "rest") /\ self' = loop[n].cid
  BY DEF LoopWrites, life, net
<1>2. /\ loop[n].at = "write" /\ loop'[n].at = "rest" /\ loop'[n].cid = loop[n].cid /\ Shape'
      /\ \A m \in Nodes : m # n => loop'[m] = loop[m]
  BY <1>1, LoopAt DEF OwnInv, Shape
<1>3. Starting'
  BY <1>1, <1>2, LoopMoves
<1>4. KeyOrder' /\ OwnIndexOnly'
  BY <1>1 DEF OwnInv, KeyOrder, OwnIndexOnly
<1>5. OwnLoops'
  BY <1>1, <1>2 DEF OwnInv, OwnLoops
<1>6. OwnSelf'
  <2>1. self' = key /\ n <= opened
    BY <1>1, <1>2 DEF OwnInv, OwnLoops, Starting, Unready, NetInv, NetTypes, Nodes
  <2>2. ASSUME gNode # None PROVE priv[gNode] \in {NoKey, key}
    <3>1. gNode = opened /\ gNode \in Nodes
      BY <2>2 DEF OwnInv, Starting, NetInv, NetTypes, Nodes, None
    <3>2. gNode = n \/ n < gNode
      BY <2>1, <3>1 DEF Nodes
    <3> QED BY <3>1, <3>2 DEF OwnInv, KeyOrder
  <2> QED BY <1>1, <2>1, <2>2 DEF OwnSelf
<1> QED BY <1>2, <1>3, <1>4, <1>5, <1>6 DEF OwnInv

\* A node that is opened, and built with the key that is installed.
LEMMA OpenOwn == ASSUME NetInv, OwnInv, OpenNode PROVE OwnInv'
<1>1. /\ UNCHANGED <<retry, key, self, importing, priv, current, loop, signed>>
      /\ opened' = opened + 1 /\ gNode' = opened + 1 /\ ctx' = ctx \cup {opened + 1}
      /\ mu' = "open" /\ step' = 1 /\ gNode = None
      /\ opened + 1 \in Nodes /\ opened \in Nat
  BY NodeLifeAssumption DEF OpenNode, net, names, disk, loops, NetInv, NetTypes, Nodes
<1>2. ctx = {}
  BY <1>1 DEF OwnInv, Starting, Nodes, None
<1>3. Unready(opened + 1) /\ priv[opened + 1] = NoKey
  BY <1>1 DEF OwnInv, Starting
<1>4. \A n \in Nodes : Unready(n)' = Unready(n)
  BY <1>1 DEF Unready
<1>5. Starting'
  <2>1. \A n \in Nodes : n > opened' => n > opened
    BY <1>1 DEF Nodes
  <2>2. Unready(gNode)'
    BY <1>1, <1>3 DEF Unready
  <2> QED BY <1>1, <1>2, <1>4, <2>1, <2>2 DEF OwnInv, Starting
<1>6. OwnLoops'
  BY <1>1, <1>2, <1>3 DEF OwnInv, OwnLoops, Unready
<1>7. Shape' /\ KeyOrder' /\ OwnSelf' /\ OwnIndexOnly'
  BY <1>1, <1>3 DEF OwnInv, Shape, KeyOrder, OwnSelf, OwnIndexOnly
<1> QED BY <1>5, <1>6, <1>7 DEF OwnInv

LEMMA BuildOwn == ASSUME NetInv, KeyInv, OwnInv, Build PROVE OwnInv'
<1>1. /\ UNCHANGED <<gNode, opened, mu, ctx, retry, key, self, importing, current, loop, signed>>
      /\ Building /\ step' = step + 1 /\ step \in Nat /\ step >= 1
      /\ gNode \in Nodes /\ gNode = opened
      /\ priv' = [priv EXCEPT ![gNode] = IF step = 1 THEN key ELSE priv[gNode]]
  BY DEF Build, disk, NetInv, NetTypes, BuiltSoFar, Nodes, None, OwnInv, Starting, Last
<1>2. /\ DOMAIN priv' = Nodes /\ \A n \in Nodes : n # gNode => priv'[n] = priv[n]
      /\ priv'[gNode] = IF step = 1 THEN key ELSE priv[gNode]
  BY <1>1 DEF OwnInv, Shape
<1>3. key # NoKey
  BY NodeLifeAssumption DEF KeyInv, NoKey
<1>4. Unready(gNode)
  BY <1>1 DEF OwnInv, Starting
<1>5. priv'[gNode] # NoKey
  BY <1>1, <1>2, <1>3 DEF OwnInv, Starting
<1>6. Starting'
  <2>1. \A n \in Nodes : Unready(n)' = Unready(n)
    BY <1>1 DEF Unready
  <2>2. \A n \in Nodes : n > opened => n # gNode
    BY <1>1 DEF Nodes
  <2> QED BY <1>1, <1>2, <1>4, <1>5, <2>1, <2>2 DEF OwnInv, Starting, Building, Unready
<1>7. KeyOrder'
  <2>1. \A n \in Nodes : priv[n] \in {NoKey, key} => priv'[n] \in {NoKey, key}
    BY <1>2
  <2>2. ASSUME NEW m \in Nodes, NEW n \in Nodes, m < n, priv'[m] = key, priv'[n] # NoKey
        PROVE  priv'[n] = key
    <3>1. CASE m = gNode
      BY <1>1, <1>2, <2>2, <3>1 DEF OwnInv, Starting, Nodes
    <3>2. CASE m # gNode /\ n # gNode
      BY <1>2, <2>2, <3>2 DEF OwnInv, KeyOrder
    <3>3. CASE m # gNode /\ n = gNode
      BY <1>2, <2>2, <3>3 DEF OwnInv, KeyOrder
    <3> QED BY <3>1, <3>2, <3>3
  <2> QED BY <1>1, <2>1, <2>2 DEF OwnInv, KeyOrder
<1>8. OwnSelf'
  BY <1>1, <1>2 DEF OwnInv, OwnSelf
<1>9. OwnLoops'
  BY <1>1, <1>2, <1>4 DEF OwnInv, OwnLoops, Unready
<1> QED BY <1>1, <1>2, <1>6, <1>7, <1>8, <1>9 DEF OwnInv, Shape, OwnIndexOnly

\* The attempt that goes through starts the loop; one that fails is retried.
LEMMA AttemptOwn == ASSUME NetInv, OwnInv, Publish \/ AttemptFails PROVE OwnInv'
<1>1. /\ UNCHANGED <<gNode, opened, ctx, key, self, importing, priv, current, signed>>
      /\ Building /\ mu' = "free" /\ gNode \in Nodes /\ Unready(gNode) /\ gNode <= opened
  BY DEF Publish, AttemptFails, names, disk, loops, NetInv, NetTypes, BuiltSoFar, Nodes, None,
         OwnInv, Starting
<1>2. KeyOrder' /\ OwnSelf' /\ OwnIndexOnly'
  BY <1>1 DEF OwnInv, KeyOrder, OwnSelf, OwnIndexOnly
<1>3. CASE Publish
  <2>1. /\ retry' = [retry EXCEPT ![gNode] = "none"] /\ step > 1
        /\ \E to \in {"load", "off"} : loop' = [loop EXCEPT ![gNode].at = to]
    <3>1. world = "identity" \/ world # "identity"
      OBVIOUS
    <3>2. step > 1 /\ retry' = [retry EXCEPT ![gNode] = "none"]
      BY <1>3 DEF Publish, Last
    <3>3. loop' = [loop EXCEPT ![gNode].at = "load"] \/ loop' = [loop EXCEPT ![gNode].at = "off"]
      BY <1>3, <3>1 DEF Publish
    <3> QED BY <3>2, <3>3
  <2>2. /\ Shape' /\ retry'[gNode] = "none" /\ loop'[gNode].at \in {"load", "off"}
        /\ \A m \in Nodes : m # gNode => loop'[m] = loop[m] /\ retry'[m] = retry[m]
    BY <1>1, <2>1 DEF OwnInv, Shape, NetInv, NetTypes
  <2>3. \A m \in Nodes : m # gNode => Unready(m) = Unready(m)'
    BY <1>1, <2>2 DEF Unready
  <2>4. Starting'
    BY <1>1, <2>1, <2>2, <2>3 DEF OwnInv, Starting, Building, NetInv, NetTypes, Nodes
  <2>5. OwnLoops'
    BY <1>1, <2>2 DEF OwnInv, OwnLoops
  <2> QED BY <1>2, <2>2, <2>4, <2>5 DEF OwnInv
<1>4. CASE AttemptFails
  <2>1. loop' = loop /\ retry' = [retry EXCEPT ![gNode] = "asleep"]
    BY <1>4 DEF AttemptFails, names, loops
  <2>2. \A m \in Nodes : Unready(m)' = Unready(m) /\ (m # gNode => retry'[m] = retry[m])
    BY <1>1, <2>1 DEF Unready, NetInv, NetTypes
  <2>3. Starting'
    BY <1>1, <2>1, <2>2 DEF OwnInv, Starting, Building, NetInv, NetTypes, Nodes
  <2> QED BY <1>1, <1>2, <2>1, <2>3 DEF OwnInv, Shape, OwnLoops
<1> QED BY <1>3, <1>4

LEMMA RetryOwn ==
  ASSUME NetInv, OwnInv, NEW n \in Nodes, RetryWakes(n) \/ RetryStops(n) \/ RetryTries(n)
  PROVE  OwnInv'
<1>1. /\ UNCHANGED <<gNode, opened, ctx, key, self, importing, priv, current, loop, signed>>
      /\ retry[n] # "none"
  BY DEF RetryWakes, RetryStops, RetryTries, names, disk, loops
<1>2. /\ \A m \in Nodes : retry'[m] # "none" => retry[m] # "none"
      /\ (mu' = mu /\ step' = step) \/ (gNode = n /\ mu' = "retry" /\ step' = 1)
  BY DEF RetryWakes, RetryStops, RetryTries, NetInv, NetTypes
<1>3. \A m \in Nodes : Unready(m)' = Unready(m)
  BY <1>1 DEF Unready
<1>4. Unready(n)
  BY <1>1 DEF OwnInv, Starting
<1>5. Starting'
  BY <1>1, <1>2, <1>3, <1>4 DEF OwnInv, Starting, Building, Unready
<1> QED BY <1>1, <1>5 DEF OwnInv, Shape, KeyOrder, OwnSelf, OwnLoops, OwnIndexOnly

LEMMA CloseOwn ==
  ASSUME NetInv, OwnInv, CloseServices \/ CloseCancels \/ CloseBars \/ CloseStore
  PROVE  OwnInv'
<1>1. /\ UNCHANGED <<opened, retry, key, self, importing, priv, current, loop, signed>>
      /\ gNode' \in {gNode, None} /\ mu' \in {"close", "free"} /\ ctx' \subseteq ctx
  BY DEF CloseServices, CloseCancels, CloseBars, CloseStore, Closing, net, names, disk, loops
<1>2. /\ mu' = "close" /\ step' >= 2 => gNode' \notin ctx'
      /\ ctx' \subseteq {gNode'}
  BY DEF CloseServices, CloseCancels, CloseBars, CloseStore, Closing, OwnInv, Starting
<1>3. \A m \in Nodes : Unready(m)' = Unready(m)
  BY <1>1 DEF Unready
<1>4. Starting'
  BY <1>1, <1>2, <1>3 DEF OwnInv, Starting, Building
<1> QED BY <1>1, <1>4 DEF OwnInv, Shape, KeyOrder, OwnSelf, OwnLoops, OwnIndexOnly

LEMMA CrashOwn == ASSUME OwnInv, Crash, importing.at # "drop", KeyInv PROVE OwnInv'
<1>1. /\ UNCHANGED <<opened, key, self, priv, current, signed>>
      /\ gNode' = None /\ mu' = "free" /\ retry' = [n \in Nodes |-> "none"] /\ ctx' = {}
      /\ loop' = [n \in Nodes |-> NoLoop]
      /\ importing' = [importing EXCEPT !.at = "none"]
  BY DEF Crash, disk
<1>2. importing'.at = "none" /\ (importing' = NoImport => importing = NoImport)
  <2>1. /\ importing'.at = "none" /\ importing'.new = importing.new
        /\ importing'.old = importing.old /\ importing'.node = importing.node
        /\ importing'.whole = importing.whole
    BY <1>1 DEF KeyInv
  <2>2. importing' = NoImport => importing.at = "none"
    BY <2>1, NodeLifeAssumption DEF KeyInv, NoImport, NoKey
  <2> QED BY <2>1, <2>2 DEF KeyInv, NoImport
<1>3. \A n \in Nodes : loop'[n].at = "off" /\ DOMAIN loop'[n] = {"at", "cid", "seq"}
  BY <1>1 DEF NoLoop
<1>4. Starting'
  BY <1>1, <1>3 DEF OwnInv, Starting, Unready, Building
<1>5. KeyOrder' /\ OwnSelf' /\ OwnIndexOnly'
  BY <1>1, <1>2 DEF OwnInv, KeyOrder, OwnSelf, OwnIndexOnly
<1>6. Shape' /\ OwnLoops'
  BY <1>1, <1>3 DEF OwnInv, Shape, OwnLoops
<1> QED BY <1>4, <1>5, <1>6 DEF OwnInv

\* The import: no node has the key that it installs, and the file goes.
LEMMA ImportOwn ==
  ASSUME NetInv, KeyInv, OwnInv, ~KeptValue,
         \/ \E k \in Keys : ImportBegins(k) \/ ImportCopiesNothing(k)
         \/ ImportBacksUp \/ ImportCopyFails \/ ImportInstalls \/ ImportFails
         \/ ImportDrops \/ ImportClears
  PROVE  OwnInv'
<1>1. /\ UNCHANGED <<gNode, opened, mu, step, ctx, retry, priv, loop, signed>>
      /\ self' \in {self, NoKey} /\ DOMAIN current' = Nodes
      /\ \A n \in Nodes : current'[n] \in {current[n], NoKey}
  <2>1. UNCHANGED <<gNode, opened, mu, step, ctx, retry, priv, loop, signed>>
        /\ self' \in {self, NoKey}
    BY DEF ImportBegins, ImportCopiesNothing, Imports, ImportBacksUp, ImportCopyFails,
                Importing, ImportInstalls, ImportFails, ImportDrops, ImportClears, life, net,
           loops, disk
  <2>2. current' = current \/ current' = [current EXCEPT ![importing.node] = NoKey]
    BY DEF ImportBegins, ImportCopiesNothing, Imports, ImportBacksUp, ImportCopyFails,
                Importing, ImportInstalls, ImportFails, ImportDrops, ImportClears, loops
  <2> QED BY <2>1, <2>2 DEF OwnInv, Shape
<1>2. \A n \in Nodes : Unready(n) => Unready(n)'
  BY <1>1 DEF Unready
<1>3. Building => gNode \in Nodes
  BY DEF NetInv, NetTypes, BuiltSoFar, Nodes, None
<1>4. Starting'
  BY <1>1, <1>2, <1>3 DEF OwnInv, Starting, Building
<1>5. Shape' /\ OwnLoops' /\ OwnIndexOnly'
  BY <1>1 DEF OwnInv, Shape, OwnLoops, OwnIndexOnly
<1>6. ASSUME NEW k \in Keys, ImportBegins(k) \/ ImportCopiesNothing(k)
      PROVE  KeyOrder' /\ OwnSelf'
  <2>1. /\ importing = NoImport /\ k # key /\ key' = key /\ self' = self
        /\ importing'.at \in {"backup", "install"} /\ importing'.new = k
        /\ importing.at = "none"
    BY <1>6 DEF ImportBegins, ImportCopiesNothing, Imports, NoImport, disk
  <2> QED BY <1>1, <2>1 DEF OwnInv, KeyOrder, OwnSelf
<1>7. CASE ImportBacksUp \/ ImportCopyFails \/ ImportFails
  <2>1. /\ importing.at \in {"backup", "install"} /\ importing'.at \in {"install", "none"}
        /\ importing'.new = importing.new /\ key' = key /\ self' = self
    BY <1>7 DEF ImportBacksUp, ImportCopyFails, ImportFails, Importing, KeyInv, disk
  <2> QED BY <1>1, <1>4, <1>5, <2>1 DEF OwnInv, KeyOrder, OwnSelf
<1>8. CASE ImportInstalls
  <2>1. /\ importing.at = "install" /\ importing'.at = "drop"
        /\ key' = importing.new /\ key' # NoKey /\ key' # key
    BY <1>8, NodeLifeAssumption DEF ImportInstalls, Importing, KeyInv, OwnInv, KeyOrder, NoKey
  <2>2. \A n \in Nodes : priv[n] \in {NoKey, key}
    BY <2>1 DEF OwnInv, KeyOrder
  <2>3. importing' # NoImport
    BY <2>1 DEF NoImport
  <2> QED BY <1>1, <1>4, <1>5, <2>1, <2>2, <2>3 DEF OwnInv, KeyOrder, OwnSelf
<1>9. CASE ImportDrops \/ ImportClears
  <2>1. /\ importing.at \in {"drop", "clear"} /\ importing'.at \in {"clear", "none"}
        /\ importing'.new = importing.new /\ importing.new # NoKey
        /\ key' = key /\ (importing.at = "drop" => self' = NoKey) /\ (self' = NoKey \/ self' = self)
    BY <1>9, NodeLifeAssumption DEF KeptValue, ImportDrops, ImportClears, Importing, KeyInv, disk, NoKey
  <2>2. importing' # NoImport
    BY <2>1 DEF NoImport
  <2> QED BY <1>1, <1>4, <1>5, <2>1, <2>2 DEF OwnInv, KeyOrder, OwnSelf
<1> QED BY <1>4, <1>5, <1>6, <1>7, <1>8, <1>9 DEF OwnInv

LEMMA StepOwn ==
  ASSUME NetInv, KeyInv, OwnInv, [Next]_vars, [~LateWrite /\ ~CutShort /\ ~KeptValue /\ ~EarlyStart]_vars
  PROVE  OwnInv'
<1>1. CASE UNCHANGED ownVars
  BY <1>1, OwnStill
<1>2. ASSUME vars' # vars PROVE ~LateWrite /\ ~CutShort /\ ~KeptValue /\ ~EarlyStart
  BY <1>2
<1>3. ASSUME NEW n \in Nodes, LoopLoads(n) \/ LoopWrites(n) PROVE OwnInv'
  <2>1. CASE UNCHANGED vars
    BY <1>1, <2>1 DEF vars, ownVars, life, net, names, disk, loops
  <2>2. CASE LoopLoads(n) /\ vars' # vars
    BY <1>2, <2>2, LoopStarts DEF EarlyStart
  <2>3. CASE LoopWrites(n) /\ vars' # vars
    BY <1>2, <2>3, LoopWritesOwn DEF LateWrite
  <2> QED BY <1>3, <2>1, <2>2, <2>3
<1>4. ASSUME NEW n \in Nodes,
             \/ LoopStops(n) \/ LoopPicks(n) \/ LoopLooks(n) \/ PutValue(n) \/ PutFails(n)
             \/ LoopRecords(n) \/ LoopStores(n)
      PROVE  OwnInv'
  BY <1>4, LoopTurns
<1>5. ASSUME NEW n \in Nodes, RetryWakes(n) \/ RetryStops(n) \/ RetryTries(n) PROVE OwnInv'
  BY <1>5, RetryOwn
<1>6. CASE Crash
  <2>1. CASE UNCHANGED vars
    BY <1>1, <2>1 DEF vars, ownVars, life, net, names, disk, loops
  <2>2. CASE vars' # vars
    BY <1>2, <1>6, <2>2, CrashOwn DEF CutShort
  <2> QED BY <2>1, <2>2
<1>7. CASE OpenNode \/ Build \/ Publish \/ AttemptFails
  BY <1>7, OpenOwn, BuildOwn, AttemptOwn
<1>8. CASE CloseServices \/ CloseCancels \/ CloseBars \/ CloseStore
  BY <1>8, CloseOwn
<1>9. CASE (\E k \in Keys : ImportBegins(k) \/ ImportCopiesNothing(k))
           \/ ImportBacksUp \/ ImportCopyFails \/ ImportInstalls \/ ImportFails
           \/ ImportDrops \/ ImportClears
  <2>1. CASE UNCHANGED vars
    BY <1>1, <2>1 DEF vars, ownVars, life, net, names, disk, loops
  <2>2. CASE vars' # vars
    BY <1>2, <1>9, <2>2, ImportOwn
  <2> QED BY <2>1, <2>2
<1>10. CASE FetchesChange \/ UNCHANGED vars
            \/ (\E r \in Resolvers : ResolveAsks(r) \/ ResolveChecks(r) \/ ResolveRecords(r))
  <2>1. UNCHANGED ownVars
    BY <1>10 DEF FetchesChange, ResolveAsks, ResolveChecks, ResolveRecords, ownVars, vars, life,
                 net, names, disk, loops
  <2> QED BY <1>1, <2>1
<1>11. ASSUME NEW n \in Nodes,
              Schedule(n) \/ CompactRuns(n) \/ CompactEnds(n) \/ CompactDone(n)
       PROVE  OwnInv'
  <2>1. UNCHANGED ownVars
    BY <1>11 DEF Schedule, CompactRuns, CompactEnds, CompactDone, ownVars, net, names, disk, loops
  <2> QED BY <1>1, <2>1
<1> QED BY <1>3, <1>4, <1>5, <1>6, <1>7, <1>8, <1>9, <1>10, <1>11 DEF Next

\* The index of one identity is never signed with another's key, over any opens,
\* failed attempts, publishes and crashes and one import, but for four steps about it:
\* a publish that began before the rename writes its value after it, the process
\* dies between the rename and the removal of the value, the removal fails, or a
\* loop starts before it (importIdentity, ipns.go:337-343, ipnsPublish, ipnsLoadSelf).
THEOREM OnlyAnImportCanMix ==
  Spec /\ [][~LateWrite /\ ~CutShort /\ ~KeptValue /\ ~EarlyStart]_vars => []OwnIndexOnly
<1>1. Init => NetInv /\ KeyInv /\ OwnInv
  <2> SUFFICES ASSUME Init PROVE NetInv /\ KeyInv /\ OwnInv
    OBVIOUS
  <2>1. Shape /\ \A n \in Nodes : Unready(n)
    BY DEF Init, Shape, Unready, NoLoop
  <2>2. gNode = None /\ ctx = {} /\ mu = "free" /\ opened = 0
        /\ \A n \in Nodes : retry[n] = "none" /\ priv[n] = NoKey
    BY DEF Init
  <2>3. Starting
    BY <2>1, <2>2 DEF Starting, Unready, Building
  <2>4. importing = NoImport /\ importing.at = "none" /\ signed = {} /\ self \in {NoKey, key}
    BY DEF Init, NoImport
  <2>5. KeyOrder /\ OwnSelf
    <3>1. key \in Keys /\ key # NoKey
      BY NodeLifeAssumption DEF Init, NoKey
    <3> QED BY <2>2, <2>4, <3>1 DEF KeyOrder, OwnSelf
  <2>6. OwnLoops /\ OwnIndexOnly
    BY <2>1, <2>2, <2>4 DEF OwnLoops, OwnIndexOnly, Unready
  <2> QED BY <2>1, <2>3, <2>5, <2>6, InitNet, InitKey DEF OwnInv
<1>2. OwnInv => OwnIndexOnly
  BY DEF OwnInv
<1> QED BY <1>1, <1>2, StepNet, StepKey, StepOwn, PTL DEF Spec
=============================================================================
