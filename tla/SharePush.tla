----------------------------- MODULE SharePush ------------------------------
(***************************************************************************)
(* How a node hands one friend the libraries it shares (friend.go): every  *)
(* change, and every request of the friend's, sends the complete set, a    *)
(* snapshot.  Pushes coalesce through pushPending, a snapshot carries a    *)
(* stamp, each rides a stream of its own, and the friend's app keeps the   *)
(* one with the highest stamp.                                             *)
(*                                                                         *)
(* What is shared is known by its version: each change makes a new one.    *)
(***************************************************************************)
EXTENDS Naturals, FiniteSets

CONSTANTS
  MaxVersion, MaxSeq, MaxCalls  \* bounds: changes, snapshots, calls at a time

ASSUME SharePushAssumption == {MaxVersion, MaxSeq, MaxCalls} \subseteq Nat \ {0}

VARIABLES
  stable,      \* in this behavior the friendship stands, no process ends and no
               \* message is lost
  version,     \* what shareLibs holds for the friend
  served,      \* the friend is an accepted contact
  entering,    \* calls of pushSnapshot that have not looked at the contact
  checked,     \* ... that have, and are about to take shareMu
  pushPending, \* a push is scheduled, or is thought to be
  scheduled,   \* goroutines that have not run yet
  sendSeq,     \* the last stamp
  sending,     \* snapshots being sent: the stream is dialled, opened, written
  taken,       \* at the friend: this node is an accepted contact
  emitted,     \* at the friend: snapshots handed to the app, not yet applied
  record       \* at the friend: the snapshot its app has applied

pushVars == <<stable, version, served, entering, checked, pushPending, scheduled, sendSeq,
          sending, taken, emitted, record>>

Snapshots == [seq : 0..MaxSeq, version : 0..MaxVersion]

PushTypeOK ==
  /\ {version} \subseteq 0..MaxVersion /\ sendSeq \in 0..MaxSeq
  /\ {stable, served, pushPending, taken} \subseteq BOOLEAN
  /\ {entering, checked} \subseteq 0..MaxCalls /\ entering + checked <= MaxCalls
  /\ scheduled \in Nat
  /\ sending \subseteq Snapshots /\ emitted \subseteq Snapshots /\ record \in Snapshots

\* A call of pushSnapshot comes in: each takes a stamp at most.
Enter ==
  /\ entering + checked < MaxCalls /\ entering + checked + scheduled + sendSeq < MaxSeq
  /\ entering' = entering + 1
Change == version < MaxVersion /\ version' = version + 1
AtFriend == <<taken, emitted, record>>

\* The user shares a library or takes it back: VgShareLibrary, VgUnshareLibrary.
SetShareLib ==
  /\ Change /\ Enter
  /\ UNCHANGED <<stable, served, checked, pushPending, scheduled, sendSeq, sending, AtFriend>>

\* A library_req is dispatched, of an accepted friend.
LibraryReq ==
  /\ served /\ Enter
  /\ UNCHANGED <<stable, version, served, checked, pushPending, scheduled, sendSeq, sending, AtFriend>>

\* pushSnapshot: only accepted friends are served.
CheckContact ==
  /\ entering > 0 /\ entering' = entering - 1
  /\ checked' = IF served THEN checked + 1 ELSE checked
  /\ UNCHANGED <<stable, version, served, pushPending, scheduled, sendSeq, sending, AtFriend>>

\* A push whose snapshot is being sent taken for one that is scheduled.
SchedulePushInFlight ==
  /\ checked > 0 /\ checked' = checked - 1
  /\ pushPending' = TRUE
  /\ scheduled' = IF pushPending \/ sending # {} THEN scheduled ELSE scheduled + 1
  /\ UNCHANGED <<stable, version, served, entering, sendSeq, sending, AtFriend>>

\* ... and a push that is scheduled serves this call, too.
SchedulePush ==
  /\ checked > 0 /\ checked' = checked - 1
  /\ pushPending' = TRUE
  /\ scheduled' = IF pushPending THEN scheduled ELSE scheduled + 1
  /\ UNCHANGED <<stable, version, served, entering, sendSeq, sending, AtFriend>>

\* The goroutine, in one section: clears the mark, reads the set, takes a stamp.
TakeSnapshot ==
  /\ scheduled > 0 /\ scheduled' = scheduled - 1
  /\ pushPending' = FALSE
  /\ sendSeq' = sendSeq + 1
  /\ sending' = sending \cup {[seq |-> sendSeq + 1, version |-> version]}
  /\ UNCHANGED <<stable, version, served, entering, checked, AtFriend>>

\* The friendship ends, and the shares with it: purgeShares.
PurgeShares ==
  /\ ~stable /\ Change
  /\ served' = FALSE
  /\ pushPending' = FALSE
  /\ UNCHANGED <<stable, entering, checked, scheduled, sendSeq, sending, AtFriend>>

Accepted ==
  /\ ~served /\ served' = TRUE
  /\ UNCHANGED <<stable, version, entering, checked, pushPending, scheduled, sendSeq, sending, AtFriend>>

\* Stamps that start from nothing again.
RestartUnseeded ==
  /\ ~stable /\ Change
  /\ pushPending' = FALSE /\ entering' = 0 /\ checked' = 0 /\ scheduled' = 0
  /\ sendSeq' = 0
  /\ UNCHANGED <<stable, served, sending, AtFriend>>

\* shareLibs is empty in the next run; stamps start from the clock, above all.
RestartSharing ==
  /\ ~stable /\ Change
  /\ pushPending' = FALSE /\ entering' = 0 /\ checked' = 0 /\ scheduled' = 0
  /\ UNCHANGED <<stable, served, sendSeq, sending, AtFriend>>

(***************************************************************************)
(* The friend.                                                             *)
(***************************************************************************)
\* dispatch: a snapshot is emitted if its sender is an accepted contact.
DispatchLibrary(m) ==
  /\ m \in sending
  /\ sending' = sending \ {m}
  /\ emitted' = IF taken THEN emitted \cup {m} ELSE emitted
  /\ UNCHANGED <<stable, version, served, entering, checked, pushPending, scheduled, sendSeq, taken, record>>

LoseSnapshot(m) ==
  /\ ~stable /\ m \in sending
  /\ sending' = sending \ {m}
  /\ UNCHANGED <<stable, version, served, entering, checked, pushPending, scheduled, sendSeq, AtFriend>>

\* The app applies what is newer than its record.
Apply(m) ==
  /\ m \in emitted
  /\ emitted' = emitted \ {m}
  /\ record' = IF m.seq > record.seq THEN m ELSE record
  /\ UNCHANGED <<stable, version, served, entering, checked, pushPending, scheduled, sendSeq, sending, taken>>

\* The friend revokes its own side, or takes it up again.
FriendTurns ==
  /\ ~stable /\ taken' = ~taken
  /\ UNCHANGED <<stable, version, served, entering, checked, pushPending, scheduled, sendSeq,
                 sending, emitted, record>>

PushInit ==
  /\ stable \in BOOLEAN
  /\ version = 0 /\ sendSeq = 0 /\ entering = 0 /\ checked = 0 /\ scheduled = 0
  /\ served = TRUE /\ taken = TRUE /\ pushPending = FALSE
  /\ sending = {} /\ emitted = {}
  /\ record = [seq |-> 0, version |-> 0]

Push == CheckContact \/ SchedulePush \/ TakeSnapshot
Receive == \E m \in Snapshots : DispatchLibrary(m) \/ Apply(m)

PushNext ==
  \/ SetShareLib \/ LibraryReq \/ Push \/ Receive
  \/ PurgeShares \/ Accepted \/ RestartSharing \/ FriendTurns
  \/ \E m \in Snapshots : LoseSnapshot(m)

PushSpec == PushInit /\ [][PushNext]_pushVars

\* Goroutines run, and what is sent and not lost is received.
PushFairness ==
  /\ WF_pushVars(CheckContact) /\ WF_pushVars(SchedulePush) /\ WF_pushVars(TakeSnapshot)
  /\ \A m \in Snapshots : WF_pushVars(DispatchLibrary(m)) /\ WF_pushVars(Apply(m))

FairPushSpec == PushSpec /\ PushFairness

(***************************************************************************)
(* Properties.                                                             *)
(***************************************************************************)
\* No update is coalesced away: as long as the friend is served, a set that no
\* snapshot has been taken of has a push to come (pushSnapshot's comment).
\* A set left by a purge or a restart is pushed when it changes next.
Pushed == version \in {m.version : m \in sending \cup emitted \cup {record}}
NewestIsPushed ==
  stable /\ ~Pushed => entering + checked + scheduled > 0

\* A mark that a push is scheduled never outlives the push: it would silence
\* every later one.
MarkIsTrue == pushPending => scheduled > 0

\* The stamps order the snapshots as the sets were, over purges and restarts:
\* so the friend's app never replaces a newer set by an older one.
StampsOrderSnapshots ==
  \A m, n \in sending \cup emitted \cup {record} : m.seq < n.seq => m.version <= n.version

\* A change reaches the friend's record, if the friendship stands and nothing is
\* lost, however the streams overtake each other.
ChangesArrive ==
  \A v \in 1..MaxVersion : stable /\ version = v ~> record.version >= v
=============================================================================
