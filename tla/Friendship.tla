----------------------------- MODULE Friendship -----------------------------
(***************************************************************************)
(* The friend handshake (friend.go) over the address books (social.go) of  *)
(* some nodes.  A book outlives its process: every change of it is saved   *)
(* before the lock is released (a failed write is not modelled).  A        *)
(* message rides a stream of its own, opened off-thread: it may be lost,   *)
(* and two messages of one node may arrive in any order.                   *)
(*                                                                         *)
(* A stream is refused when it is opened by a blocked peer; its messages   *)
(* are dispatched later, whatever the book says by then.                   *)
(***************************************************************************)
EXTENDS Naturals, FiniteSets

CONSTANTS
  Nodes,
  Worlds  \* the environments looked at: "calm"; "lossy", messages are lost and
          \* processes end; "rough", users also decline, unfriend and block

ASSUME FriendshipAssumption == Worlds \subseteq {"calm", "lossy", "rough"}

VARIABLES
  world,   \* the environment of this behavior
  book,    \* per node and peer, contact.State, "none" without a contact
  net,     \* the messages on their way: sends under way, streams not yet open
  open,    \* the messages of opened streams, not yet dispatched
  shares,  \* the peers for which a node's shareLibs holds a library
  call,    \* per node, the user call half done: what it is, and which peer's
  asked    \* history: who ever asked to be, or accepted to be, whose friend

vars == <<world, book, net, open, shares, call, asked>>

Pairs == {p \in Nodes \X Nodes : p[1] # p[2]}
States == {"none", "pending", "incoming", "accepted", "blocked"}
Messages == [type : {"request", "accept", "decline"}, from : Nodes, to : Nodes]

TypeOK ==
  /\ world \in Worlds
  /\ book \in [Pairs -> States]
  /\ net \subseteq Messages /\ open \subseteq Messages
  /\ shares \subseteq Pairs
  /\ call \in [Nodes -> [what : {"idle", "decline", "block", "remove"}, peer : Nodes]]
  /\ asked \subseteq Pairs

Lossy == world # "calm"
Revocable == world = "rough"

Msg(t, a, b) == [type |-> t, from |-> a, to |-> b]
send(t, a, b) == net' = net \cup {Msg(t, a, b)}
Set(a, b, s) == book' = [book EXCEPT ![<<a, b>>] = s]

\* The user of a asks for, or agrees to, the friendship of b: history.
Ask(a, b) == asked' = asked \cup {<<a, b>>}

\* No user call of a is under way: they come one after the other.
Free(a) == call[a].what = "idle"
Begin(w, a, b) == call' = [call EXCEPT ![a] = [what |-> w, peer |-> b]]
End(a) == Begin("idle", a, a)

(***************************************************************************)
(* What the users do.                                                      *)
(***************************************************************************)
addFriend(a, b) ==
  /\ Free(a)
  /\ book' = [book EXCEPT ![<<a, b>>] = IF @ = "accepted" THEN @ ELSE "pending"]
  /\ send("request", a, b)
  /\ Ask(a, b)
  /\ UNCHANGED <<world, open, shares, call>>

\* The code accepts anyone; the app offers it for a request that came in.
acceptFriend(a, b) ==
  /\ Free(a) /\ book[<<a, b>>] = "incoming"
  /\ Set(a, b, "accepted")
  /\ send("accept", a, b)
  /\ Ask(a, b)
  /\ UNCHANGED <<world, open, shares, call>>

declineFriend(a, b) ==
  /\ Revocable /\ Free(a) /\ book[<<a, b>>] # "none"
  /\ Set(a, b, "none")
  /\ Begin("decline", a, b)
  /\ UNCHANGED <<world, net, open, shares, asked>>

\* Blocking that goes on serving.
blockFriendServing(a, b) ==
  /\ Revocable /\ Free(a)
  /\ Set(a, b, "blocked")
  /\ UNCHANGED <<world, net, open, shares, call, asked>>

blockFriend(a, b) ==
  /\ Revocable /\ Free(a)
  /\ Set(a, b, "blocked")
  /\ Begin("block", a, b)
  /\ UNCHANGED <<world, net, open, shares, asked>>

\* Their second section, and the decline that is sent then.
purgeShares(a) ==
  LET b == call[a].peer
  IN  /\ \/ call[a].what = "decline" /\ send("decline", a, b)
         \/ call[a].what = "block" /\ UNCHANGED net
      /\ shares' = shares \ {<<a, b>>}
      /\ End(a)
      /\ UNCHANGED <<world, book, open, asked>>

\* VgFriendRemove purges first, removes then, and tells nobody.
VgFriendRemove(a, b) ==
  /\ Revocable /\ Free(a) /\ book[<<a, b>>] # "none"
  /\ shares' = shares \ {<<a, b>>}
  /\ Begin("remove", a, b)
  /\ UNCHANGED <<world, book, net, open, asked>>

remove(a) ==
  /\ call[a].what = "remove"
  /\ Set(a, call[a].peer, "none")
  /\ End(a)
  /\ UNCHANGED <<world, net, open, shares, asked>>

\* The app shares with its friends only.
setShareLib(a, b) ==
  /\ Free(a) /\ book[<<a, b>>] = "accepted"
  /\ shares' = shares \cup {<<a, b>>}
  /\ UNCHANGED <<world, book, net, open, call, asked>>

removeShareLib(a, b) ==
  /\ Free(a)
  /\ shares' = shares \ {<<a, b>>}
  /\ UNCHANGED <<world, book, net, open, call, asked>>

(***************************************************************************)
(* What the service does.                                                  *)
(***************************************************************************)
\* startPresence's tick sends every pending request again.
RetryTick(a) ==
  /\ net' = net \cup {Msg("request", a, b) : b \in {x \in Nodes \ {a} :
                                                 book[<<a, x>>] = "pending"}}
  /\ UNCHANGED <<world, book, open, shares, call, asked>>

\* handleStream: everything from a blocked peer is dropped.
OpenStream(m) ==
  /\ m \in net
  /\ net' = net \ {m}
  /\ open' = IF book[<<m.to, m.from>>] = "blocked" THEN open ELSE open \cup {m}
  /\ UNCHANGED <<world, book, shares, call, asked>>

\* A new contact made as the pending one addFriend makes.
DispatchRequestPending(m) ==
  /\ m \in open /\ m.type = "request"
  /\ open' = open \ {m}
  /\ Set(m.to, m.from, IF book[<<m.to, m.from>>] = "blocked" THEN "blocked" ELSE "accepted")
  /\ net' = IF book[<<m.to, m.from>>] \in {"pending", "none"}
            THEN net \cup {Msg("accept", m.to, m.from)} ELSE net
  /\ UNCHANGED <<world, shares, call, asked>>

\* A crossing request that is not answered.
DispatchRequestSilent(m) ==
  /\ m \in open /\ m.type = "request"
  /\ open' = open \ {m}
  /\ LET s == book[<<m.to, m.from>>]
     IN  Set(m.to, m.from, IF s = "pending" THEN "accepted"
                           ELSE IF s = "none" THEN "incoming" ELSE s)
  /\ UNCHANGED <<world, net, shares, call, asked>>

\* A request completes the handshake if it crosses ours, which is answered.
DispatchRequest(m) ==
  LET s == book[<<m.to, m.from>>]
  IN  /\ m \in open /\ m.type = "request"
      /\ open' = open \ {m}
      /\ \/ s = "pending" /\ Set(m.to, m.from, "accepted") /\ send("accept", m.to, m.from)
         \/ s = "none" /\ Set(m.to, m.from, "incoming") /\ UNCHANGED net
         \/ s \notin {"pending", "none"} /\ UNCHANGED <<book, net>>
      /\ UNCHANGED <<world, shares, call, asked>>

\* An accept is believed whatever the contact's state.
DispatchAccept(m) ==
  /\ m \in open /\ m.type = "accept"
  /\ open' = open \ {m}
  /\ Set(m.to, m.from, "accepted")
  /\ UNCHANGED <<world, net, shares, call, asked>>

DispatchDecline(m) ==
  /\ m \in open /\ m.type = "decline"
  /\ open' = open \ {m}
  /\ Set(m.to, m.from, "none")
  /\ UNCHANGED <<world, net, shares, call, asked>>

Lose(m) ==
  /\ Lossy /\ m \in net
  /\ net' = net \ {m}
  /\ UNCHANGED <<world, book, open, shares, call, asked>>

\* The process ends and starts again with the book it saved.
Restart(a) ==
  /\ Lossy
  /\ open' = {m \in open : m.to # a}
  /\ shares' = {p \in shares : p[1] # a}
  /\ End(a)
  /\ UNCHANGED <<world, book, net, asked>>

Init ==
  /\ world \in Worlds
  /\ book = [p \in Pairs |-> "none"]
  /\ net = {} /\ open = {} /\ shares = {}
  /\ call = [a \in Nodes |-> [what |-> "idle", peer |-> a]]
  /\ asked = {}

Dispatch(m) == DispatchRequest(m) \/ DispatchAccept(m) \/ DispatchDecline(m)

Next ==
  \/ \E p \in Pairs :
       \/ addFriend(p[1], p[2]) \/ acceptFriend(p[1], p[2])
       \/ declineFriend(p[1], p[2]) \/ blockFriend(p[1], p[2]) \/ VgFriendRemove(p[1], p[2])
       \/ setShareLib(p[1], p[2]) \/ removeShareLib(p[1], p[2])
  \/ \E a \in Nodes : purgeShares(a) \/ remove(a) \/ RetryTick(a) \/ Restart(a)
  \/ \E m \in Messages : OpenStream(m) \/ Dispatch(m) \/ Lose(m)

Spec == Init /\ [][Next]_vars

(***************************************************************************)
(* Fairness: the ticker ticks, an opened stream is read, and a message     *)
(* that is sent again and again gets through once.                         *)
(***************************************************************************)
Fairness ==
  /\ \A a \in Nodes : WF_vars(RetryTick(a)) /\ WF_vars(purgeShares(a)) /\ WF_vars(remove(a))
  /\ \A m \in Messages : SF_vars(OpenStream(m)) /\ WF_vars(Dispatch(m))

FairSpec == Spec /\ Fairness

(***************************************************************************)
(* Properties.                                                             *)
(***************************************************************************)
\* Nobody is anybody's friend unless both users asked for it at some time: no
\* crossing, retry or stale message makes a friendship out of one request.
BothAsked ==
  \A p \in Pairs : book[p] = "accepted" => p \in asked /\ <<p[2], p[1]>> \in asked

\* A blocked peer is served no library, once the call that blocked it is over.
BlockedIsUnserved ==
  \A p \in Pairs : book[p] = "blocked" /\ Free(p[1]) => p \notin shares

\* Two users who both asked, however their messages cross and are repeated, are
\* friends on both sides once all is delivered, if nothing is lost.
CrossingSettles ==
  world = "calm" /\ net = {} /\ open = {} =>
    \A p \in Pairs : p \in asked /\ <<p[2], p[1]>> \in asked => book[p] = "accepted"

\* "Both sides converge to accepted instead of the initiator hanging in pending
\* forever" (dispatch), as the request is sent again until it is answered.
NeverHangs ==
  \A p \in Pairs : (book[p] = "pending" /\ book[<<p[2], p[1]>>] = "accepted")
                     ~> book[p] # "pending"

\* "A friendship is mutual-consent" (social.go): a contact becomes a friend by
\* the user's own accept, or while the request of the user's is pending.
ConsentIsMutual ==
  [][\A p \in Pairs : book[p] # "accepted" /\ book'[p] = "accepted" =>
       book[p] = "pending" \/ acceptFriend(p[1], p[2])]_vars

\* purgeShares is "called when the friendship ends (remove/decline/block) so a
\* later re-add cannot silently resume serving without fresh consent".
ResumesNothing ==
  [][\A p \in Pairs : book[p] # "accepted" /\ book'[p] = "accepted" => p \notin shares]_vars
=============================================================================
