----------------------------- MODULE FriendProofs -----------------------------
(***************************************************************************)
(* What friend.go promises, for any nodes and any number of changes.       *)
(*                                                                         *)
(* The handshake: consent is a fact about the messages as much as about    *)
(* the books, a request on its way is its sender's asking, an accept both  *)
(* users'.  That crossing requests settle is a fact about pairs: while a   *)
(* waits for b, who asked too, something is on its way that ends the wait. *)
(* A share is of a friend, or about to be purged, but for two steps.       *)
(*                                                                         *)
(* The library pushes: the next stamp is above all, and what is shared now *)
(* is the newest.  That no set is coalesced away needs the order of the    *)
(* stamps again, or the friend's app could drop the newest set for an      *)
(* older one.                                                              *)
(***************************************************************************)
EXTENDS Friendship, SharePush, TLAPS

\* The messages that are sent and not dispatched.
Underway == net \cup open

Kinds ==
  /\ book \in [Pairs -> States]
  /\ Underway \subseteq {m \in Messages : m.from # m.to}
  /\ call \in [Nodes -> [what : {"idle", "decline", "block", "remove"}, peer : Nodes]]
  /\ \A a \in Nodes : call[a].what # "idle" => call[a].peer # a

\* What no two users of a pair do at once: the calls of a, about b.
UserCall(a, b) ==
  \/ addFriend(a, b) \/ acceptFriend(a, b)
  \/ declineFriend(a, b) \/ blockFriend(a, b) \/ VgFriendRemove(a, b)
  \/ setShareLib(a, b) \/ removeShareLib(a, b)

LEMMA PairIs ==
  /\ \A p \in Pairs : p[1] \in Nodes /\ p[2] \in Nodes /\ p[1] # p[2] /\ p = <<p[1], p[2]>>
  /\ \A a, b \in Nodes : a # b => <<a, b>> \in Pairs
BY DEF Pairs

LEMMA NextIs ==
  ASSUME [Next]_vars
  PROVE  \/ \E a, b \in Nodes : a # b /\ UserCall(a, b)
         \/ \E a \in Nodes : purgeShares(a) \/ remove(a) \/ RetryTick(a) \/ Restart(a)
         \/ \E m \in Messages : OpenStream(m) \/ Dispatch(m) \/ Lose(m)
         \/ UNCHANGED vars
BY PairIs DEF Next, UserCall

\* A message that a's tick sends again.
Retried(a, m) ==
  \E b \in Nodes \ {a} : /\ book[<<a, b>>] = "pending"
                         /\ m = [type |-> "request", from |-> a, to |-> b]

LEMMA Retries ==
  ASSUME NEW a \in Nodes, RetryTick(a)
  PROVE  /\ book' = book /\ call' = call /\ open' = open /\ asked' = asked /\ shares' = shares
         /\ world' = world
         /\ net \subseteq net'
         /\ \A m \in Underway' : m \in Underway \/ Retried(a, m)
<1>1. /\ book' = book /\ call' = call /\ open' = open /\ asked' = asked /\ shares' = shares
      /\ world' = world
  BY DEF RetryTick
<1>2. /\ net \subseteq net'
      /\ \A m \in net' : m \in net \/ Retried(a, m)
  BY DEF RetryTick, Retried, Msg
<1> QED BY <1>1, <1>2 DEF Underway

LEMMA KindsStep == ASSUME Kinds, [Next]_vars PROVE Kinds'
<1> USE PairIs DEF send, Set, Msg, Begin, End, Free
<1>1. ASSUME NEW a \in Nodes, NEW b \in Nodes, a # b, UserCall(a, b) PROVE Kinds'
  <2>1. /\ \/ book' = book \/ \E s \in States : book' = [book EXCEPT ![<<a, b>>] = s]
        /\ \/ call' = call
           \/ \E w \in {"decline", "block", "remove"} :
                call' = [call EXCEPT ![a] = [what |-> w, peer |-> b]]
        /\ open' = open
        /\ \/ net' = net
           \/ \E t \in {"request", "accept"} : net' = net \cup {[type |-> t, from |-> a, to |-> b]}
    <3>1. CASE addFriend(a, b)
      BY <3>1 DEF addFriend, Kinds, States
    <3>2. CASE ~addFriend(a, b)
      BY <1>1, <3>2 DEF UserCall, acceptFriend, declineFriend, blockFriend, VgFriendRemove,
                        setShareLib, removeShareLib, States
    <3> QED BY <3>1, <3>2
  <2>2. book' \in [Pairs -> States]
    BY <2>1 DEF Kinds
  <2>3. /\ call' \in [Nodes -> [what : {"idle", "decline", "block", "remove"}, peer : Nodes]]
        /\ \A x \in Nodes : call'[x].what # "idle" => call'[x].peer # x
    BY <1>1, <2>1 DEF Kinds
  <2>4. Underway' \subseteq {m \in Messages : m.from # m.to}
    BY <1>1, <2>1 DEF Kinds, Underway, Messages
  <2> QED BY <2>2, <2>3, <2>4 DEF Kinds
<1>2. ASSUME NEW a \in Nodes, purgeShares(a) \/ remove(a) PROVE Kinds'
  <2>1. /\ call[a].what # "idle" /\ call[a].peer \in Nodes /\ call[a].peer # a
        /\ call' = [call EXCEPT ![a] = [what |-> "idle", peer |-> a]] /\ open' = open
        /\ book' = book \/ book' = [book EXCEPT ![<<a, call[a].peer>>] = "none"]
        /\ \/ net' = net
           \/ net' = net \cup {[type |-> "decline", from |-> a, to |-> call[a].peer]}
    BY <1>2 DEF purgeShares, remove, Kinds
  <2>2. book' \in [Pairs -> States]
    BY <2>1 DEF Kinds, States
  <2>3. Underway' \subseteq {m \in Messages : m.from # m.to}
    BY <2>1 DEF Kinds, Underway, Messages
  <2> QED BY <2>1, <2>2, <2>3 DEF Kinds
<1>3. ASSUME NEW a \in Nodes, RetryTick(a) PROVE Kinds'
  <2>1. /\ book' = book /\ call' = call
        /\ \A m \in Underway' : m \in Underway \/ Retried(a, m)
    BY <1>3, Retries
  <2>2. ASSUME NEW m \in Underway' PROVE m \in Messages /\ m.from # m.to
    <3>1. CASE m \in Underway
      BY <3>1 DEF Kinds
    <3>2. CASE Retried(a, m)
      <4>1. PICK b \in Nodes \ {a} : m = [type |-> "request", from |-> a, to |-> b]
        BY <3>2 DEF Retried
      <4> QED BY <4>1 DEF Messages
    <3> QED BY <2>1, <3>1, <3>2
  <2>3. Underway' \subseteq {m \in Messages : m.from # m.to}
    BY <2>2
  <2> QED BY <2>1, <2>3 DEF Kinds
<1>4. ASSUME NEW a \in Nodes, Restart(a) PROVE Kinds'
  BY <1>4 DEF Restart, Kinds, Underway
<1>5. ASSUME NEW m \in Messages, OpenStream(m) \/ Lose(m) PROVE Kinds'
  BY <1>5 DEF OpenStream, Lose, Kinds, Underway
<1>6. ASSUME NEW m \in Messages, Dispatch(m) PROVE Kinds'
  <2>1. m \in Underway /\ m.from \in Nodes /\ m.to \in Nodes /\ m.from # m.to
    BY <1>6 DEF Dispatch, DispatchRequest, DispatchAccept, DispatchDecline, Kinds, Underway,
                Messages
  <2>2. /\ call' = call /\ open' \subseteq open
        /\ book' = book \/ \E s \in States : book' = [book EXCEPT ![<<m.to, m.from>>] = s]
        /\ \/ net' = net
           \/ net' = net \cup {[type |-> "accept", from |-> m.to, to |-> m.from]}
    BY <1>6 DEF Dispatch, DispatchRequest, DispatchAccept, DispatchDecline, States
  <2>3. Underway' \subseteq {x \in Messages : x.from # x.to}
    BY <2>1, <2>2 DEF Kinds, Underway, Messages
  <2> QED BY <2>1, <2>2, <2>3 DEF Kinds
<1>7. CASE UNCHANGED vars
  BY <1>7 DEF vars, Kinds, Underway
<1> QED BY <1>1, <1>2, <1>3, <1>4, <1>5, <1>6, <1>7, NextIs

-----------------------------------------------------------------------------
(* Consent.                                                                *)

Both(a, b) == <<a, b>> \in asked /\ <<b, a>> \in asked

\* What a book knows was asked.
BooksAsked ==
  \A a, b \in Nodes : a # b =>
    /\ book[<<a, b>>] = "pending" => <<a, b>> \in asked
    /\ book[<<a, b>>] = "incoming" => <<b, a>> \in asked
    /\ book[<<a, b>>] = "accepted" => Both(a, b)

\* ... and what a message says was.
MessagesAsked ==
  \A m \in Underway : /\ m.type = "request" => <<m.from, m.to>> \in asked
                      /\ m.type = "accept" => Both(m.from, m.to)

Consent == BooksAsked /\ MessagesAsked

\* A step of consent: a contact changes to what was asked, or to nothing, and
\* what is sent was asked.
LEMMA ConsentKept ==
  ASSUME Consent, asked \subseteq asked',
         \A a, b \in Nodes : a # b =>
           \/ book'[<<a, b>>] = book[<<a, b>>]
           \/ book'[<<a, b>>] \in {"none", "blocked"}
           \/ book'[<<a, b>>] = "pending" /\ <<a, b>> \in asked'
           \/ book'[<<a, b>>] = "incoming" /\ <<b, a>> \in asked'
           \/ <<a, b>> \in asked' /\ <<b, a>> \in asked',
         \A m \in Underway' : \/ m \in Underway \/ m.type = "decline"
                              \/ m.type = "request" /\ <<m.from, m.to>> \in asked'
                              \/ <<m.from, m.to>> \in asked' /\ <<m.to, m.from>> \in asked'
  PROVE  Consent'
<1>1. BooksAsked'
  BY DEF Consent, BooksAsked, Both
<1>2. MessagesAsked'
  BY DEF Consent, MessagesAsked, Both
<1> QED BY <1>1, <1>2 DEF Consent

LEMMA ConsentStep == ASSUME Kinds, Consent, [Next]_vars PROVE Consent'
<1> USE PairIs DEF send, Set, Msg, Ask
<1>1. ASSUME NEW a \in Nodes, NEW b \in Nodes, a # b, addFriend(a, b) PROVE Consent'
  <2>1. /\ asked' = asked \cup {<<a, b>>} /\ open' = open
        /\ net' = net \cup {[type |-> "request", from |-> a, to |-> b]}
        /\ book' = [book EXCEPT ![<<a, b>>] = IF @ = "accepted" THEN @ ELSE "pending"]
    BY <1>1 DEF addFriend
  <2>2. \A m \in Underway' : m \in Underway \/ (m.type = "request" /\ <<m.from, m.to>> \in asked')
    BY <2>1 DEF Underway
  <2>3. \A x, y \in Nodes : x # y =>
          \/ book'[<<x, y>>] = book[<<x, y>>]
          \/ book'[<<x, y>>] = "pending" /\ <<x, y>> \in asked'
    BY <2>1 DEF Kinds
  <2> QED BY <2>1, <2>2, <2>3, ConsentKept
<1>2. ASSUME NEW a \in Nodes, NEW b \in Nodes, a # b, acceptFriend(a, b) PROVE Consent'
  <2>1. /\ asked' = asked \cup {<<a, b>>} /\ open' = open
        /\ net' = net \cup {[type |-> "accept", from |-> a, to |-> b]}
        /\ book[<<a, b>>] = "incoming" /\ book' = [book EXCEPT ![<<a, b>>] = "accepted"]
    BY <1>2 DEF acceptFriend
  <2>2. <<b, a>> \in asked
    BY <1>2, <2>1 DEF Consent, BooksAsked
  <2>3. \A m \in Underway' :
          m \in Underway \/ (<<m.from, m.to>> \in asked' /\ <<m.to, m.from>> \in asked')
    BY <2>1, <2>2 DEF Underway
  <2>4. \A x, y \in Nodes : x # y =>
          \/ book'[<<x, y>>] = book[<<x, y>>]
          \/ <<x, y>> \in asked' /\ <<y, x>> \in asked'
    BY <2>1, <2>2 DEF Kinds
  <2> QED BY <2>1, <2>3, <2>4, ConsentKept
<1>3. ASSUME NEW m \in Messages, DispatchRequest(m) PROVE Consent'
  <2>1. /\ m \in Underway /\ m.from \in Nodes /\ m.to \in Nodes /\ m.from # m.to
        /\ m.type = "request" /\ asked' = asked /\ open' \subseteq open
    BY <1>3 DEF DispatchRequest, Kinds, Underway, Messages
  <2>2. <<m.from, m.to>> \in asked
    BY <2>1 DEF Consent, MessagesAsked
  <2>3. CASE book[<<m.to, m.from>>] = "pending"
    <3>1. /\ book' = [book EXCEPT ![<<m.to, m.from>>] = "accepted"]
          /\ net' = net \cup {[type |-> "accept", from |-> m.to, to |-> m.from]}
      BY <1>3, <2>3 DEF DispatchRequest
    <3>2. <<m.to, m.from>> \in asked
      BY <2>1, <2>3 DEF Consent, BooksAsked
    <3>3. \A x \in Underway' :
            x \in Underway \/ (<<x.from, x.to>> \in asked' /\ <<x.to, x.from>> \in asked')
      BY <2>1, <2>2, <3>1, <3>2 DEF Underway
    <3>4. \A x, y \in Nodes : x # y =>
            \/ book'[<<x, y>>] = book[<<x, y>>]
            \/ <<x, y>> \in asked' /\ <<y, x>> \in asked'
      BY <2>1, <2>2, <3>1, <3>2 DEF Kinds
    <3> QED BY <2>1, <3>3, <3>4, ConsentKept
  <2>4. CASE book[<<m.to, m.from>>] # "pending"
    <3>1. /\ net' = net
          /\ book' = book \/ book' = [book EXCEPT ![<<m.to, m.from>>] = "incoming"]
      BY <1>3, <2>4 DEF DispatchRequest
    <3>2. \A x, y \in Nodes : x # y =>
            \/ book'[<<x, y>>] = book[<<x, y>>]
            \/ book'[<<x, y>>] = "incoming" /\ <<y, x>> \in asked'
      BY <2>1, <2>2, <3>1 DEF Kinds
    <3>3. Underway' \subseteq Underway
      BY <2>1, <3>1 DEF Underway
    <3> QED BY <2>1, <3>2, <3>3, ConsentKept
  <2> QED BY <2>3, <2>4
<1>4. ASSUME NEW m \in Messages, DispatchAccept(m) PROVE Consent'
  <2>1. /\ m \in Underway /\ m.from \in Nodes /\ m.to \in Nodes /\ m.from # m.to
        /\ m.type = "accept" /\ asked' = asked /\ Underway' \subseteq Underway
        /\ book' = [book EXCEPT ![<<m.to, m.from>>] = "accepted"]
    BY <1>4 DEF DispatchAccept, Kinds, Underway, Messages
  <2>2. <<m.from, m.to>> \in asked /\ <<m.to, m.from>> \in asked
    BY <2>1 DEF Consent, MessagesAsked, Both
  <2>3. \A x, y \in Nodes : x # y =>
          \/ book'[<<x, y>>] = book[<<x, y>>]
          \/ <<x, y>> \in asked' /\ <<y, x>> \in asked'
    BY <2>1, <2>2 DEF Kinds
  <2> QED BY <2>1, <2>3, ConsentKept
<1>5. ASSUME NEW a \in Nodes, RetryTick(a) PROVE Consent'
  <2>1. /\ book' = book /\ asked' = asked
        /\ \A m \in Underway' : m \in Underway \/ Retried(a, m)
    BY <1>5, Retries
  <2>2. ASSUME NEW m \in Underway', m \notin Underway
        PROVE  m.type = "request" /\ <<m.from, m.to>> \in asked'
    <3>1. PICK b \in Nodes \ {a} : /\ book[<<a, b>>] = "pending"
                                  /\ m = [type |-> "request", from |-> a, to |-> b]
      BY <2>1, <2>2 DEF Retried
    <3>2. <<a, b>> \in asked
      BY <3>1 DEF Consent, BooksAsked
    <3> QED BY <2>1, <3>1, <3>2
  <2> QED BY <2>1, <2>2, ConsentKept
<1>6. ASSUME \/ \E a, b \in Nodes : a # b /\ UserCall(a, b)
                                     /\ ~addFriend(a, b) /\ ~acceptFriend(a, b)
             \/ \E a \in Nodes : purgeShares(a) \/ remove(a) \/ Restart(a)
             \/ \E m \in Messages : OpenStream(m) \/ DispatchDecline(m) \/ Lose(m)
             \/ UNCHANGED vars
      PROVE  Consent'
  <2>1. asked' = asked /\ \A m \in Underway' : m \in Underway \/ m.type = "decline"
    <3>1. ASSUME NEW a \in Nodes, NEW b \in Nodes, UserCall(a, b),
                 ~addFriend(a, b), ~acceptFriend(a, b)
          PROVE  asked' = asked /\ Underway' = Underway
      BY <3>1 DEF UserCall, declineFriend, blockFriend, VgFriendRemove, setShareLib,
                  removeShareLib, Underway
    <3>2. ASSUME NEW a \in Nodes, purgeShares(a) \/ remove(a) \/ Restart(a)
          PROVE  asked' = asked /\ \A m \in Underway' : m \in Underway \/ m.type = "decline"
      BY <3>2 DEF purgeShares, remove, Restart, Underway
    <3>3. ASSUME NEW m \in Messages, OpenStream(m) \/ DispatchDecline(m) \/ Lose(m)
          PROVE  asked' = asked /\ Underway' \subseteq Underway
      BY <3>3 DEF OpenStream, DispatchDecline, Lose, Underway
    <3>4. CASE UNCHANGED vars
      BY <3>4 DEF vars, Underway
    <3> QED BY <1>6, <3>1, <3>2, <3>3, <3>4
  <2>2. book' = book \/ \E p \in Pairs, s \in {"none", "blocked"} : book' = [book EXCEPT ![p] = s]
    <3>1. ASSUME NEW a \in Nodes, remove(a)
          PROVE  \E p \in Pairs : book' = [book EXCEPT ![p] = "none"]
      BY <3>1 DEF remove, Kinds
    <3>2. ASSUME NEW m \in Messages, DispatchDecline(m)
          PROVE  \E p \in Pairs : book' = [book EXCEPT ![p] = "none"]
      BY <3>2 DEF DispatchDecline, Kinds, Underway, Messages
    <3> QED BY <1>6, <3>1, <3>2
            DEF UserCall, declineFriend, blockFriend, VgFriendRemove, setShareLib, removeShareLib,
                purgeShares, Restart, OpenStream, Lose, vars
  <2>3. \A x, y \in Nodes : x # y =>
          \/ book'[<<x, y>>] = book[<<x, y>>]
          \/ book'[<<x, y>>] \in {"none", "blocked"}
    BY <2>2 DEF Kinds
  <2> QED BY <2>1, <2>3, ConsentKept
<1> QED BY <1>1, <1>2, <1>3, <1>4, <1>5, <1>6, NextIs DEF Dispatch

LEMMA InvInit == Init => Kinds /\ Consent
BY PairIs DEF Init, Kinds, States, Underway, Consent, BooksAsked, MessagesAsked

\* Friends asked for it, both: no crossing, retry or stale message makes a
\* friendship out of one request.
THEOREM FriendsBothAsked == Spec => []BothAsked
<1>1. Kinds /\ Consent /\ [Next]_vars => Kinds' /\ Consent'
  BY KindsStep, ConsentStep
<1>2. Consent => BothAsked
  BY PairIs DEF Consent, BooksAsked, Both, BothAsked
<1> QED BY InvInit, <1>1, <1>2, PTL DEF Spec

-----------------------------------------------------------------------------
(* Blocked, and unserved.                                                  *)

\* The block call that is still to purge the share of p's peer.
Purging(p) == call[p[1]].what = "block" /\ call[p[1]].peer = p[2]

Unserved == \A p \in Pairs : book[p] = "blocked" => p \notin shares \/ Purging(p)

LEMMA UnservedStep == ASSUME Kinds, Unserved, [Next]_vars PROVE Unserved'
<1> USE PairIs DEF send, Set, Begin, End, Free
<1>1. ASSUME NEW a \in Nodes, NEW b \in Nodes, a # b, UserCall(a, b) PROVE Unserved'
  <2>1. CASE blockFriend(a, b)
    BY <1>1, <2>1 DEF blockFriend, Unserved, Purging, Kinds
  <2>2. CASE declineFriend(a, b) \/ VgFriendRemove(a, b)
    BY <1>1, <2>2 DEF declineFriend, VgFriendRemove, Unserved, Purging, Kinds
  <2>3. CASE addFriend(a, b) \/ acceptFriend(a, b)
    BY <1>1, <2>3 DEF addFriend, acceptFriend, Unserved, Purging, Kinds
  <2>4. CASE setShareLib(a, b) \/ removeShareLib(a, b)
    BY <1>1, <2>4 DEF setShareLib, removeShareLib, Unserved, Purging, Kinds
  <2> QED BY <1>1, <2>1, <2>2, <2>3, <2>4 DEF UserCall
<1>2. ASSUME NEW a \in Nodes, purgeShares(a) PROVE Unserved'
  BY <1>2 DEF purgeShares, Unserved, Purging, Kinds
<1>3. ASSUME NEW a \in Nodes, remove(a) PROVE Unserved'
  BY <1>3 DEF remove, Unserved, Purging, Kinds
<1>4. ASSUME NEW a \in Nodes, Restart(a) PROVE Unserved'
  BY <1>4 DEF Restart, Unserved, Purging, Kinds
<1>5. ASSUME NEW a \in Nodes, RetryTick(a) PROVE Unserved'
  BY <1>5, Retries DEF Unserved, Purging
<1>6. ASSUME NEW m \in Messages, OpenStream(m) \/ Lose(m) PROVE Unserved'
  BY <1>6 DEF OpenStream, Lose, Unserved, Purging
<1>7. ASSUME NEW m \in Messages, Dispatch(m) PROVE Unserved'
  <2>1. /\ shares' = shares /\ call' = call
        /\ book' = book \/ \E s \in {"none", "incoming", "accepted"} :
                              book' = [book EXCEPT ![<<m.to, m.from>>] = s]
    BY <1>7 DEF Dispatch, DispatchRequest, DispatchAccept, DispatchDecline
  <2>2. \A p \in Pairs : book'[p] = "blocked" => book[p] = "blocked"
    BY <2>1 DEF Kinds
  <2> QED BY <2>1, <2>2 DEF Unserved, Purging
<1>8. CASE UNCHANGED vars
  BY <1>8 DEF vars, Unserved, Purging
<1> QED BY <1>1, <1>2, <1>3, <1>4, <1>5, <1>6, <1>7, <1>8, NextIs

\* A peer who is blocked is served no library once the block call is over:
\* nothing that a book believes later gives it one.
THEOREM BlockedUnserved == Spec => []BlockedIsUnserved
<1>1. Init => Unserved
  BY DEF Init, Unserved
<1>2. Kinds /\ Unserved /\ [Next]_vars => Kinds' /\ Unserved'
  BY KindsStep, UnservedStep
<1>3. Unserved => BlockedIsUnserved
  BY DEF Unserved, Purging, BlockedIsUnserved, Free
<1> QED BY InvInit, <1>1, <1>2, <1>3, PTL DEF Spec

-----------------------------------------------------------------------------
(* Consent that ends.  A share is of a friend, or the call that ends the   *)
(* friendship has yet to purge it.  Two steps break that: the friend's own *)
(* decline, which purges nothing, and an accept that is believed before    *)
(* the call has purged.                                                    *)

DeclinedServed == \E m \in Messages : DispatchDecline(m) /\ <<m.to, m.from>> \in shares

\* The call that has ended the friendship of p and has yet to purge.
Ending(p) == call[p[1]].what \in {"decline", "block"} /\ call[p[1]].peer = p[2]

AcceptedUnpurged == \E m \in Messages : DispatchAccept(m) /\ Ending(<<m.to, m.from>>)

SharedOf(p) ==
  /\ p \in shares => book[p] = "accepted" \/ Ending(p)
  /\ Ending(p) => book[p] \in {"none", "incoming", "blocked"}
  /\ call[p[1]].what = "remove" /\ call[p[1]].peer = p[2] => p \notin shares

SharedAreFriends == \A p \in Pairs : SharedOf(p)

ServeOne(p) ==
  SharedOf(p)' /\ (book[p] # "accepted" /\ book'[p] = "accepted" => p \notin shares)

LEMMA ServeStep ==
  ASSUME Kinds, SharedAreFriends, [Next]_vars,
         (~DeclinedServed /\ ~AcceptedUnpurged) \/ UNCHANGED vars
  PROVE  \A p \in Pairs : ServeOne(p)
<1> USE PairIs DEF Set, Begin, End, Free, Ending
<1>1. ASSUME NEW a \in Nodes, NEW b \in Nodes, a # b, UserCall(a, b), NEW p \in Pairs
      PROVE  ServeOne(p)
  <2>0. SharedOf(p)
    BY DEF SharedAreFriends
  <2>1. CASE addFriend(a, b)
    BY <1>1, <2>0, <2>1 DEF addFriend, ServeOne, SharedOf, Kinds
  <2>2. CASE acceptFriend(a, b)
    BY <1>1, <2>0, <2>2 DEF acceptFriend, ServeOne, SharedOf, Kinds
  <2>3. CASE declineFriend(a, b) \/ blockFriend(a, b)
    BY <1>1, <2>0, <2>3 DEF declineFriend, blockFriend, ServeOne, SharedOf, Kinds
  <2>4. CASE VgFriendRemove(a, b)
    BY <1>1, <2>0, <2>4 DEF VgFriendRemove, ServeOne, SharedOf, Kinds
  <2>5. CASE setShareLib(a, b) \/ removeShareLib(a, b)
    BY <1>1, <2>0, <2>5 DEF setShareLib, removeShareLib, ServeOne, SharedOf, Kinds
  <2> QED BY <1>1, <2>1, <2>2, <2>3, <2>4, <2>5 DEF UserCall
<1>2. ASSUME NEW a \in Nodes, purgeShares(a) \/ remove(a) \/ Restart(a), NEW p \in Pairs
      PROVE  ServeOne(p)
  <2>0. SharedOf(p)
    BY DEF SharedAreFriends
  <2>1. CASE purgeShares(a)
    BY <1>2, <2>0, <2>1 DEF purgeShares, ServeOne, SharedOf, Kinds
  <2>2. CASE remove(a)
    BY <1>2, <2>0, <2>2 DEF remove, ServeOne, SharedOf, Kinds
  <2>3. CASE Restart(a)
    BY <1>2, <2>0, <2>3 DEF Restart, ServeOne, SharedOf, Kinds
  <2> QED BY <1>2, <2>1, <2>2, <2>3
<1>3. ASSUME NEW a \in Nodes, RetryTick(a) PROVE \A p \in Pairs : ServeOne(p)
  BY <1>3, Retries DEF SharedAreFriends, ServeOne, SharedOf
<1>4. ASSUME NEW m \in Messages, OpenStream(m) \/ Lose(m) PROVE \A p \in Pairs : ServeOne(p)
  BY <1>4 DEF OpenStream, Lose, SharedAreFriends, ServeOne, SharedOf
<1>5. ASSUME NEW m \in Messages, Dispatch(m), ~DeclinedServed, ~AcceptedUnpurged,
             NEW p \in Pairs
      PROVE  ServeOne(p)
  <2>0. SharedOf(p) /\ shares' = shares /\ call' = call /\ book \in [Pairs -> States]
    BY <1>5 DEF SharedAreFriends, Dispatch, DispatchRequest, DispatchAccept, DispatchDecline, Kinds
  <2>1. CASE DispatchRequest(m)
    BY <2>0, <2>1 DEF DispatchRequest, ServeOne, SharedOf
  <2>2. CASE DispatchAccept(m)
    <3>1. ~Ending(<<m.to, m.from>>) /\ book' = [book EXCEPT ![<<m.to, m.from>>] = "accepted"]
      BY <1>5, <2>2 DEF AcceptedUnpurged, DispatchAccept
    <3> QED BY <2>0, <3>1 DEF ServeOne, SharedOf
  <2>3. CASE DispatchDecline(m)
    <3>1. <<m.to, m.from>> \notin shares /\ book' = [book EXCEPT ![<<m.to, m.from>>] = "none"]
      BY <1>5, <2>3 DEF DeclinedServed, DispatchDecline
    <3> QED BY <2>0, <3>1 DEF ServeOne, SharedOf
  <2> QED BY <1>5, <2>1, <2>2, <2>3 DEF Dispatch
<1>6. CASE UNCHANGED vars
  BY <1>6 DEF vars, SharedAreFriends, ServeOne, SharedOf
<1> QED BY <1>1, <1>2, <1>3, <1>4, <1>5, <1>6, NextIs

\* Who becomes a friend again is served nothing that was shared with them before,
\* unless it was the friend's decline that had ended the friendship, or an accept is
\* believed while a decline or a block has yet to purge: ResumesNothing (purgeShares,
\* dispatch).
THEOREM OnlyADeclineResumes ==
  Spec /\ [][~DeclinedServed /\ ~AcceptedUnpurged]_vars => ResumesNothing
<1> DEFINE Inv == Kinds /\ SharedAreFriends
           Fresh == \A p \in Pairs : book[p] # "accepted" /\ book'[p] = "accepted" => p \notin shares
<1>1. Init => Inv
  BY InvInit, PairIs DEF Init, SharedAreFriends, SharedOf, Ending
<1>2. Inv /\ [Next]_vars /\ [~DeclinedServed /\ ~AcceptedUnpurged]_vars => Inv' /\ [Fresh]_vars
  BY KindsStep, ServeStep DEF ServeOne, SharedAreFriends
<1> HIDE DEF Inv, Fresh
<1>3. Spec /\ [][~DeclinedServed /\ ~AcceptedUnpurged]_vars => [][Fresh]_vars
  BY <1>1, <1>2, PTL DEF Spec
<1> QED BY <1>3 DEF Fresh, ResumesNothing

-----------------------------------------------------------------------------
(* Crossing requests, while nothing is lost and nobody takes anything back. *)

request(a, b) == [type |-> "request", from |-> a, to |-> b]
accept(a, b) == [type |-> "accept", from |-> a, to |-> b]

\* a, who waits for b and is asked by b, will hear of it: by b's request or
\* accept, or by b's accept of a's own request, which b, pending, gives it.
Hears(a, b) ==
  book[<<a, b>>] = "pending" /\ <<b, a>> \in asked =>
    \/ request(b, a) \in Underway
    \/ accept(b, a) \in Underway
    \/ request(a, b) \in Underway /\ book[<<b, a>>] = "pending"

Calm ==
  /\ \A a \in Nodes : call[a].what = "idle"
  /\ \A m \in Underway : m.type # "decline"
  /\ \A a, b \in Nodes : a # b =>
       /\ accept(a, b) \in Underway => book[<<a, b>>] = "accepted"
       /\ book[<<a, b>>] # "blocked"
       /\ <<a, b>> \in asked => book[<<a, b>>] \in {"pending", "accepted"}
       /\ Hears(a, b)

Settling == world = "calm" => Calm

\* What the calm environment may do: nothing is revoked, lost or restarted.
LEMMA CalmNextIs ==
  ASSUME Kinds, Calm, world = "calm", [Next]_vars
  PROVE  \/ \E a, b \in Nodes : a # b /\ addFriend(a, b)
         \/ \E a, b \in Nodes : a # b /\ acceptFriend(a, b)
         \/ \E a \in Nodes : RetryTick(a)
         \/ \E m \in Messages : DispatchRequest(m)
         \/ \E m \in Messages : DispatchAccept(m)
         \/ UNCHANGED <<book, call, asked>> /\ Underway' = Underway
<1>1. ASSUME NEW a \in Nodes, NEW b \in Nodes, UserCall(a, b)
      PROVE  \/ addFriend(a, b) \/ acceptFriend(a, b)
             \/ UNCHANGED <<book, call, asked>> /\ Underway' = Underway
  BY <1>1 DEF UserCall, declineFriend, blockFriend, VgFriendRemove, setShareLib, removeShareLib,
              Revocable, Underway
<1>2. ASSUME NEW a \in Nodes PROVE ~purgeShares(a) /\ ~remove(a) /\ ~Restart(a)
  BY DEF purgeShares, remove, Restart, Lossy, Calm
<1>3. ASSUME NEW m \in Messages PROVE ~DispatchDecline(m) /\ ~Lose(m)
  BY DEF DispatchDecline, Lose, Lossy, Calm, Underway
<1>4. ASSUME NEW m \in Messages, OpenStream(m)
      PROVE  UNCHANGED <<book, call, asked>> /\ Underway' = Underway
  <2>1. m.from \in Nodes /\ m.to \in Nodes /\ m.from # m.to
    BY <1>4 DEF OpenStream, Kinds, Underway, Messages
  <2>2. book[<<m.to, m.from>>] # "blocked"
    BY <2>1 DEF Calm
  <2> QED BY <1>4, <2>2 DEF OpenStream, Underway
<1>5. CASE UNCHANGED vars
  BY <1>5 DEF vars, Underway
<1> QED BY <1>1, <1>2, <1>3, <1>4, <1>5, NextIs DEF Dispatch

\* A step that is about other pairs leaves a pair's answers on their way.
LEMMA HearsKept ==
  ASSUME Calm, NEW x \in Nodes, NEW y \in Nodes, x # y,
         book'[<<x, y>>] = book[<<x, y>>], book'[<<y, x>>] = book[<<y, x>>],
         <<y, x>> \in asked' => <<y, x>> \in asked,
         \A n \in {request(y, x), accept(y, x), request(x, y)} :
           n \in Underway => n \in Underway'
  PROVE  Hears(x, y)'
<1>1. Hears(x, y)
  BY DEF Calm
<1> QED BY <1>1 DEF Hears

LEMMA CalmStep ==
  ASSUME Kinds, Consent, Calm, world = "calm", [Next]_vars
  PROVE  Calm'
<1> USE PairIs DEF send, Set, Msg, Ask
<1>1. ASSUME NEW a \in Nodes, NEW b \in Nodes, a # b, addFriend(a, b) PROVE Calm'
  <2>1. /\ asked' = asked \cup {<<a, b>>} /\ call' = call
        /\ Underway' = Underway \cup {request(a, b)}
        /\ book' = [book EXCEPT ![<<a, b>>] = IF @ = "accepted" THEN @ ELSE "pending"]
    BY <1>1 DEF addFriend, Underway, request
  <2>2. \A x, y \in Nodes : x # y =>
          /\ book[<<x, y>>] = "accepted" => book'[<<x, y>>] = "accepted"
          /\ <<x, y>> # <<a, b>> => book'[<<x, y>>] = book[<<x, y>>]
    BY <2>1 DEF Kinds
  <2>3. book'[<<a, b>>] \in {"pending", "accepted"}
    BY <1>1, <2>1 DEF Kinds
  <2>4. ASSUME NEW x \in Nodes, NEW y \in Nodes, x # y PROVE Hears(x, y)'
    <3>1. CASE <<x, y>> = <<a, b>>
      <4>1. SUFFICES ASSUME book'[<<a, b>>] = "pending", <<b, a>> \in asked
                     PROVE  \/ request(b, a) \in Underway' \/ accept(b, a) \in Underway'
                            \/ request(a, b) \in Underway' /\ book'[<<b, a>>] = "pending"
        BY <1>1, <2>1, <3>1 DEF Hears
      <4>2. book[<<b, a>>] \in {"pending", "accepted"} /\ book'[<<b, a>>] = book[<<b, a>>]
        BY <1>1, <2>2, <4>1 DEF Calm
      <4>3. CASE book[<<b, a>>] = "accepted"
        <5>1. book[<<a, b>>] = "pending"
          <6>1. <<a, b>> \in asked
            BY <1>1, <4>3 DEF Consent, BooksAsked, Both
          <6>2. book[<<a, b>>] \in {"pending", "accepted"}
            BY <1>1, <6>1 DEF Calm
          <6> QED BY <1>1, <2>2, <4>1, <6>2
        <5> QED BY <1>1, <2>1, <4>1, <4>3, <5>1 DEF Calm, Hears
      <4>4. CASE book[<<b, a>>] = "pending"
        BY <2>1, <4>2, <4>4
      <4> QED BY <4>2, <4>3, <4>4
    <3>2. CASE <<x, y>> = <<b, a>>
      BY <2>1, <3>2 DEF Hears
    <3>3. CASE <<x, y>> # <<a, b>> /\ <<x, y>> # <<b, a>>
      <4>1. /\ book'[<<x, y>>] = book[<<x, y>>] /\ book'[<<y, x>>] = book[<<y, x>>]
            /\ <<y, x>> \in asked' => <<y, x>> \in asked
        BY <2>1, <2>2, <2>4, <3>3
      <4>2. \A n \in Underway : n \in Underway'
        BY <2>1
      <4> QED BY <2>4, <4>1, <4>2, HearsKept
    <3> QED BY <3>1, <3>2, <3>3
  <2>5. \A m \in Underway' : m.type # "decline"
    BY <2>1 DEF Calm, request
  <2>6. ASSUME NEW x \in Nodes, NEW y \in Nodes, x # y
        PROVE  /\ accept(x, y) \in Underway' => book'[<<x, y>>] = "accepted"
               /\ book'[<<x, y>>] # "blocked"
               /\ <<x, y>> \in asked' => book'[<<x, y>>] \in {"pending", "accepted"}
    <3>1. accept(x, y) \in Underway' => book'[<<x, y>>] = "accepted"
      <4>1. accept(x, y) # request(a, b)
        BY DEF accept, request
      <4> QED BY <2>1, <2>2, <2>6, <4>1 DEF Calm
    <3>2. book'[<<x, y>>] # "blocked"
      BY <2>2, <2>3, <2>6 DEF Calm
    <3>3. <<x, y>> \in asked' => book'[<<x, y>>] \in {"pending", "accepted"}
      BY <2>1, <2>2, <2>3, <2>6 DEF Calm
    <3> QED BY <3>1, <3>2, <3>3
  <2> QED BY <2>1, <2>4, <2>5, <2>6 DEF Calm
<1>2. ASSUME NEW a \in Nodes, NEW b \in Nodes, a # b, acceptFriend(a, b) PROVE Calm'
  <2>1. /\ asked' = asked \cup {<<a, b>>} /\ call' = call
        /\ Underway' = Underway \cup {accept(a, b)}
        /\ book[<<a, b>>] = "incoming" /\ book' = [book EXCEPT ![<<a, b>>] = "accepted"]
    BY <1>2 DEF acceptFriend, Underway, accept
  <2>2. /\ book'[<<a, b>>] = "accepted"
        /\ \A x, y \in Nodes : x # y /\ <<x, y>> # <<a, b>> =>
              book'[<<x, y>>] = book[<<x, y>>]
    BY <1>2, <2>1 DEF Kinds
  <2>3. ASSUME NEW x \in Nodes, NEW y \in Nodes, x # y PROVE Hears(x, y)'
    <3>1. CASE <<x, y>> = <<a, b>>
      BY <2>2, <3>1 DEF Hears
    <3>2. CASE <<x, y>> = <<b, a>>
      BY <2>1, <3>2 DEF Hears
    <3>3. CASE <<x, y>> # <<a, b>> /\ <<x, y>> # <<b, a>>
      <4>1. /\ book'[<<x, y>>] = book[<<x, y>>] /\ book'[<<y, x>>] = book[<<y, x>>]
            /\ <<y, x>> \in asked' => <<y, x>> \in asked
        BY <2>1, <2>2, <2>3, <3>3
      <4>2. \A n \in Underway : n \in Underway'
        BY <2>1
      <4> QED BY <2>3, <4>1, <4>2, HearsKept
    <3> QED BY <3>1, <3>2, <3>3
  <2>4. \A m \in Underway' : m.type # "decline"
    BY <2>1 DEF Calm, accept
  <2>5. ASSUME NEW x \in Nodes, NEW y \in Nodes, x # y
        PROVE  /\ accept(x, y) \in Underway' => book'[<<x, y>>] = "accepted"
               /\ book'[<<x, y>>] # "blocked"
               /\ <<x, y>> \in asked' => book'[<<x, y>>] \in {"pending", "accepted"}
    <3>1. CASE <<x, y>> = <<a, b>>
      BY <2>2, <3>1
    <3>2. CASE <<x, y>> # <<a, b>>
      <4>1. accept(x, y) # accept(a, b)
        BY <3>2 DEF accept
      <4>2. /\ book'[<<x, y>>] = book[<<x, y>>]
            /\ <<x, y>> \in asked' => <<x, y>> \in asked
            /\ accept(x, y) \in Underway' => accept(x, y) \in Underway
        BY <2>1, <2>2, <2>5, <3>2, <4>1
      <4> QED BY <2>5, <4>2 DEF Calm
    <3> QED BY <3>1, <3>2
  <2> QED BY <2>1, <2>3, <2>4, <2>5 DEF Calm
<1>3. ASSUME NEW a \in Nodes, RetryTick(a) PROVE Calm'
  <2>1. /\ book' = book /\ call' = call /\ asked' = asked /\ Underway \subseteq Underway'
        /\ \A m \in Underway' : m \in Underway \/ m.type = "request"
    <3>1. /\ book' = book /\ call' = call /\ asked' = asked /\ Underway \subseteq Underway'
          /\ \A m \in Underway' : m \in Underway \/ Retried(a, m)
      BY <1>3, Retries DEF Underway
    <3>2. ASSUME NEW m, Retried(a, m) PROVE m.type = "request"
      BY <3>2 DEF Retried
    <3> QED BY <3>1, <3>2
  <2>2. ASSUME NEW x \in Nodes, NEW y \in Nodes, accept(x, y) \in Underway'
        PROVE  accept(x, y) \in Underway
    BY <2>1, <2>2 DEF accept
  <2>3. \A m \in Underway' : m.type # "decline"
    BY <2>1 DEF Calm
  <2>4. \A x, y \in Nodes : x # y => Hears(x, y)'
    BY <2>1 DEF Calm, Hears
  <2> QED BY <2>1, <2>2, <2>3, <2>4 DEF Calm
<1>4. ASSUME NEW m \in Messages, DispatchRequest(m) PROVE Calm'
  <2>1. PICK x \in Nodes, y \in Nodes : x # y /\ m = request(x, y)
    BY <1>4 DEF DispatchRequest, Kinds, Underway, Messages, request
  <2>2. /\ asked' = asked /\ call' = call
        /\ \/ /\ book[<<y, x>>] = "pending" /\ book' = [book EXCEPT ![<<y, x>>] = "accepted"]
              /\ accept(y, x) \in Underway'
           \/ /\ book[<<y, x>>] = "none" /\ book' = [book EXCEPT ![<<y, x>>] = "incoming"]
              /\ Underway' \subseteq Underway
           \/ /\ book[<<y, x>>] \notin {"pending", "none"} /\ book' = book
              /\ Underway' \subseteq Underway
        /\ \A n \in Underway : n # m => n \in Underway'
        /\ \A n \in Underway' : n \in Underway \/ n = accept(y, x)
    BY <1>4, <2>1 DEF DispatchRequest, Underway, request, accept
  <2>3. /\ \A p, q \in Nodes : accept(p, q) # m
        /\ \A p, q \in Nodes : <<p, q>> # <<x, y>> => request(p, q) # m
        /\ \A p, q \in Nodes : <<p, q>> # <<y, x>> => accept(p, q) # accept(y, x)
        /\ \A p, q \in Nodes : request(p, q) # accept(y, x)
    BY <2>1 DEF accept, request
  <2>4. /\ \A p, q \in Nodes : p # q /\ <<p, q>> # <<y, x>> =>
              book'[<<p, q>>] = book[<<p, q>>]
        /\ \/ book[<<y, x>>] = "pending" /\ book'[<<y, x>>] = "accepted"
              /\ accept(y, x) \in Underway'
           \/ book[<<y, x>>] = "none" /\ book'[<<y, x>>] = "incoming"
              /\ Underway' \subseteq Underway
           \/ book[<<y, x>>] \notin {"pending", "none"} /\ book'[<<y, x>>] = book[<<y, x>>]
              /\ Underway' \subseteq Underway
    BY <2>1, <2>2 DEF Kinds
  <2>5. ASSUME NEW p \in Nodes, NEW q \in Nodes, p # q PROVE Hears(p, q)'
    <3>1. CASE <<p, q>> = <<y, x>>
      BY <2>4, <3>1 DEF Hears
    <3>2. CASE <<p, q>> = <<x, y>>
      <4>1. SUFFICES ASSUME book[<<x, y>>] = "pending", <<y, x>> \in asked
                     PROVE  request(y, x) \in Underway' \/ accept(y, x) \in Underway'
        BY <2>1, <2>2, <2>4, <3>2 DEF Hears
      <4>2. book[<<y, x>>] \in {"pending", "accepted"}
        BY <2>1, <4>1 DEF Calm
      <4>3. CASE book[<<y, x>>] = "pending"
        BY <2>4, <4>3
      <4>4. CASE book[<<y, x>>] = "accepted"
        <5>1. request(y, x) \in Underway \/ accept(y, x) \in Underway
          BY <2>1, <4>1, <4>4 DEF Calm, Hears
        <5> QED BY <2>1, <2>2, <2>3, <5>1
      <4> QED BY <4>2, <4>3, <4>4
    <3>3. CASE <<p, q>> # <<x, y>> /\ <<p, q>> # <<y, x>>
      <4>1. book'[<<p, q>>] = book[<<p, q>>] /\ book'[<<q, p>>] = book[<<q, p>>]
        BY <2>4, <2>5, <3>3
      <4>2. /\ request(q, p) # m /\ request(p, q) # m /\ accept(q, p) # m
        BY <2>3, <3>3
      <4>3. /\ \A n \in {request(q, p), accept(q, p), request(p, q)} :
                  n \in Underway => n \in Underway'
            /\ <<q, p>> \in asked' => <<q, p>> \in asked
        BY <2>2, <4>2
      <4> QED BY <2>5, <4>1, <4>3, HearsKept
    <3> QED BY <3>1, <3>2, <3>3
  <2>6. \A n \in Underway' : n.type # "decline"
    BY <2>2 DEF Calm, accept
  <2>7. ASSUME NEW p \in Nodes, NEW q \in Nodes, p # q
        PROVE  /\ accept(p, q) \in Underway' => book'[<<p, q>>] = "accepted"
               /\ book'[<<p, q>>] # "blocked"
               /\ <<p, q>> \in asked' => book'[<<p, q>>] \in {"pending", "accepted"}
    <3>1. CASE <<p, q>> = <<y, x>>
      BY <2>2, <2>4, <2>7, <3>1 DEF Calm
    <3>2. CASE <<p, q>> # <<y, x>>
      <4>1. /\ book'[<<p, q>>] = book[<<p, q>>]
            /\ accept(p, q) \in Underway' => accept(p, q) \in Underway
        BY <2>2, <2>3, <2>4, <2>7, <3>2
      <4> QED BY <2>2, <2>7, <4>1 DEF Calm
    <3> QED BY <3>1, <3>2
  <2> QED BY <2>2, <2>5, <2>6, <2>7 DEF Calm
<1>5. ASSUME NEW m \in Messages, DispatchAccept(m) PROVE Calm'
  <2>1. PICK x \in Nodes, y \in Nodes : x # y /\ m = accept(x, y)
    BY <1>5 DEF DispatchAccept, Kinds, Underway, Messages, accept
  <2>2. /\ asked' = asked /\ call' = call /\ m \in Underway
        /\ book' = [book EXCEPT ![<<y, x>>] = "accepted"]
        /\ Underway' \subseteq Underway
        /\ \A n \in Underway : n # m => n \in Underway'
    BY <1>5, <2>1 DEF DispatchAccept, Underway, accept
  <2>3. /\ \A p, q \in Nodes : request(p, q) # m
        /\ \A p, q \in Nodes : <<p, q>> # <<x, y>> => accept(p, q) # m
    BY <2>1 DEF accept, request
  <2>4. /\ book'[<<y, x>>] = "accepted" /\ book[<<x, y>>] = "accepted"
        /\ \A p, q \in Nodes : p # q /\ <<p, q>> # <<y, x>> =>
              book'[<<p, q>>] = book[<<p, q>>]
    BY <2>1, <2>2 DEF Kinds, Calm
  <2>5. ASSUME NEW p \in Nodes, NEW q \in Nodes, p # q PROVE Hears(p, q)'
    <3>1. CASE <<p, q>> \in {<<x, y>>, <<y, x>>}
      BY <2>1, <2>4, <2>5, <3>1 DEF Hears
    <3>2. CASE <<p, q>> \notin {<<x, y>>, <<y, x>>}
      <4>1. book'[<<p, q>>] = book[<<p, q>>] /\ book'[<<q, p>>] = book[<<q, p>>]
        BY <2>4, <2>5, <3>2
      <4>2. request(q, p) # m /\ request(p, q) # m /\ accept(q, p) # m
        BY <2>3, <3>2
      <4>3. /\ \A n \in {request(q, p), accept(q, p), request(p, q)} :
                  n \in Underway => n \in Underway'
            /\ <<q, p>> \in asked' => <<q, p>> \in asked
        BY <2>2, <4>2
      <4> QED BY <2>5, <4>1, <4>3, HearsKept
    <3> QED BY <3>1, <3>2
  <2>6. ASSUME NEW p \in Nodes, NEW q \in Nodes, p # q
        PROVE  /\ accept(p, q) \in Underway' => book'[<<p, q>>] = "accepted"
               /\ book'[<<p, q>>] # "blocked"
               /\ <<p, q>> \in asked' => book'[<<p, q>>] \in {"pending", "accepted"}
    <3>1. CASE <<p, q>> = <<y, x>>
      BY <2>4, <3>1
    <3>2. CASE <<p, q>> # <<y, x>>
      <4>1. book'[<<p, q>>] = book[<<p, q>>]
        BY <2>4, <2>6, <3>2
      <4> QED BY <2>2, <2>6, <4>1 DEF Calm
    <3> QED BY <3>1, <3>2
  <2> QED BY <2>2, <2>5, <2>6 DEF Calm
<1>6. CASE UNCHANGED <<book, call, asked>> /\ Underway' = Underway
  BY <1>6 DEF Calm, Hears
<1> QED BY <1>1, <1>2, <1>3, <1>4, <1>5, <1>6, CalmNextIs

LEMMA CalmInit == Init => Calm
BY PairIs DEF Init, Calm, Hears, Underway

\* Two users who both asked are friends on both sides once all is delivered,
\* however their messages crossed and were repeated, if nothing is lost.
THEOREM CrossedAreFriends == Spec => []CrossingSettles
<1>1. ASSUME Kinds, Consent, Settling, [Next]_vars PROVE Kinds' /\ Consent' /\ Settling'
  <2>1. world' = world
    BY <1>1 DEF Next, vars, addFriend, acceptFriend, declineFriend, blockFriend, VgFriendRemove,
                setShareLib, removeShareLib, purgeShares, remove, RetryTick, Restart, OpenStream,
                Dispatch, DispatchRequest, DispatchAccept, DispatchDecline, Lose
  <2> QED BY <1>1, <2>1, KindsStep, ConsentStep, CalmStep DEF Settling
<1>2. ASSUME Settling PROVE CrossingSettles
  <2>1. SUFFICES ASSUME world = "calm", Underway = {}, NEW p \in Pairs,
                        p \in asked, <<p[2], p[1]>> \in asked
                 PROVE  book[p] = "accepted"
    BY DEF CrossingSettles, Underway
  <2>2. Calm /\ Hears(p[1], p[2]) /\ book[p] \in {"pending", "accepted"}
    BY <1>2, <2>1, PairIs DEF Settling, Calm
  <2> QED BY <2>1, <2>2, PairIs DEF Hears
<1> QED BY InvInit, CalmInit, <1>1, <1>2, PTL DEF Spec, Settling

-----------------------------------------------------------------------------
(* The library pushes.                                                     *)

All == sending \cup emitted \cup {record}

\* Stamps and versions are never ahead of the sender's.
Bounded == \A m \in All : m.seq <= sendSeq /\ m.version <= version

SInv ==
  /\ version \in Nat /\ sendSeq \in Nat
  /\ All \subseteq [seq : Nat, version : Nat]
  /\ Bounded
  /\ StampsOrderSnapshots

\* A step that takes no snapshot keeps the order: it only forgets snapshots, and
\* neither the stamp nor the version goes back.
LEMMA Kept ==
  ASSUME SInv, version' \in Nat, version <= version', sendSeq' = sendSeq,
         All' \subseteq All
  PROVE  SInv'
<1> USE DEF SInv
<1>1. version' \in Nat /\ sendSeq' \in Nat
  OBVIOUS
<1>2. All' \subseteq [seq : Nat, version : Nat]
  OBVIOUS
<1>3. Bounded'
  <2> SUFFICES ASSUME NEW m \in All' PROVE m.seq <= sendSeq' /\ m.version <= version'
    BY DEF Bounded
  <2>1. m.seq <= sendSeq /\ m.version <= version /\ m.version \in Nat
    BY DEF Bounded
  <2> QED BY <2>1
<1>4. StampsOrderSnapshots'
  BY DEF StampsOrderSnapshots, All
<1> QED BY <1>1, <1>2, <1>3, <1>4

\* The one step that makes a snapshot.
LEMMA Taken ==
  ASSUME SInv, TakeSnapshot
  PROVE  SInv'
<1> USE DEF SInv
<1> DEFINE new == [seq |-> sendSeq + 1, version |-> version]
<1>1. version' = version /\ sendSeq' = sendSeq + 1 /\ All' = All \cup {new}
  BY DEF TakeSnapshot, All, AtFriend
<1>2. new \in [seq : Nat, version : Nat] /\ new.seq = sendSeq + 1 /\ new.version = version
  OBVIOUS
<1>3. Bounded'
  <2> SUFFICES ASSUME NEW m \in All' PROVE m.seq <= sendSeq' /\ m.version <= version'
    BY DEF Bounded
  <2>1. CASE m = new
    BY <2>1, <1>1, <1>2
  <2>2. CASE m \in All
    <3>1. m.seq <= sendSeq /\ m.version <= version /\ m.seq \in Nat
      BY <2>2 DEF Bounded
    <3> QED BY <3>1, <1>1
  <2> QED BY <1>1, <2>1, <2>2
<1>4. StampsOrderSnapshots'
  <2> SUFFICES ASSUME NEW m \in All', NEW n \in All', m.seq < n.seq
               PROVE  m.version <= n.version
    BY DEF StampsOrderSnapshots, All
  <2>1. CASE m \in All /\ n \in All
    BY <2>1 DEF StampsOrderSnapshots, All
  <2>2. CASE n = new
    <3>1. m.version <= version
      BY <1>1, <1>2 DEF Bounded
    <3> QED BY <2>2, <3>1, <1>2
  <2>3. CASE m = new /\ n \in All
    <3>1. n.seq <= sendSeq /\ n.seq \in Nat
      BY <2>3 DEF Bounded
    <3> QED BY <2>3, <3>1, <1>2
  <2> QED BY <1>1, <2>1, <2>2, <2>3
<1> QED BY <1>1, <1>2, <1>3, <1>4

\* Every state has the inductive invariant.
THEOREM StampInvariance == PushSpec => []SInv
<1>1. PushInit => SInv
  <2> SUFFICES ASSUME PushInit PROVE SInv
    OBVIOUS
  <2>1. All = {[seq |-> 0, version |-> 0]}
    BY DEF PushInit, All
  <2>2. Bounded
    BY <2>1 DEF Bounded, PushInit
  <2>3. StampsOrderSnapshots
    BY <2>1 DEF StampsOrderSnapshots, All
  <2> QED BY <2>1, <2>2, <2>3 DEF SInv, PushInit
<1>2. SInv /\ [PushNext]_pushVars => SInv'
  <2> SUFFICES ASSUME SInv, [PushNext]_pushVars PROVE SInv'
    OBVIOUS
  <2>0. version \in Nat /\ MaxVersion \in Nat
    BY SharePushAssumption DEF SInv
  <2>1. CASE SetShareLib \/ PurgeShares \/ RestartSharing
    <3>1. version' \in Nat /\ version <= version'
      BY <2>0, <2>1 DEF SetShareLib, PurgeShares, RestartSharing, Change
    <3>2. sendSeq' = sendSeq /\ All' \subseteq All
      BY <2>1 DEF SetShareLib, PurgeShares, RestartSharing, AtFriend, All
    <3> QED BY <3>1, <3>2, Kept
  <2>2. CASE TakeSnapshot
    BY <2>2, Taken
  <2>3. CASE \/ LibraryReq \/ CheckContact \/ SchedulePush \/ Accepted \/ FriendTurns
             \/ UNCHANGED pushVars
    <3>1. version' = version /\ sendSeq' = sendSeq /\ All' \subseteq All
      BY <2>3 DEF LibraryReq, CheckContact, SchedulePush, Accepted, FriendTurns, pushVars,
                  AtFriend, All
    <3> QED BY <2>0, <3>1, Kept
  <2>4. CASE \E m \in Snapshots : DispatchLibrary(m) \/ Apply(m) \/ LoseSnapshot(m)
    <3>1. PICK m \in Snapshots : DispatchLibrary(m) \/ Apply(m) \/ LoseSnapshot(m)
      BY <2>4
    <3>2. version' = version /\ sendSeq' = sendSeq
      BY <3>1 DEF DispatchLibrary, Apply, LoseSnapshot
    <3>3. All' \subseteq All
      BY <3>1 DEF DispatchLibrary, Apply, LoseSnapshot, AtFriend, All
    <3> QED BY <2>0, <3>2, <3>3, Kept
  <2> QED BY <2>1, <2>2, <2>3, <2>4 DEF PushNext, Push, Receive
<1> QED BY <1>1, <1>2, PTL DEF PushSpec

\* The stamps order the snapshots in every state, for any bounds, with losses,
\* purges and restarts: StampsOrderSnapshots (friend.go's sendSeq).
THEOREM StampsOrder == PushSpec => []StampsOrderSnapshots
<1>1. SInv => StampsOrderSnapshots
  BY DEF SInv
<1> QED BY StampInvariance, <1>1, PTL

\* What is not yet snapshotted is on its way: the counters, the mark, and what
\* `stable` promises of the friendship.
Waiting ==
  /\ entering \in Nat /\ checked \in Nat /\ scheduled \in Nat
  /\ MarkIsTrue
  /\ stable \in BOOLEAN /\ (stable => served = TRUE /\ taken = TRUE)

\* A stamp names one snapshot.
Unique == \A m, n \in All : m.seq = n.seq => m = n

PInv == SInv /\ Unique /\ Waiting /\ NewestIsPushed

\* The mark, and the rest of Waiting, by themselves.
LEMMA WaitingStep == ASSUME Waiting, [PushNext]_pushVars PROVE Waiting'
<1> USE DEF Waiting, MarkIsTrue
<1>1. CASE SetShareLib \/ LibraryReq
  BY <1>1, SharePushAssumption DEF SetShareLib, LibraryReq, Enter, AtFriend
<1>2. CASE Push
  BY <1>2 DEF Push, CheckContact, SchedulePush, TakeSnapshot, AtFriend
<1>3. CASE Receive \/ \E m \in Snapshots : LoseSnapshot(m)
  BY <1>3 DEF Receive, DispatchLibrary, Apply, LoseSnapshot, AtFriend
<1>4. CASE PurgeShares \/ RestartSharing \/ FriendTurns \/ Accepted
  BY <1>4 DEF PurgeShares, RestartSharing, FriendTurns, Accepted, AtFriend
<1>5. CASE UNCHANGED pushVars
  BY <1>5 DEF pushVars
<1> QED BY <1>1, <1>2, <1>3, <1>4, <1>5 DEF PushNext

\* Only TakeSnapshot makes a snapshot, and its stamp is new.
LEMMA UniqueStep == ASSUME SInv, Unique, [PushNext]_pushVars PROVE Unique'
<1>1. CASE TakeSnapshot
  <2>1. sendSeq \in Nat /\ All' = All \cup {[seq |-> sendSeq + 1, version |-> version]}
    BY <1>1 DEF TakeSnapshot, All, AtFriend, SInv
  <2>2. \A m \in All : m.seq \in Nat /\ m.seq <= sendSeq
    BY DEF SInv, Bounded
  <2> QED BY <2>1, <2>2 DEF Unique
<1>2. CASE ~TakeSnapshot
  <2>1. All' \subseteq All
    BY <1>2 DEF PushNext, SetShareLib, LibraryReq, Push, CheckContact, SchedulePush, PurgeShares, Accepted,
       RestartSharing, FriendTurns, Receive, DispatchLibrary, Apply, LoseSnapshot, AtFriend, All, pushVars
  <2> QED BY <2>1 DEF Unique
<1> QED BY <1>1, <1>2

\* A stream received, and a snapshot applied or passed over, leaves the newest there.
LEMMA NewestStays ==
  ASSUME PInv, stable, Pushed, NEW m \in Snapshots, DispatchLibrary(m) \/ Apply(m)
  PROVE  Pushed'
<1> USE DEF Pushed
<1>1. PICK n \in All : n.version = version
  BY DEF All
<1>2. CASE DispatchLibrary(m)
  <2>1. version' = version /\ All' = All
    BY <1>2 DEF DispatchLibrary, All, PInv, Waiting
  <2> QED BY <1>1, <2>1 DEF All
<1>3. CASE Apply(m)
  <2>1. version' = version /\ All' \cup {m, record} = All /\ record' \in All'
    BY <1>3 DEF Apply, All
  <2>2. m \in All /\ record \in All /\ record' = IF m.seq > record.seq THEN m ELSE record
    BY <1>3 DEF Apply, All
  <2>3. m.seq \in Nat /\ record.seq \in Nat /\ m.version \in Nat /\ record.version \in Nat
    BY <2>2 DEF PInv, SInv
  <2>4. /\ m.seq < record.seq => m.version <= record.version
        /\ record.seq < m.seq => record.version <= m.version
        /\ m.seq = record.seq => m.version = record.version
    BY <2>2 DEF PInv, SInv, StampsOrderSnapshots, All, Unique
  <2>5. m.version <= version /\ record.version <= version /\ version \in Nat
    BY <2>2 DEF PInv, SInv, Bounded
  <2>6. m.version = version \/ record.version = version => record'.version = version
    BY <2>2, <2>3, <2>4, <2>5
  <2>7. CASE n \in {m, record}
    BY <1>1, <2>1, <2>6, <2>7 DEF All
  <2>8. CASE n \notin {m, record}
    BY <1>1, <2>1, <2>8 DEF All
  <2> QED BY <2>7, <2>8
<1> QED BY <1>2, <1>3

\* As long as the friendship stands, what is shared now has a snapshot or a call
\* or push that will take one.
LEMMA NewestStep == ASSUME PInv, [PushNext]_pushVars PROVE NewestIsPushed'
<1> USE DEF NewestIsPushed
<1> SUFFICES ASSUME stable', ~Pushed' PROVE (entering + checked + scheduled > 0)'
  OBVIOUS
<1>0. /\ entering \in Nat /\ checked \in Nat /\ scheduled \in Nat
      /\ pushPending => scheduled > 0
      /\ stable /\ served = TRUE
  BY DEF PInv, Waiting, MarkIsTrue, PushNext, SetShareLib, LibraryReq, Push, CheckContact, SchedulePush,
     TakeSnapshot, PurgeShares, Accepted, RestartSharing, FriendTurns, Receive, DispatchLibrary, Apply,
     LoseSnapshot, AtFriend, pushVars
<1>1. CASE SetShareLib \/ LibraryReq
  <2>1. entering' = entering + 1 /\ checked' = checked /\ scheduled' = scheduled
    BY <1>1 DEF SetShareLib, LibraryReq, Enter
  <2> QED BY <1>0, <2>1
<1>2. CASE CheckContact
  <2>1. ~Pushed
    BY <1>2 DEF CheckContact, AtFriend, Pushed
  <2> QED BY <1>0, <1>2, <2>1 DEF CheckContact, PInv
<1>3. CASE SchedulePush
  BY <1>0, <1>3 DEF SchedulePush
<1>4. CASE TakeSnapshot
  <2>1. Pushed'
    <3> DEFINE new == [seq |-> sendSeq + 1, version |-> version]
    <3>1. new \in sending' /\ new.version = version /\ version' = version
      BY <1>4 DEF TakeSnapshot
    <3> QED BY <3>1 DEF Pushed
  <2> QED BY <2>1
<1>5. CASE Receive
  <2>1. PICK m \in Snapshots : DispatchLibrary(m) \/ Apply(m)
    BY <1>5 DEF Receive
  <2>2. ~Pushed
    BY <1>0, <2>1, NewestStays
  <2>3. UNCHANGED <<entering, checked, scheduled>>
    BY <2>1 DEF DispatchLibrary, Apply
  <2> QED BY <1>0, <2>2, <2>3 DEF PInv
<1>6. CASE UNCHANGED pushVars
  <2>1. ~Pushed /\ UNCHANGED <<entering, checked, scheduled>>
    BY <1>6 DEF pushVars, Pushed
  <2> QED BY <1>0, <2>1 DEF PInv
<1>7. CASE Accepted \/ PurgeShares \/ RestartSharing \/ FriendTurns \/ \E m \in Snapshots : LoseSnapshot(m)
  BY <1>0, <1>7 DEF Accepted, PurgeShares, RestartSharing, FriendTurns, LoseSnapshot
<1> QED BY <1>1, <1>2, <1>3, <1>4, <1>5, <1>6, <1>7 DEF PushNext, Push

\* Every state has the invariant of the pushes.
THEOREM PushInvariance == PushSpec => []PInv
<1>1. PushInit => Unique /\ Waiting /\ NewestIsPushed
  <2> SUFFICES ASSUME PushInit PROVE Unique /\ Waiting /\ NewestIsPushed
    OBVIOUS
  <2>1. All = {record} /\ record.version = version
    BY DEF PushInit, All
  <2>2. Pushed
    BY <2>1 DEF Pushed, All
  <2> QED BY <2>1, <2>2 DEF Unique, Waiting, MarkIsTrue, NewestIsPushed, PushInit
<1>2. PInv /\ [PushNext]_pushVars => (Unique /\ Waiting /\ NewestIsPushed)'
  BY UniqueStep, WaitingStep, NewestStep DEF PInv
<1> QED BY StampInvariance, <1>1, <1>2, PTL DEF PushSpec, PInv

\* The mark that a push is scheduled never outlives the push, for any number of
\* changes and calls: MarkIsTrue (pushSnapshot's pushPending).
THEOREM MarkTrue == PushSpec => []MarkIsTrue
<1>1. PInv => MarkIsTrue
  BY DEF PInv, Waiting
<1> QED BY PushInvariance, <1>1, PTL

\* As long as the friendship stands no set is coalesced away: NewestIsPushed.
THEOREM NewestPushed == PushSpec => []NewestIsPushed
<1>1. PInv => NewestIsPushed
  BY DEF PInv
<1> QED BY PushInvariance, <1>1, PTL
=============================================================================
