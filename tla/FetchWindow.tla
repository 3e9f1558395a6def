---------------------------- MODULE FetchWindow -----------------------------
(***************************************************************************)
(* The want tokens of the process and the rolling windows of the fetches   *)
(* that share them (fetch.go): a fetch asks a session for a key only with  *)
(* a token in hand, the fan that reads a batch returns each token exactly  *)
(* once, and a controller parks tokens so that what circulates follows the *)
(* link.  The controller of a closing node and the one of the next may run *)
(* at once: the pool's lock makes their steps one sequence.                *)
(*                                                                         *)
(* A receive or a send on the token channel is one step, as is a turn of   *)
(* the producer's loop; what a block carries is left out.                  *)
(***************************************************************************)
EXTENDS Integers, FiniteSets

CONSTANTS
  Fetches,     \* the windows
  Tokens,      \* the pool's tokens, newWantPool(n)
  Floor,       \* wantFloor
  MaxPerFetch, \* maxPerFetch
  Batch,       \* refillBatch
  Need         \* how many leaves a fetch asks for

ASSUME FetchWindowAssumption ==
  /\ IsFiniteSet(Tokens)
  /\ Floor \in 1..Cardinality(Tokens)
  /\ MaxPerFetch \in Nat \ {0} /\ Batch \in Nat \ {0} /\ Need \in Nat \ {0}

VARIABLES
  free,   \* p.tokens
  parked, \* the tokens the controller holds back
  limit,  \* p.limit: what circulates, as of the controller's last step
  target, \* what the controller's step aims at; 0 between two steps
  stage,  \* each producer: "off", "loop", "acquire", "topup" or "drain"
  got,    \* the tokens of the batch the producer is filling
  wants,  \* the tokens of the keys asked for and not answered yet
  asked,  \* how many keys were asked for
  halted   \* the fetch's context has ended: stall, cancel or a write error

pool == <<free, parked, limit, target>>
windowVars == <<pool, stage, got, wants, asked, halted>>

Size == Cardinality(Tokens)

\* Tokens are alike: which one a channel hands out does not matter.
Some(S) == CHOOSE t \in S : TRUE

held(f) == Cardinality(got[f] \cup wants[f])

perFetch ==
  LET half == limit \div 2
  IN  IF half < 1 THEN 1 ELSE IF half > MaxPerFetch THEN MaxPerFetch ELSE half

WindowTypeOK ==
  /\ free \in SUBSET Tokens /\ parked \in SUBSET Tokens
  /\ limit \in Int /\ target \in Int
  /\ stage \in [Fetches -> {"off", "loop", "acquire", "topup", "drain"}]
  /\ got \in [Fetches -> SUBSET Tokens]
  /\ wants \in [Fetches -> SUBSET Tokens]
  /\ asked \in [Fetches -> Int]
  /\ halted \in [Fetches -> BOOLEAN]

Stage(f, a, b) == stage[f] = a /\ stage' = [stage EXCEPT ![f] = b]

(***************************************************************************)
(* rollingGetBlocks                                                        *)
(***************************************************************************)
Start(f) ==
  /\ Stage(f, "off", "loop")
  /\ asked' = [asked EXCEPT ![f] = 0]
  /\ halted' = [halted EXCEPT ![f] = FALSE]
  /\ UNCHANGED <<pool, got, wants>>

\* The loop ends with the keys or with the context.
LoopEnds(f) ==
  /\ Stage(f, "loop", "drain")
  /\ asked[f] >= Need \/ halted[f]
  /\ UNCHANGED <<pool, got, wants, asked, halted>>

LoopGoes(f) ==
  /\ Stage(f, "loop", "acquire")
  /\ asked[f] < Need /\ ~halted[f]
  /\ held(f) < perFetch
  /\ UNCHANGED <<pool, got, wants, asked, halted>>

Take(f) ==
  /\ free # {}
  /\ free' = free \ {Some(free)}
  /\ got' = [got EXCEPT ![f] = @ \cup {Some(free)}]
  /\ UNCHANGED <<parked, limit, target, wants, asked, halted>>

\* acquire: one token, or the end of the context.
Acquire(f) ==
  /\ Stage(f, "acquire", "topup")
  /\ Take(f)

AcquireEnds(f) ==
  /\ Stage(f, "acquire", "drain")
  /\ halted[f]
  /\ UNCHANGED <<pool, got, wants, asked, halted>>

\* More tokens while they are there, up to a batch and to the fetch's share.
MoreRoom(f) ==
  /\ Cardinality(got[f]) < Batch
  /\ asked[f] + Cardinality(got[f]) < Need
  /\ held(f) < perFetch
  /\ free # {}

TopUp(f) ==
  /\ stage[f] = "topup" /\ MoreRoom(f)
  /\ Take(f)
  /\ UNCHANGED stage

Ask(f) ==
  /\ Stage(f, "topup", "loop")
  /\ ~MoreRoom(f)
  /\ wants' = [wants EXCEPT ![f] = @ \cup got[f]]
  /\ asked' = [asked EXCEPT ![f] = @ + Cardinality(got[f])]
  /\ got' = [got EXCEPT ![f] = {}]
  /\ UNCHANGED <<pool, halted>>

(***************************************************************************)
(* fan: a token goes back when its block arrives, or when the batch ends   *)
(* without it.                                                             *)
(***************************************************************************)
\* A fan that returns a token twice, for the block and at its end.
ReturnTwice(f) ==
  /\ wants[f] # {}
  /\ free' = free \cup {Some(wants[f])}
  /\ UNCHANGED <<parked, limit, target, stage, got, wants, asked, halted>>

\* A fan that ends without its remaining tokens.
ReturnNone(f) ==
  /\ wants[f] # {}
  /\ wants' = [wants EXCEPT ![f] = @ \ {Some(wants[f])}]
  /\ UNCHANGED <<pool, stage, got, asked, halted>>

ReturnToken(f) ==
  /\ wants[f] # {}
  /\ wants' = [wants EXCEPT ![f] = @ \ {Some(wants[f])}]
  /\ free' = free \cup {Some(wants[f])}
  /\ UNCHANGED <<parked, limit, target, stage, got, asked, halted>>

\* The channel closes once every fan is through.
Drained(f) ==
  /\ Stage(f, "drain", "off")
  /\ wants[f] = {}
  /\ UNCHANGED <<pool, got, wants, asked, halted>>

\* The watchdog, the user or a write error ends the context.
End(f) ==
  /\ stage[f] # "off" /\ ~halted[f]
  /\ halted' = [halted EXCEPT ![f] = TRUE]
  /\ UNCHANGED <<pool, stage, got, wants, asked>>

(***************************************************************************)
(* step, setLimit and the end of adapt: setLimitLocked toward some n.      *)
(***************************************************************************)
Aim(n) ==
  /\ target = 0
  /\ target' = IF n < Floor THEN Floor ELSE n
  /\ UNCHANGED <<free, parked, limit, stage, got, wants, asked, halted>>

Circulating == Size - Cardinality(parked)

Unpark ==
  /\ target # 0 /\ Circulating < target /\ parked # {}
  /\ parked' = parked \ {Some(parked)}
  /\ free' = free \cup {Some(parked)}
  /\ UNCHANGED <<limit, target, stage, got, wants, asked, halted>>

Park ==
  /\ target # 0 /\ Circulating > target /\ free # {}
  /\ parked' = parked \cup {Some(free)}
  /\ free' = free \ {Some(free)}
  /\ UNCHANGED <<limit, target, stage, got, wants, asked, halted>>

Store ==
  /\ target # 0
  /\ ~(Circulating < target /\ parked # {})
  /\ ~(Circulating > target /\ free # {})
  /\ limit' = Circulating /\ target' = 0
  /\ UNCHANGED <<free, parked, stage, got, wants, asked, halted>>

WindowInit ==
  /\ free = Tokens /\ parked = {} /\ limit = Size /\ target = 0
  /\ stage = [f \in Fetches |-> "off"]
  /\ got = [f \in Fetches |-> {}]
  /\ wants = [f \in Fetches |-> {}]
  /\ asked = [f \in Fetches |-> 0]
  /\ halted = [f \in Fetches |-> FALSE]

Controller == (\E n \in 0..Size : Aim(n)) \/ Unpark \/ Park \/ Store

Producer(f) == LoopEnds(f) \/ LoopGoes(f) \/ AcquireEnds(f) \/ TopUp(f)
                 \/ Ask(f) \/ Drained(f)

WindowNext ==
  \/ Controller
  \/ \E f \in Fetches : Start(f) \/ Producer(f) \/ Acquire(f) \/ ReturnToken(f)
                          \/ End(f)

WindowSpec == WindowInit /\ [][WindowNext]_windowVars

\* The producers and the controller go on.  A want is answered or its fetch is
\* torn down by the stall watchdog.  A blocked receive is served in its turn.
FairWindowSpec ==
  /\ WindowSpec
  /\ WF_windowVars(Unpark \/ Park \/ Store)
  /\ \A f \in Fetches : /\ WF_windowVars(Producer(f)) /\ WF_windowVars(ReturnToken(f))
                        /\ SF_windowVars(Acquire(f))

(***************************************************************************)
(* Properties                                                              *)
(***************************************************************************)
Holders == [f \in Fetches |-> got[f] \cup wants[f]]

\* Every token is in one place: free, parked, or with one fetch, once.  So the
\* wants of all fetches together stay within the budget, and none is lost.
TokensConserved ==
  /\ free \cap parked = {}
  /\ \A f \in Fetches : /\ got[f] \cap wants[f] = {}
                        /\ Holders[f] \cap (free \cup parked) = {}
                        /\ \A g \in Fetches \ {f} : Holders[f] \cap Holders[g] = {}
  /\ free \cup parked \cup UNION {Holders[f] : f \in Fetches} = Tokens

\* A fetch that waits for a token gets one, or ends, also beside another that
\* was using the whole link.
FetchIsServed ==
  \A f \in Fetches : stage[f] = "acquire" ~> stage[f] # "acquire"

\* However the limit moves, no window is ever wider than its cap: one fetch
\* leaves room for the others.
ShareIsBounded == \A f \in Fetches : held(f) <= MaxPerFetch
=============================================================================
