------------------------------ MODULE FetchProofs ------------------------------
(***************************************************************************)
(* What a fetch shares with the others, and the race of its fallback.      *)
(*                                                                         *)
(* No want token is lost or made, and no window outgrows its share, for    *)
(* any fetches, any finite set of tokens and any bounds.  Conservation is  *)
(* its own induction once it is said token by token: each step moves one   *)
(* token between two places, or the tokens of a batch from got to wants of *)
(* one fetch.  The share needs one more fact: the producer asks how wide   *)
(* its window is at the top of its loop and takes the token later, when    *)
(* the limit may be lower, so that only the cap is promised.               *)
(*                                                                         *)
(* drainLosers waits for exactly the reports still to come, for any number *)
(* of gateways, any ranges of a resume and whatever fails meanwhile.  The  *)
(* count is fixed when a report wins the race; what makes it right is the  *)
(* count of the race before that: every gateway opened has its report      *)
(* received, in the channel, or still owed, also when the rest are opened. *)
(*                                                                         *)
(* A resume that succeeds has asked for every missing leaf, for a file of  *)
(* any length.  gatewayRanges is two loops, here two recursive functions:  *)
(* that each is what its equation says, and what it returns, is shown by   *)
(* induction over its index, as the least counterexample that cannot be.   *)
(* A plan of M (Planned) begins and ends its ranges in M, keeps them apart *)
(* and leaves nothing of M out; joining, merging and taking the first away *)
(* keep it so.                                                             *)
(***************************************************************************)
EXTENDS FetchWindow, GatewayRace, FiniteSetTheorems, SequenceTheorems,
        WellFoundedInduction, TLAPS

-----------------------------------------------------------------------------
(* The want tokens.                                                        *)

\* Where tokens may be.
Places ==
  /\ free \subseteq Tokens /\ parked \subseteq Tokens
  /\ got \in [Fetches -> SUBSET Tokens]
  /\ wants \in [Fetches -> SUBSET Tokens]

With(f, t) == t \in got[f] \/ t \in wants[f]

\* A token is in one place ...
Once ==
  \A t \in Tokens :
    /\ t \in free => t \notin parked
    /\ \A f \in Fetches : /\ t \in got[f] => t \notin wants[f]
                          /\ With(f, t) => t \notin free /\ t \notin parked
                          /\ \A g \in Fetches : With(f, t) /\ With(g, t) => f = g

\* ... and in one at least.
Somewhere ==
  \A t \in Tokens : t \in free \/ t \in parked \/ \E f \in Fetches : With(f, t)

Conserved == Places /\ Once /\ Somewhere

LEMMA SomeIsIn == ASSUME NEW S, S # {} PROVE Some(S) \in S
BY Zenon DEF Some

LEMMA ConservedIsEnough == Conserved => TokensConserved
<1> SUFFICES ASSUME Conserved PROVE TokensConserved
  OBVIOUS
<1> USE DEF Conserved, Places
<1>1. free \cap parked = {}
  BY DEF Once
<1>2. ASSUME NEW f \in Fetches
      PROVE  /\ got[f] \cap wants[f] = {}
             /\ Holders[f] \cap (free \cup parked) = {}
             /\ \A g \in Fetches \ {f} : Holders[f] \cap Holders[g] = {}
  BY DEF Once, With, Holders
<1>3. free \cup parked \cup UNION {Holders[f] : f \in Fetches} = Tokens
  <2>1. ASSUME NEW t \in UNION {Holders[f] : f \in Fetches} PROVE t \in Tokens
    <3>1. PICK f \in Fetches : t \in Holders[f]
      BY <2>1
    <3> QED BY <3>1 DEF Holders
  <2>2. ASSUME NEW t \in Tokens
        PROVE  t \in free \cup parked \cup UNION {Holders[f] : f \in Fetches}
    BY DEF Somewhere, With, Holders
  <2> QED BY <2>1, <2>2
<1> QED BY <1>1, <1>2, <1>3 DEF TokensConserved

\* A token leaves the channel for the batch of f.
LEMMA TakeConserves ==
  ASSUME Conserved, NEW f \in Fetches, Take(f) PROVE Conserved'
<1> DEFINE t == Some(free)
<1>1. t \in free
  BY SomeIsIn DEF Take
<1> HIDE DEF t
<1>2. /\ free' = free \ {t} /\ parked' = parked /\ wants' = wants
      /\ got' = [got EXCEPT ![f] = @ \cup {t}]
  BY DEF Take, t
<1> USE DEF Conserved, Places
<1>3. got' \in [Fetches -> SUBSET Tokens]
  BY <1>1, <1>2
<1>4. \A g \in Fetches : got'[g] = IF g = f THEN got[f] \cup {t} ELSE got[g]
  BY <1>2
<1>5. Once'
  BY <1>1, <1>2, <1>4 DEF Once, With
<1>6. Somewhere'
  <2> SUFFICES ASSUME NEW u \in Tokens
               PROVE  u \in free' \/ u \in parked' \/ \E g \in Fetches : With(g, u)'
    BY DEF Somewhere
  <2>1. CASE u = t
    BY <2>1, <1>4 DEF With
  <2>2. CASE u # t
    BY <2>2, <1>2, <1>4 DEF Somewhere, With
  <2> QED BY <2>1, <2>2
<1> QED BY <1>1, <1>2, <1>3, <1>5, <1>6

\* The keys of a batch are asked for: its tokens stay with f.
LEMMA AskConserves ==
  ASSUME Conserved, NEW f \in Fetches, Ask(f) PROVE Conserved'
<1> USE DEF Conserved, Places
<1>1. free' = free /\ parked' = parked
  BY DEF Ask, pool
<1>2. /\ got' \in [Fetches -> SUBSET Tokens]
      /\ wants' \in [Fetches -> SUBSET Tokens]
  BY DEF Ask
<1>3. \A g \in Fetches :
        /\ got'[g] = IF g = f THEN {} ELSE got[g]
        /\ wants'[g] = IF g = f THEN wants[f] \cup got[f] ELSE wants[g]
  BY DEF Ask
<1>4. \A g \in Fetches, t \in Tokens : With(g, t)' <=> With(g, t)
  BY <1>3 DEF With
<1>5. Once'
  BY <1>1, <1>3, <1>4 DEF Once
<1>6. Somewhere'
  BY <1>1, <1>4 DEF Somewhere
<1> QED BY <1>1, <1>2, <1>5, <1>6

\* A fan gives one token back.
LEMMA ReturnConserves ==
  ASSUME Conserved, NEW f \in Fetches, ReturnToken(f) PROVE Conserved'
<1> DEFINE t == Some(wants[f])
<1>1. t \in wants[f]
  BY SomeIsIn DEF ReturnToken
<1> HIDE DEF t
<1>2. /\ free' = free \cup {t} /\ parked' = parked /\ got' = got
      /\ wants' = [wants EXCEPT ![f] = @ \ {t}]
  BY DEF ReturnToken, t
<1> USE DEF Conserved, Places
<1>3. t \in Tokens /\ wants' \in [Fetches -> SUBSET Tokens]
  BY <1>1, <1>2
<1>4. \A g \in Fetches : wants'[g] = IF g = f THEN wants[f] \ {t} ELSE wants[g]
  BY <1>2
<1>5. Once'
  BY <1>1, <1>2, <1>3, <1>4 DEF Once, With
<1>6. Somewhere'
  <2> SUFFICES ASSUME NEW u \in Tokens
               PROVE  u \in free' \/ u \in parked' \/ \E g \in Fetches : With(g, u)'
    BY DEF Somewhere
  <2>1. CASE u = t
    BY <2>1, <1>2
  <2>2. CASE u # t
    BY <2>2, <1>2, <1>4 DEF Somewhere, With
  <2> QED BY <2>1, <2>2
<1> QED BY <1>2, <1>3, <1>5, <1>6

\* The controller holds a token back, or lets one go.
LEMMA ControllerConserves ==
  ASSUME Conserved, Unpark \/ Park PROVE Conserved'
<1> USE DEF Conserved, Places
<1>1. got' = got /\ wants' = wants
  BY DEF Unpark, Park
<1>2. CASE Unpark
  <2>1. Some(parked) \in parked
    BY <1>2, SomeIsIn DEF Unpark
  <2>2. free' = free \cup {Some(parked)} /\ parked' = parked \ {Some(parked)}
    BY <1>2 DEF Unpark
  <2> QED BY <1>1, <2>1, <2>2 DEF Once, Somewhere, With
<1>3. CASE Park
  <2>1. Some(free) \in free
    BY <1>3, SomeIsIn DEF Park
  <2>2. free' = free \ {Some(free)} /\ parked' = parked \cup {Some(free)}
    BY <1>3 DEF Park
  <2> QED BY <1>1, <2>1, <2>2 DEF Once, Somewhere, With
<1> QED BY <1>2, <1>3

LEMMA StillConserves ==
  ASSUME Conserved, UNCHANGED <<free, parked, got, wants>> PROVE Conserved'
BY DEF Conserved, Places, Once, Somewhere, With

LEMMA StepConserves == Conserved /\ [WindowNext]_windowVars => Conserved'
<1> SUFFICES ASSUME Conserved, [WindowNext]_windowVars PROVE Conserved'
  OBVIOUS
<1>1. CASE Controller
  <2>1. ASSUME NEW n \in 0..Size, Aim(n) PROVE Conserved'
    BY <2>1, StillConserves DEF Aim
  <2>2. ASSUME Store PROVE Conserved'
    BY <2>2, StillConserves DEF Store
  <2> QED BY <1>1, <2>1, <2>2, ControllerConserves DEF Controller
<1>2. ASSUME NEW f \in Fetches, Start(f) \/ Producer(f) \/ Acquire(f) \/ ReturnToken(f) \/ End(f)
      PROVE  Conserved'
  <2>1. CASE Acquire(f) \/ TopUp(f)
    BY <2>1, TakeConserves DEF Acquire, TopUp
  <2>2. CASE Ask(f)
    BY <2>2, AskConserves
  <2>3. CASE ReturnToken(f)
    BY <2>3, ReturnConserves
  <2>4. CASE Start(f) \/ LoopEnds(f) \/ LoopGoes(f) \/ AcquireEnds(f) \/ Drained(f) \/ End(f)
    <3>1. UNCHANGED <<free, parked, got, wants>>
      BY <2>4 DEF Start, LoopEnds, LoopGoes, AcquireEnds, Drained, End, pool
    <3> QED BY <3>1, StillConserves
  <2> QED BY <1>2, <2>1, <2>2, <2>3, <2>4 DEF Producer
<1>3. CASE UNCHANGED windowVars
  BY <1>3, StillConserves DEF windowVars, pool
<1> QED BY <1>1, <1>2, <1>3 DEF WindowNext

\* Every token is in one place, whatever the fetches and the controller do:
\* the wants of all fetches together stay within the pool (newWantPool, fan,
\* setLimitLocked).
THEOREM Conservation == WindowSpec => []TokensConserved
<1>1. WindowInit => Conserved
  BY DEF WindowInit, Conserved, Places, Once, Somewhere, With
<1> QED BY <1>1, StepConserves, ConservedIsEnough, PTL DEF WindowSpec

-----------------------------------------------------------------------------
\* The share of a fetch: a producer that waits for a token has room for it under
\* the cap, whatever became of the limit since it looked.
Capped ==
  \A f \in Fetches : /\ held(f) <= MaxPerFetch
                     /\ stage[f] = "acquire" => held(f) < MaxPerFetch

Stages == {"off", "loop", "acquire", "topup", "drain"}

Sized == limit \in Int /\ stage \in [Fetches -> Stages]

Shares == Places /\ Sized /\ Capped

LEMMA ShareIsCapped == limit \in Int => perFetch \in Int /\ perFetch <= MaxPerFetch
BY FetchWindowAssumption DEF perFetch

\* What a fetch holds is finite, and counted by a number.
LEMMA HeldIsNat ==
  ASSUME Places, NEW f \in Fetches
  PROVE  IsFiniteSet(got[f] \cup wants[f]) /\ held(f) \in Nat
<1>1. got[f] \cup wants[f] \subseteq Tokens
  BY DEF Places
<1>2. IsFiniteSet(got[f] \cup wants[f])
  BY <1>1, FS_Subset, FetchWindowAssumption
<1> QED BY <1>2, FS_CardinalityType DEF held

\* One more token is one more at most.
LEMMA OneMore ==
  ASSUME NEW S, IsFiniteSet(S), NEW t PROVE Cardinality(S \cup {t}) <= Cardinality(S) + 1
<1>1. CASE t \in S
  <2>1. S \cup {t} = S
    BY <1>1
  <2>2. Cardinality(S) \in Nat
    BY FS_CardinalityType
  <2> QED BY <2>1, <2>2
<1>2. CASE t \notin S
  <2>1. Cardinality(S \cup {t}) = Cardinality(S) + 1 /\ Cardinality(S) \in Nat
    BY <1>2, FS_AddElement, FS_CardinalityType
  <2> QED BY <2>1
<1> QED BY <1>1, <1>2

LEMMA TakeStaysCapped ==
  ASSUME Shares, Conserved, NEW f \in Fetches, Take(f), held(f) < MaxPerFetch,
         \A g \in Fetches : stage'[g] = "acquire" => g # f /\ stage[g] = "acquire"
  PROVE  Capped'
<1> SUFFICES ASSUME NEW g \in Fetches
             PROVE  held(g)' <= MaxPerFetch /\ (stage'[g] = "acquire" => held(g)' < MaxPerFetch)
  BY DEF Capped
<1> DEFINE H(h) == got[h] \cup wants[h]
<1>1. /\ wants' = wants
      /\ got' = [got EXCEPT ![f] = @ \cup {Some(free)}]
  BY DEF Take
<1>2. got \in [Fetches -> SUBSET Tokens]
  BY DEF Shares, Places
<1>3. CASE g = f
  <2>1. got'[f] \cup wants'[f] = H(f) \cup {Some(free)}
    BY <1>1, <1>2
  <2>2. held(f)' <= held(f) + 1
    <3>1. IsFiniteSet(H(f))
      BY HeldIsNat DEF Shares
    <3>2. Cardinality(H(f) \cup {Some(free)}) <= Cardinality(H(f)) + 1
      BY <3>1, OneMore
    <3> QED BY <2>1, <3>2 DEF held
  <2>3. held(f) \in Nat /\ held(f)' \in Nat
    <3>1. Places'
      BY TakeConserves DEF Conserved
    <3>2. IsFiniteSet(got'[f] \cup wants'[f])
      <4>1. got'[f] \cup wants'[f] \subseteq Tokens
        BY <3>1 DEF Places
      <4> QED BY <4>1, FS_Subset, FetchWindowAssumption
    <3> QED BY <3>2, HeldIsNat, FS_CardinalityType DEF Shares, held
  <2>4. held(f)' <= MaxPerFetch
    BY <2>2, <2>3, FetchWindowAssumption
  <2> QED BY <1>3, <2>4
<1>4. CASE g # f
  <2>1. got'[g] = got[g] /\ wants'[g] = wants[g]
    BY <1>1, <1>2, <1>4
  <2>2. held(g)' = held(g)
    BY <2>1 DEF held
  <2> QED BY <2>2, <1>4 DEF Shares, Capped
<1> QED BY <1>3, <1>4

\* Nobody holds more than before, and who begins to wait has room.
LEMMA OthersStayCapped ==
  ASSUME Shares,
         \A f \in Fetches : got'[f] \cup wants'[f] \subseteq got[f] \cup wants[f],
         \A f \in Fetches : stage'[f] = "acquire" => stage[f] = "acquire" \/ held(f) < perFetch
  PROVE  Capped'
<1> SUFFICES ASSUME NEW f \in Fetches
             PROVE  held(f)' <= MaxPerFetch /\ (stage'[f] = "acquire" => held(f)' < MaxPerFetch)
  BY DEF Capped
<1>1. held(f) \in Nat /\ IsFiniteSet(got[f] \cup wants[f])
  BY HeldIsNat DEF Shares
<1>2. held(f)' <= held(f) /\ held(f)' \in Nat
  <2>1. /\ IsFiniteSet(got'[f] \cup wants'[f])
        /\ Cardinality(got'[f] \cup wants'[f]) <= Cardinality(got[f] \cup wants[f])
    BY <1>1, FS_Subset
  <2> QED BY <2>1, FS_CardinalityType DEF held
<1>3. held(f) <= MaxPerFetch
  BY DEF Shares, Capped
<1>4. stage'[f] = "acquire" => held(f) < MaxPerFetch
  <2>1. CASE stage[f] = "acquire"
    BY <2>1 DEF Shares, Capped
  <2>2. CASE held(f) < perFetch
    BY <2>2, <1>1, ShareIsCapped, FetchWindowAssumption DEF Shares, Sized
  <2> QED BY <2>1, <2>2
<1> QED BY <1>1, <1>2, <1>3, <1>4, FetchWindowAssumption

\* The limit is a number, and the stages stay in their type.
LEMMA StepSized == Shares /\ [WindowNext]_windowVars => Sized'
<1> SUFFICES ASSUME Shares, [WindowNext]_windowVars PROVE Sized'
  OBVIOUS
<1> USE DEF Shares, Sized
<1>1. CASE Controller
  <2>1. ASSUME Store PROVE Sized'
    <3>1. Size \in Nat /\ Cardinality(parked) \in Nat
      BY FS_Subset, FS_CardinalityType, FetchWindowAssumption DEF Places, Size
    <3> QED BY <2>1, <3>1 DEF Store, Circulating
  <2> QED BY <1>1, <2>1 DEF Controller, Aim, Unpark, Park
<1>2. ASSUME NEW f \in Fetches, Start(f) \/ Producer(f) \/ Acquire(f) \/ ReturnToken(f) \/ End(f)
      PROVE  Sized'
  <2>1. limit' = limit
    BY <1>2 DEF Producer, Start, LoopEnds, LoopGoes, Acquire, AcquireEnds, TopUp, Ask,
                Drained, ReturnToken, End, Take, pool
  <2>2. stage' = stage \/ \E a, b \in Stages : Stage(f, a, b)
    BY <1>2 DEF Producer, Start, LoopEnds, LoopGoes, Acquire, AcquireEnds, TopUp, Ask,
                Drained, ReturnToken, End, Stages
  <2>3. stage' \in [Fetches -> Stages]
    BY <2>2 DEF Stage
  <2> QED BY <2>1, <2>3
<1>3. CASE UNCHANGED windowVars
  BY <1>3 DEF windowVars, pool
<1> QED BY <1>1, <1>2, <1>3 DEF WindowNext

LEMMA StepCapped == Shares /\ Conserved /\ [WindowNext]_windowVars => Capped'
<1> SUFFICES ASSUME Shares, Conserved, [WindowNext]_windowVars PROVE Capped'
  OBVIOUS
<1> stage \in [Fetches -> Stages]
  BY DEF Shares, Sized
<1>1. CASE Controller \/ UNCHANGED windowVars
  <2>1. UNCHANGED <<stage, got, wants>>
    BY <1>1 DEF Controller, Aim, Unpark, Park, Store, windowVars
  <2> QED BY <2>1, OthersStayCapped
<1>2. ASSUME NEW f \in Fetches, Start(f) \/ Producer(f) \/ Acquire(f) \/ ReturnToken(f) \/ End(f)
      PROVE  Capped'
  <2>1. CASE Acquire(f)
    <3>1. held(f) < MaxPerFetch
      BY <2>1 DEF Acquire, Stage, Shares, Capped
    <3>2. \A g \in Fetches : stage'[g] = "acquire" => g # f /\ stage[g] = "acquire"
      BY <2>1 DEF Acquire, Stage
    <3> QED BY <2>1, <3>1, <3>2, TakeStaysCapped DEF Acquire
  <2>2. CASE TopUp(f)
    <3>1. held(f) < MaxPerFetch
        <4>1. held(f) < perFetch
        BY <2>2 DEF TopUp, MoreRoom
      <4>2. held(f) \in Nat
        BY HeldIsNat DEF Shares
      <4>3. perFetch \in Int /\ perFetch <= MaxPerFetch
        BY ShareIsCapped DEF Shares, Sized
      <4> QED BY <4>1, <4>2, <4>3, FetchWindowAssumption
    <3>2. \A g \in Fetches : stage'[g] = "acquire" => g # f /\ stage[g] = "acquire"
      BY <2>2 DEF TopUp
    <3> QED BY <2>2, <3>1, <3>2, TakeStaysCapped DEF TopUp
  <2>3. CASE Ask(f)
    <3>1. \A g \in Fetches : got'[g] \cup wants'[g] \subseteq got[g] \cup wants[g]
      BY <2>3 DEF Ask, Shares, Places
    <3>2. \A g \in Fetches : stage'[g] = "acquire" => stage[g] = "acquire"
      BY <2>3 DEF Ask, Stage
    <3> QED BY <3>1, <3>2, OthersStayCapped
  <2>4. CASE ReturnToken(f)
    <3>1. \A g \in Fetches : got'[g] \cup wants'[g] \subseteq got[g] \cup wants[g]
      BY <2>4 DEF ReturnToken, Shares, Places
    <3> QED BY <2>4, <3>1, OthersStayCapped DEF ReturnToken
  <2>5. CASE LoopGoes(f)
    BY <2>5, OthersStayCapped DEF LoopGoes, Stage
  <2>6. CASE Start(f) \/ LoopEnds(f) \/ AcquireEnds(f) \/ Drained(f) \/ End(f)
    BY <2>6, OthersStayCapped DEF Start, LoopEnds, AcquireEnds, Drained, End, Stage
  <2> QED BY <1>2, <2>1, <2>2, <2>3, <2>4, <2>5, <2>6 DEF Producer
<1> QED BY <1>1, <1>2 DEF WindowNext

LEMMA InitShares == WindowInit => Shares
<1> SUFFICES ASSUME WindowInit PROVE Shares
  OBVIOUS
<1>1. Places
  BY DEF WindowInit, Places
<1>2. Sized
  <2>1. Size \in Int
    BY FS_CardinalityType, FetchWindowAssumption DEF Size
  <2>2. stage \in [Fetches -> Stages]
    BY DEF WindowInit, Stages
  <2> QED BY <2>1, <2>2 DEF WindowInit, Sized
<1>3. Capped
  <2>1. \A f \in Fetches : got[f] \cup wants[f] = {} /\ stage[f] = "off"
    BY DEF WindowInit
  <2>2. Cardinality({}) = 0
    BY FS_EmptySet
  <2> QED BY <2>1, <2>2, FetchWindowAssumption DEF Capped, held
<1> QED BY <1>1, <1>2, <1>3 DEF Shares

\* No window is ever wider than its cap, though the limit may fall between the
\* producer's look at it and the token it takes (rollingGetBlocks, maxPerFetch).
THEOREM SharesAreBounded == WindowSpec => []ShareIsBounded
<1>1. WindowInit => Conserved
  BY DEF WindowInit, Conserved, Places, Once, Somewhere, With
<1>2. Conserved /\ Shares /\ [WindowNext]_windowVars => (Conserved /\ Shares)'
  BY StepConserves, StepSized, StepCapped DEF Shares, Conserved
<1>3. Shares => ShareIsBounded
  BY DEF Shares, Capped, ShareIsBounded
<1> QED BY <1>1, <1>2, <1>3, InitShares, PTL DEF WindowSpec

-----------------------------------------------------------------------------
(* The losers of the race.                                                 *)

\* The gateways opened whose report is still owed.
Owing == {g \in Gateways : cand[g] \in {"opening", "back"}}

\* In a race, what was opened is accounted for, and the rest is idle.
RaceCounts ==
  pc = "race" =>
    /\ winner = None /\ drain = 0
    /\ fired \in 1 .. N /\ received \in Nat
    /\ fired = received + Len(ch) + Cardinality(Owing)
    /\ \A g \in Gateways : g > fired => cand[g] = "idle"

\* After it, what the drainer waits for is what was left.
DrainCounts == winner # None => drain = Len(ch) + Cardinality(Owing)

DInv ==
  /\ cand \in [Gateways -> {"idle", "opening", "back", "sent"}]
  /\ ch \in Seq(Gateways) /\ drain \in Int
  /\ RaceCounts /\ DrainCounts

counted == <<pc, cand, ch, fired, received, winner, drain>>

LEMMA Still == ASSUME DInv, UNCHANGED counted PROVE DInv'
BY DEF DInv, RaceCounts, DrainCounts, Owing, counted

\* Nothing of the race changes but that it is over.
LEMMA OverInv ==
  ASSUME DInv, UNCHANGED <<cand, ch, fired, received, winner, drain>>, pc' # "race"
  PROVE  DInv'
BY DEF DInv, RaceCounts, DrainCounts, Owing

LEMMA GatewaysFinite == IsFiniteSet(Gateways) /\ Cardinality(Gateways) = N
BY GatewayAssumption, FS_Interval DEF Gateways

LEMMA OwingFinite == IsFiniteSet(Owing) /\ Cardinality(Owing) \in Nat
<1>1. Owing \subseteq Gateways
  BY DEF Owing
<1> QED BY <1>1, GatewaysFinite, FS_Subset, FS_CardinalityType

LEMMA OpenReturns ==
  ASSUME DInv, NEW g \in Gateways, OpenProves(g) \/ OpenFails(g)
  PROVE  DInv'
<1>1. /\ cand[g] = "opening" /\ cand' = [cand EXCEPT ![g] = "back"]
      /\ UNCHANGED <<pc, ch, fired, received, winner, drain>>
  BY DEF OpenProves, OpenFails, call
<1>2. Owing' = Owing
  BY <1>1 DEF Owing, DInv
<1> QED BY <1>1, <1>2 DEF DInv, RaceCounts, DrainCounts

LEMMA ReportSent == ASSUME DInv, NEW g \in Gateways, Reports(g) PROVE DInv'
<1>1. /\ cand[g] = "back" /\ cand' = [cand EXCEPT ![g] = "sent"] /\ ch' = Append(ch, g)
      /\ UNCHANGED <<pc, fired, received, winner, drain>>
  BY DEF Reports, call
<1>2. g \in Owing /\ Owing' = Owing \ {g}
  BY <1>1 DEF Owing, DInv
<1>3. Cardinality(Owing') = Cardinality(Owing) - 1
  BY <1>2, OwingFinite, FS_RemoveElement
<1>4. ch' \in Seq(Gateways) /\ Len(ch') = Len(ch) + 1 /\ Len(ch) \in Nat
  BY <1>1 DEF DInv
<1>5. Len(ch') + Cardinality(Owing') = Len(ch) + Cardinality(Owing)
  BY <1>3, <1>4, OwingFinite
<1>6. RaceCounts'
  <2> SUFFICES ASSUME pc = "race" PROVE RaceCounts'
    BY <1>1 DEF RaceCounts
  <2>1. /\ winner = None /\ drain = 0 /\ fired \in 1 .. N /\ received \in Nat
        /\ fired = received + Len(ch) + Cardinality(Owing)
        /\ \A k \in Gateways : k > fired => cand[k] = "idle"
    BY DEF DInv, RaceCounts
  <2>2. fired' = received' + Len(ch') + Cardinality(Owing')
    BY <1>1, <1>3, <1>4, <2>1, OwingFinite
  <2>3. \A k \in Gateways : k > fired' => cand'[k] = "idle"
    BY <1>1, <2>1 DEF DInv
  <2> QED BY <1>1, <2>1, <2>2, <2>3 DEF RaceCounts
<1>7. DrainCounts'
  BY <1>1, <1>5 DEF DInv, DrainCounts
<1> QED BY <1>1, <1>4, <1>6, <1>7 DEF DInv

LEMMA Sums ==
  ASSUME NEW a \in Int, NEW b \in Int, NEW x \in Int, NEW y \in Int, NEW c \in Int
  PROVE  a = b + x + c /\ y = x - 1 => a - (b + 1) = y + c
OBVIOUS

\* The gateways beyond fired come to owe a report each.
LEMMA RestFired ==
  ASSUME DInv, pc = "race", fireRest
  PROVE  /\ cand' \in [Gateways -> {"idle", "opening", "back", "sent"}]
         /\ fired' = N /\ N \in 1 .. N
         /\ Cardinality(Owing') = Cardinality(Owing) + (N - fired)
<1>1. /\ fired \in 1 .. N /\ \A g \in Gateways : g > fired => cand[g] = "idle"
      /\ cand \in [Gateways -> {"idle", "opening", "back", "sent"}]
  BY DEF DInv, RaceCounts
<1>2. Owing' = Owing \cup (fired + 1 .. N)
  BY <1>1, GatewayAssumption DEF fireRest, Owing, Gateways
<1>3. Owing \cap (fired + 1 .. N) = {}
  BY <1>1, GatewayAssumption DEF Owing, Gateways
<1>4. IsFiniteSet(fired + 1 .. N) /\ Cardinality(fired + 1 .. N) = N - fired
  BY <1>1, GatewayAssumption, FS_Interval
<1>5. Cardinality(Owing \cap (fired + 1 .. N)) = 0
  BY <1>3, FS_EmptySet
<1>6. Cardinality(Owing \cup (fired + 1 .. N))
        = Cardinality(Owing) + Cardinality(fired + 1 .. N)
            - Cardinality(Owing \cap (fired + 1 .. N))
  BY <1>4, OwingFinite, FS_Union
<1>7. N - fired \in Int
  BY <1>1, GatewayAssumption
<1>8. Cardinality(Owing') = Cardinality(Owing) + (N - fired)
  BY <1>2, <1>4, <1>5, <1>6, <1>7, OwingFinite
<1> QED BY <1>1, <1>8, GatewayAssumption DEF fireRest

LEMMA RaceOn == ASSUME DInv, RaceHedges \/ TakeFailure PROVE DInv'
<1>1. /\ pc = "race" /\ UNCHANGED <<pc, winner, drain>> /\ winner = None /\ drain = 0
      /\ fired \in 1 .. N /\ received \in Nat
      /\ fired = received + Len(ch) + Cardinality(Owing)
      /\ \A g \in Gateways : g > fired => cand[g] = "idle"
      /\ ch \in Seq(Gateways)
  BY DEF RaceHedges, TakeFailure, call, DInv, RaceCounts
<1>2. /\ ch' \in Seq(Gateways) /\ received' \in Nat
      /\ received' + Len(ch') = received + Len(ch) /\ Len(ch) \in Nat /\ Len(ch') \in Nat
  BY <1>1 DEF RaceHedges, TakeFailure
<1>3. CASE fireRest
  <2>1. /\ fired' = N /\ fired' \in 1 .. N
        /\ cand' \in [Gateways -> {"idle", "opening", "back", "sent"}]
        /\ Cardinality(Owing') = Cardinality(Owing) + (N - fired)
    BY <1>1, <1>3, RestFired
  <2>2. fired' = received' + Len(ch') + Cardinality(Owing')
    <3>1. N = received + Len(ch) + (Cardinality(Owing) + (N - fired))
      <4>1. /\ fired \in Int /\ received \in Int /\ Len(ch) \in Int
            /\ Cardinality(Owing) \in Int
        BY <1>1, <1>2, OwingFinite
      <4>2. fired = received + Len(ch) + Cardinality(Owing)
        BY <1>1
      <4>3. N \in Int
        BY GatewayAssumption
      <4> QED BY <4>1, <4>2, <4>3
    <3>2. received' + Len(ch') = received + Len(ch)
      BY <1>2
    <3> QED BY <2>1, <3>1, <3>2
  <2>3. \A g \in Gateways : g > fired' => cand'[g] = "idle"
    BY <2>1, GatewayAssumption DEF Gateways
  <2> QED BY <1>1, <1>2, <2>1, <2>2, <2>3 DEF DInv, RaceCounts, DrainCounts
<1>4. CASE UNCHANGED <<cand, fired>>
  <2>1. Owing' = Owing
    BY <1>4 DEF Owing
  <2>2. fired = received' + Len(ch') + Cardinality(Owing)
    BY <1>1, <1>2, OwingFinite
  <2> QED BY <1>1, <1>2, <1>4, <2>1, <2>2 DEF DInv, RaceCounts, DrainCounts
<1> QED BY <1>3, <1>4 DEF RaceHedges, TakeFailure

LEMMA CommitInv == ASSUME DInv, Commit PROVE DInv'
<1>1. /\ fired = received + Len(ch) + Cardinality(Owing) /\ received \in Nat
      /\ fired \in 1 .. N /\ ch \in Seq(Gateways) /\ ch # << >>
      /\ ch' = Tail(ch) /\ cand' = cand /\ pc' = "stream"
      /\ drain' = fired - (received + 1)
  BY DEF Commit, DInv, RaceCounts
<1>2. ch' \in Seq(Gateways) /\ Len(ch') = Len(ch) - 1 /\ Len(ch) \in Nat
  BY <1>1
<1>3. Owing' = Owing
  BY <1>1 DEF Owing
<1>4. drain' = Len(ch') + Cardinality(Owing') /\ drain' \in Int
  <2>1. Len(ch') \in Int /\ Cardinality(Owing) \in Int /\ fired \in Int
    BY <1>1, <1>2, OwingFinite
  <2>2. fired - (received + 1) = Len(ch') + Cardinality(Owing)
    BY <1>1, <1>2, <2>1, Sums
  <2> QED BY <1>1, <1>3, <2>1, <2>2
<1> QED BY <1>1, <1>2, <1>4 DEF DInv, RaceCounts, DrainCounts

LEMMA DrainInv == ASSUME DInv, drainLosers PROVE DInv'
<1>1. /\ drain > 0 /\ ch # << >> /\ ch' = Tail(ch) /\ drain' = drain - 1
      /\ UNCHANGED <<pc, cand, fired, received, winner>>
  BY DEF drainLosers, call
<1>2. ch \in Seq(Gateways) /\ drain \in Int
  BY DEF DInv
<1>3. ch' \in Seq(Gateways) /\ Len(ch') = Len(ch) - 1 /\ Len(ch) \in Nat /\ drain' \in Int
  BY <1>1, <1>2
<1>4. Owing' = Owing
  BY <1>1 DEF Owing
<1>5. DrainCounts'
  BY <1>1, <1>2, <1>3, <1>4, OwingFinite DEF DInv, DrainCounts
<1> QED BY <1>1, <1>3, <1>5 DEF DInv, RaceCounts

LEMMA NewRace ==
  ASSUME OpenPrimary
  PROVE  DInv'
<1>1. /\ cand' = [g \in Gateways |-> IF g = 1 THEN "opening" ELSE "idle"] /\ ch' = << >>
      /\ fired' = 1 /\ received' = 0 /\ winner' = None /\ drain' = 0
  BY DEF OpenPrimary
<1>2. Owing' = {1}
  BY <1>1, GatewayAssumption DEF Owing, Gateways
<1>3. Cardinality(Owing') = 1
  BY <1>2, FS_Singleton
<1>4. \A g \in Gateways : g > 1 => cand'[g] = "idle"
  BY <1>1 DEF Gateways
<1>5. RaceCounts'
  BY <1>1, <1>3, <1>4, GatewayAssumption DEF RaceCounts
<1> QED BY <1>1, <1>5 DEF DInv, DrainCounts

LEMMA StepInv == ASSUME DInv, [Next]_vars PROVE DInv'
<1> USE DEF call, race
<1>1. CASE \E g \in Gateways : OpenProves(g) \/ OpenFails(g) \/ Reports(g)
  BY <1>1, OpenReturns, ReportSent
<1>2. CASE RaceHedges \/ TakeFailure
  BY <1>2, RaceOn
<1>3. CASE Commit
  BY <1>3, CommitInv
<1>4. CASE drainLosers
  BY <1>4, DrainInv
<1>5. CASE FallBack \/ NextRange
  BY <1>5, NewRace DEF FallBack, NextRange
<1>6. CASE CallerEnds \/ UserCancels \/ PeersChange \/ PollEnds \/ PollCancel \/ PollPeers
           \/ (\E g \in Gateways : BoundFires(g)) \/ HedgeRings \/ StreamBlock
           \/ FallsSilent \/ ByteArrives \/ WatchdogFires \/ LibTimesOut \/ UNCHANGED vars
  <2>1. UNCHANGED counted
    BY <1>6 DEF CallerEnds, UserCancels, PeersChange, PollEnds, PollCancel, PollPeers,
                BoundFires, HedgeRings, StreamBlock, FallsSilent, ByteArrives, WatchdogFires, LibTimesOut, vars, counted
  <2> QED BY <2>1, Still
<1>7. CASE RaceEnds \/ RaceIsLost \/ StreamBreaks \/ StreamServes \/ LibAnswers
           \/ LibFailsForGood \/ GetLocal \/ Plan
  <2>1. UNCHANGED <<cand, ch, fired, received, winner, drain>> /\ pc' # "race"
    BY <1>7 DEF RaceEnds, RaceIsLost, RaceFails, StreamBreaks, StreamServes, WinnerCloses,
                LibAnswers, LibFailsForGood, GetLocal, Plan, Return
  <2> QED BY <2>1, OverInv
<1> QED BY <1>1, <1>2, <1>3, <1>4, <1>5, <1>6, <1>7 DEF Next

\* Whoever wins and whatever the others do, drainLosers waits for exactly the
\* reports that will come (fetchViaGateway's count of them).
THEOREM DrainExact == Spec => []DrainIsExact
<1>1. Init => DInv
  <2> SUFFICES ASSUME Init PROVE DInv
    OBVIOUS
  <2>1. /\ cand = [g \in Gateways |-> "idle"] /\ ch = << >> /\ drain = 0
        /\ winner = None /\ pc # "race"
    BY DEF Init
  <2> QED BY <2>1 DEF DInv, RaceCounts, DrainCounts
<1>2. DInv => DrainIsExact
  BY DEF DInv, DrainCounts, DrainIsExact, Owing
<1> QED BY <1>1, <1>2, StepInv, PTL DEF Spec
-----------------------------------------------------------------------------
(* Induction, for the plan of a resume.                                    *)

\* Every set of numbers that is not empty has a least one.
LEMMA Least ==
  ASSUME NEW T \in SUBSET Nat, T # {}
  PROVE  \E n \in T : \A m \in T : n <= m
<1> DEFINE R == OpToRel(<, Nat)
<1>1. IsWellFoundedOn(R, Nat)
  BY NatLessThanWellFounded, Zenon
<1>2. \A m, n \in Nat : m < n => <<m, n>> \in R
  BY Zenon DEF OpToRel
<1> HIDE DEF R
<1>3. PICK n \in T : \A m \in T : <<m, n>> \notin R
  BY <1>1, WFMin
<1>4. n \in Nat /\ \A m \in T : m \in Nat /\ ~(m < n)
  BY <1>2, <1>3
<1> QED BY <1>4

\* Induction up to a bound, over the set of the numbers that have it.
LEMMA Climb ==
  ASSUME NEW n \in Nat, NEW T, 0 \in T, \A k \in 1 .. n : k - 1 \in T => k \in T
  PROVE  \A k \in 0 .. n : k \in T
<1> SUFFICES ASSUME {k \in 0 .. n : k \notin T} # {} PROVE FALSE
  OBVIOUS
<1> DEFINE W == {k \in 0 .. n : k \notin T}
<1>1. W \in SUBSET Nat /\ W # {}
  OBVIOUS
<1>2. PICK k \in W : \A m \in W : k <= m
  BY <1>1, Least
<1>3. k \in 1 .. n /\ k - 1 \in 0 .. n /\ k - 1 \notin W
  BY <1>2
<1> QED BY <1>2, <1>3

-----------------------------------------------------------------------------
(* The two recursive functions of the plan are what they say.              *)

LEMMA RunsDefined ==
  \A u \in 0 .. Units :
    runs[u] = IF u = 0 THEN << >>
              ELSE IF u \in missing THEN Joined(runs[u - 1], [from |-> u, to |-> u])
              ELSE runs[u - 1]
<1> DEFINE At(f, u) == IF u = 0 THEN << >>
                       ELSE IF u \in missing THEN Joined(f[u - 1], [from |-> u, to |-> u])
                       ELSE f[u - 1]
           T == {n \in 0 .. Units : \E f : f = [u \in 0 .. n |-> At(f, u)]}
<1> Units \in Nat
  BY GatewayAssumption
<1>1. 0 \in T
  <2> DEFINE f == [u \in 0 .. 0 |-> << >>]
  <2>1. f = [u \in 0 .. 0 |-> At(f, u)]
    OBVIOUS
  <2>2. \E h : h = [u \in 0 .. 0 |-> At(h, u)]
    BY <2>1
  <2> QED BY <2>2
<1>2. ASSUME NEW k \in 1 .. Units, k - 1 \in T PROVE k \in T
  <2>1. PICK f : f = [u \in 0 .. k - 1 |-> At(f, u)]
    BY <1>2
  <2> DEFINE g == [u \in 0 .. k |-> At(f, u)]
  <2>2. \A u \in 0 .. k - 1 : g[u] = f[u]
    <3> TAKE u \in 0 .. k - 1
    <3>1. u \in 0 .. k
      OBVIOUS
    <3> HIDE DEF At
    <3>2. g[u] = At(f, u)
      BY <3>1
    <3>3. f[u] = At(f, u)
      BY <2>1, Zenon
    <3> QED BY <3>2, <3>3
  <2>3. \A u \in 0 .. k : At(g, u) = At(f, u)
    <3> SUFFICES ASSUME NEW u \in 0 .. k, u # 0 PROVE At(g, u) = At(f, u)
      OBVIOUS
    <3>1. g[u - 1] = f[u - 1]
      <4>1. u - 1 \in 0 .. k - 1
        OBVIOUS
      <4> QED BY <2>2, <4>1
    <3> HIDE DEF g
    <3> QED BY <3>1
  <2>4. g = [u \in 0 .. k |-> At(g, u)]
    BY <2>3
  <2> HIDE DEF g
  <2>5. \E h : h = [u \in 0 .. k |-> At(h, u)]
    BY <2>4
  <2>6. k \in 0 .. Units
    OBVIOUS
  <2> HIDE DEF At
  <2> QED BY <2>5, <2>6
<1>3. Units \in T
  <2> HIDE DEF T
  <2> QED BY <1>1, <1>2, Climb
<1>4. \E f : f = [u \in 0 .. Units |-> At(f, u)]
  BY <1>3
<1>5. runs = [u \in 0 .. Units |-> At(runs, u)]
  BY <1>4, Zenon DEF runs
<1> HIDE DEF At
<1>6. \A u \in 0 .. Units : runs[u] = At(runs, u)
  BY <1>5, Zenon
<1> QED BY <1>6, Zenon DEF At

LEMMA FitDefined ==
  ASSUME excess \in Nat
  PROVE  \A u \in 0 .. excess :
           fit[u] = IF u = 0 THEN runs[Units] ELSE MergeAt(fit[u - 1], Closest(fit[u - 1]))
<1> DEFINE At(f, u) == IF u = 0 THEN runs[Units]
                       ELSE MergeAt(f[u - 1], Closest(f[u - 1]))
           T == {n \in 0 .. excess : \E f : f = [u \in 0 .. n |-> At(f, u)]}
<1>1. 0 \in T
  <2> DEFINE f == [u \in 0 .. 0 |-> runs[Units]]
  <2>1. f = [u \in 0 .. 0 |-> At(f, u)]
    OBVIOUS
  <2>2. \E h : h = [u \in 0 .. 0 |-> At(h, u)]
    BY <2>1
  <2> QED BY <2>2
<1>2. ASSUME NEW k \in 1 .. excess, k - 1 \in T PROVE k \in T
  <2>1. PICK f : f = [u \in 0 .. k - 1 |-> At(f, u)]
    BY <1>2
  <2> DEFINE g == [u \in 0 .. k |-> At(f, u)]
  <2>2. \A u \in 0 .. k - 1 : g[u] = f[u]
    <3> TAKE u \in 0 .. k - 1
    <3>1. u \in 0 .. k
      OBVIOUS
    <3> HIDE DEF At
    <3>2. g[u] = At(f, u)
      BY <3>1
    <3>3. f[u] = At(f, u)
      BY <2>1, Zenon
    <3> QED BY <3>2, <3>3
  <2>3. \A u \in 0 .. k : At(g, u) = At(f, u)
    <3> SUFFICES ASSUME NEW u \in 0 .. k, u # 0 PROVE At(g, u) = At(f, u)
      OBVIOUS
    <3>1. g[u - 1] = f[u - 1]
      <4>1. u - 1 \in 0 .. k - 1
        OBVIOUS
      <4> QED BY <2>2, <4>1
    <3> HIDE DEF g
    <3> QED BY <3>1
  <2>4. g = [u \in 0 .. k |-> At(g, u)]
    BY <2>3
  <2> HIDE DEF g
  <2>5. \E h : h = [u \in 0 .. k |-> At(h, u)]
    BY <2>4
  <2>6. k \in 0 .. excess
    OBVIOUS
  <2> HIDE DEF At
  <2> QED BY <2>5, <2>6
<1>3. excess \in T
  <2> HIDE DEF T
  <2> QED BY <1>1, <1>2, Climb
<1>4. \E f : f = [u \in 0 .. excess |-> At(f, u)]
  BY <1>3
<1>5. fit = [u \in 0 .. excess |-> At(fit, u)]
  BY <1>4, Zenon DEF fit
<1> HIDE DEF At
<1>6. \A u \in 0 .. excess : fit[u] = At(fit, u)
  BY <1>5, Zenon
<1> QED BY <1>6, Zenon DEF At

-----------------------------------------------------------------------------
(* Plans, as the two ends of their ranges.                                 *)

\* The first of the least values of a list of numbers.
LEMMA FirstLeast ==
  ASSUME NEW k \in Nat, k > 0, NEW g \in [1 .. k -> Nat]
  PROVE  \E i \in 1 .. k : \A j \in 1 .. k : g[i] < g[j] \/ (g[i] = g[j] /\ i <= j)
<1>1. PICK d \in {g[i] : i \in 1 .. k} : \A e \in {g[i] : i \in 1 .. k} : d <= e
  <2>1. {g[i] : i \in 1 .. k} \in SUBSET Nat
    OBVIOUS
  <2>2. 1 \in 1 .. k
    OBVIOUS
  <2>3. {g[i] : i \in 1 .. k} # {}
    BY <2>2
  <2> QED BY <2>1, <2>3, Least
<1>2. PICK i \in {j \in 1 .. k : g[j] = d} : \A j \in {l \in 1 .. k : g[l] = d} : i <= j
  <2>1. {j \in 1 .. k : g[j] = d} \in SUBSET Nat /\ {j \in 1 .. k : g[j] = d} # {}
    BY <1>1
  <2> QED BY <2>1, Least
<1>3. \A j \in 1 .. k : g[i] < g[j] \/ (g[i] = g[j] /\ i <= j)
  <2> TAKE j \in 1 .. k
  <2>1. g[i] = d /\ d <= g[j] /\ d \in Nat /\ g[j] \in Nat
    BY <1>1, <1>2
  <2>2. g[j] = d => i <= j
    BY <1>2
  <2> QED BY <2>1, <2>2
<1> QED BY <1>2, <1>3

\* n ranges that begin and end in M, in order and further apart than the gap,
\* and that leave nothing of M out.
Spaced(lo, hi, n, M) ==
  /\ lo \in [1 .. n -> M] /\ hi \in [1 .. n -> M]
  /\ \A i \in 1 .. n : lo[i] <= hi[i]
  /\ \A i, j \in 1 .. n : i < j => lo[j] - hi[i] - 1 > RunGap
  /\ \A m \in M : \E i \in 1 .. n : lo[i] <= m /\ m <= hi[i]

LEMMA SpacedFacts ==
  ASSUME NEW M \in SUBSET Nat, NEW n \in Nat, NEW lo, NEW hi, Spaced(lo, hi, n, M)
  PROVE  /\ RunGap \in Nat
         /\ \A i \in 1 .. n : lo[i] \in M
         /\ \A i \in 1 .. n : hi[i] \in M
         /\ \A i \in 1 .. n : lo[i] \in Nat
         /\ \A i \in 1 .. n : hi[i] \in Nat
         /\ \A i \in 1 .. n : lo[i] <= hi[i]
<1>1. lo \in [1 .. n -> M] /\ hi \in [1 .. n -> M]
  BY DEF Spaced
<1>2. \A i \in 1 .. n : lo[i] \in M /\ hi[i] \in M
  BY <1>1
<1>3. \A i \in 1 .. n : lo[i] <= hi[i]
  BY DEF Spaced
<1> QED BY <1>2, <1>3, GatewayAssumption

\* The last range is drawn out to u.
LEMMA DrawnOut ==
  ASSUME NEW M \in SUBSET Nat, NEW u \in Nat, \A m \in M : m < u, NEW n \in Nat, n > 0,
         NEW lo, NEW hi, Spaced(lo, hi, n, M)
  PROVE  Spaced(lo, [hi EXCEPT ![n] = u], n, M \cup {u})
<1> DEFINE new == [hi EXCEPT ![n] = u]
<1> RunGap \in Nat
  BY GatewayAssumption
<1>9. /\ \A i \in 1 .. n : lo[i] \in M /\ hi[i] \in M
      /\ \A i \in 1 .. n : lo[i] \in Nat /\ hi[i] \in Nat
  BY SpacedFacts
<1>1. /\ \A i \in 1 .. n : lo[i] \in Nat /\ hi[i] \in Nat /\ hi[i] < u /\ lo[i] < u
      /\ n \in 1 .. n
  BY <1>9
<1>0. lo \in [1 .. n -> M] /\ hi \in [1 .. n -> M]
  BY DEF Spaced
<1>2. \A i \in 1 .. n : new[i] = IF i = n THEN u ELSE hi[i]
  BY <1>0
<1>3. lo \in [1 .. n -> M \cup {u}] /\ new \in [1 .. n -> M \cup {u}]
  BY <1>0
<1> HIDE DEF new
<1>4. \A i \in 1 .. n : lo[i] <= new[i]
  <2>1. \A i \in 1 .. n : lo[i] <= hi[i]
    BY DEF Spaced
  <2> QED BY <1>1, <1>2, <2>1
<1>5. \A i, j \in 1 .. n : i < j => lo[j] - new[i] - 1 > RunGap
  <2> SUFFICES ASSUME NEW i \in 1 .. n, NEW j \in 1 .. n, i < j
               PROVE  lo[j] - new[i] - 1 > RunGap
    OBVIOUS
  <2>1. new[i] = hi[i]
    BY <1>2
  <2> QED BY <2>1 DEF Spaced
<1>6. \A m \in M \cup {u} : \E i \in 1 .. n : lo[i] <= m /\ m <= new[i]
  <2>1. lo[n] <= u /\ u <= new[n]
    BY <1>1, <1>2
  <2>2. ASSUME NEW m \in M PROVE \E i \in 1 .. n : lo[i] <= m /\ m <= new[i]
    <3>1. PICK i \in 1 .. n : lo[i] <= m /\ m <= hi[i]
      BY DEF Spaced
    <3>2. m <= new[i]
      BY <1>1, <1>2, <3>1
    <3> QED BY <3>1, <3>2
  <2> QED BY <1>1, <2>1, <2>2
<1> QED BY <1>3, <1>4, <1>5, <1>6 DEF Spaced, new

\* A range of u alone is put behind the others.
Behind(l, h, k, lo, hi, n, u) ==
  /\ k = n + 1
  /\ l = [i \in 1 .. n + 1 |-> IF i = n + 1 THEN u ELSE lo[i]]
  /\ h = [i \in 1 .. n + 1 |-> IF i = n + 1 THEN u ELSE hi[i]]

LEMMA PutBehind ==
  ASSUME NEW M \in SUBSET Nat, NEW u \in Nat, \A m \in M : m < u, NEW n \in Nat,
         NEW lo, NEW hi, Spaced(lo, hi, n, M), n > 0 => u - hi[n] - 1 > RunGap,
         NEW l, NEW h, NEW k, Behind(l, h, k, lo, hi, n, u)
  PROVE  Spaced(l, h, k, M \cup {u})
<1>0. /\ l[n + 1] = u /\ h[n + 1] = u /\ \A i \in 1 .. n : l[i] = lo[i] /\ h[i] = hi[i]
      /\ l \in [1 .. n + 1 -> M \cup {u}] /\ h \in [1 .. n + 1 -> M \cup {u}]
  <2>1. \A i \in 1 .. n : lo[i] \in M /\ hi[i] \in M
    BY SpacedFacts
  <2>2. \A i \in 1 .. n + 1 : i # n + 1 => i \in 1 .. n
    OBVIOUS
  <2> QED BY <2>1, <2>2 DEF Behind
<1> RunGap \in Nat
  BY GatewayAssumption
<1>1. /\ \A i \in 1 .. n : lo[i] \in Nat /\ hi[i] \in Nat /\ lo[i] <= hi[i]
      /\ \A i \in 1 .. n + 1 : i \in 1 .. n \/ i = n + 1
  <2>1. \A i \in 1 .. n : lo[i] \in Nat /\ hi[i] \in Nat /\ lo[i] <= hi[i]
    BY SpacedFacts
  <2>2. \A i \in 1 .. n + 1 : i \in 1 .. n \/ i = n + 1
    OBVIOUS
  <2> QED BY <2>1, <2>2
<1>2. \A i \in 1 .. n + 1 : l[i] <= h[i]
  BY <1>0, <1>1
<1>3. \A i \in 1 .. n : u - hi[i] - 1 > RunGap
  <2> TAKE i \in 1 .. n
  <2>1. n \in 1 .. n /\ u - hi[n] - 1 > RunGap
    OBVIOUS
  <2>2. CASE i # n
    <3>1. i < n /\ lo[n] - hi[i] - 1 > RunGap
      BY <2>1, <2>2 DEF Spaced
    <3>2. lo[n] <= hi[n] /\ lo[n] \in Nat /\ hi[n] \in Nat /\ hi[i] \in Nat
      BY <1>1, <2>1
    <3>3. \A a, b, c \in Nat : a - c - 1 > RunGap /\ a <= b /\ u - b - 1 > RunGap
                                 => u - c - 1 > RunGap
      OBVIOUS
    <3> QED BY <2>1, <3>1, <3>2, <3>3
  <2> QED BY <2>1, <2>2
<1>4. \A i, j \in 1 .. n + 1 : i < j => l[j] - h[i] - 1 > RunGap
  <2> SUFFICES ASSUME NEW i \in 1 .. n + 1, NEW j \in 1 .. n + 1, i < j
               PROVE  l[j] - h[i] - 1 > RunGap
    OBVIOUS
  <2>1. i \in 1 .. n /\ h[i] = hi[i]
    BY <1>0, <1>1
  <2>2. CASE j = n + 1
    BY <1>0, <1>3, <2>1, <2>2
  <2>3. CASE j \in 1 .. n
    <3>1. l[j] = lo[j] /\ lo[j] - hi[i] - 1 > RunGap
      BY <1>0, <2>1, <2>3 DEF Spaced
    <3> QED BY <2>1, <3>1
  <2> QED BY <1>1, <2>2, <2>3
<1>5. \A m \in M \cup {u} : \E i \in 1 .. n + 1 : l[i] <= m /\ m <= h[i]
  <2>1. n + 1 \in 1 .. n + 1 /\ l[n + 1] <= u /\ u <= h[n + 1]
    BY <1>0
  <2>2. ASSUME NEW m \in M PROVE \E i \in 1 .. n + 1 : l[i] <= m /\ m <= h[i]
    <3>1. PICK i \in 1 .. n : lo[i] <= m /\ m <= hi[i]
      BY DEF Spaced
    <3>2. i \in 1 .. n + 1 /\ l[i] <= m /\ m <= h[i]
      BY <1>0, <3>1
    <3> QED BY <3>2
  <2> QED BY <2>1, <2>2
<1>6. Spaced(l, h, n + 1, M \cup {u})
  BY <1>0, <1>2, <1>4, <1>5 DEF Spaced
<1> QED BY <1>6 DEF Behind

\* Two neighbours become one range.
Together(l, h, k, lo, hi, n, best) ==
  /\ k = n - 1
  /\ l = [i \in 1 .. n - 1 |-> IF i <= best THEN lo[i] ELSE lo[i + 1]]
  /\ h = [i \in 1 .. n - 1 |-> IF i < best THEN hi[i] ELSE hi[i + 1]]

LEMMA DrawnTogether ==
  ASSUME NEW M \in SUBSET Nat, NEW n \in Nat, NEW best \in 1 .. n - 1,
         NEW lo, NEW hi, Spaced(lo, hi, n, M),
         NEW l, NEW h, NEW k, Together(l, h, k, lo, hi, n, best)
  PROVE  Spaced(l, h, k, M)
<1>0. /\ \A i \in 1 .. n - 1 : l[i] = IF i <= best THEN lo[i] ELSE lo[i + 1]
      /\ \A i \in 1 .. n - 1 : h[i] = IF i < best THEN hi[i] ELSE hi[i + 1]
      /\ l \in [1 .. n - 1 -> M] /\ h \in [1 .. n - 1 -> M]
  <2>1. \A i \in 1 .. n : lo[i] \in M /\ hi[i] \in M
    BY SpacedFacts
  <2>2. \A i \in 1 .. n - 1 : i \in 1 .. n /\ i + 1 \in 1 .. n
    OBVIOUS
  <2> QED BY <2>1, <2>2 DEF Together
<1> RunGap \in Nat
  BY GatewayAssumption
<1>1. \A i \in 1 .. n : lo[i] \in Nat /\ hi[i] \in Nat /\ lo[i] <= hi[i]
  BY SpacedFacts
<1>2. \A i, j \in 1 .. n : i < j => lo[j] - hi[i] - 1 > RunGap
  BY DEF Spaced
<1>3. \A i \in 1 .. n - 1 : i \in 1 .. n /\ i + 1 \in 1 .. n
  OBVIOUS
<1>4. \A i \in 1 .. n - 1 : l[i] <= h[i]
  <2> TAKE i \in 1 .. n - 1
  <2>1. i \in 1 .. n /\ i + 1 \in 1 .. n /\ i < i + 1
    BY <1>3
  <2>2. lo[i] <= hi[i] /\ lo[i + 1] <= hi[i + 1] /\ lo[i + 1] - hi[i] - 1 > RunGap
    BY <1>1, <1>2, <2>1
  <2> QED BY <1>0, <1>1, <2>1, <2>2
<1>5. \A i, j \in 1 .. n - 1 : i < j => l[j] - h[i] - 1 > RunGap
  <2> SUFFICES ASSUME NEW i \in 1 .. n - 1, NEW j \in 1 .. n - 1, i < j
               PROVE  l[j] - h[i] - 1 > RunGap
    OBVIOUS
  <2> DEFINE a == IF i < best THEN i ELSE i + 1
             b == IF j <= best THEN j ELSE j + 1
  <2>1. a \in 1 .. n /\ b \in 1 .. n /\ a < b
    BY <1>3
  <2>2. h[i] = hi[a] /\ l[j] = lo[b]
    BY <1>0
  <2> HIDE DEF a, b
  <2> QED BY <1>2, <2>1, <2>2
<1>6. \A m \in M : \E i \in 1 .. n - 1 : l[i] <= m /\ m <= h[i]
  <2> TAKE m \in M
  <2>1. PICK c \in 1 .. n : lo[c] <= m /\ m <= hi[c]
    BY DEF Spaced
  <2>2. CASE c < best
    <3>1. c \in 1 .. n - 1 /\ l[c] = lo[c] /\ h[c] = hi[c]
      BY <1>0, <2>2
    <3> QED BY <2>1, <3>1
  <2>3. CASE c = best \/ c = best + 1
    <3>1. l[best] = lo[best] /\ h[best] = hi[best + 1]
      BY <1>0
    <3>2. best \in 1 .. n /\ best + 1 \in 1 .. n /\ best < best + 1
      OBVIOUS
    <3>3. lo[best + 1] - hi[best] - 1 > RunGap
      BY <1>2, <3>2
    <3>4. /\ lo[best] <= hi[best] /\ lo[best + 1] <= hi[best + 1]
          /\ lo[best] \in Nat /\ hi[best] \in Nat /\ lo[best + 1] \in Nat /\ hi[best + 1] \in Nat
      BY <1>1, <3>2
    <3>5. m \in Nat
      OBVIOUS
    <3>6. lo[best] <= m /\ m <= hi[best + 1]
      BY <2>1, <2>3, <3>3, <3>4, <3>5
    <3> QED BY <3>1, <3>6
  <2>4. CASE c > best + 1
    <3>1. /\ c - 1 \in 1 .. n - 1 /\ c - 1 > best
          /\ (c - 1) + 1 = c
      BY <2>4
    <3>2. l[c - 1] = lo[c] /\ h[c - 1] = hi[c]
      BY <1>0, <3>1
    <3> QED BY <2>1, <3>1, <3>2
  <2> QED BY <2>2, <2>3, <2>4
<1>7. Spaced(l, h, n - 1, M)
  BY <1>0, <1>4, <1>5, <1>6 DEF Spaced
<1> QED BY <1>7 DEF Together

-----------------------------------------------------------------------------
(* The same of the sequences that gatewayRanges builds.                    *)

Los(out) == [i \in 1 .. Len(out) |-> out[i].from]

His(out) == [i \in 1 .. Len(out) |-> out[i].to]

\* What gatewayRanges returns for the leaves M, but for their number.
Planned(out, M) ==
  /\ out \in Seq([from : M, to : M])
  /\ Spaced(Los(out), His(out), Len(out), M)

LEMMA JoinPlans ==
  ASSUME NEW M \in SUBSET Nat, NEW u \in Nat, \A m \in M : m < u,
         NEW out, Planned(out, M)
  PROVE  Planned(Joined(out, [from |-> u, to |-> u]), M \cup {u})
<1> DEFINE n == Len(out)
           r == [from |-> u, to |-> u]
           V == [from : M, to : M]
           W == [from : M \cup {u}, to : M \cup {u}]
           J == Joined(out, r)
<1>1. out \in Seq(V) /\ Spaced(Los(out), His(out), n, M)
  BY DEF Planned
<1>2. n \in Nat /\ (out # << >> => n > 0) /\ out \in Seq(W)
  <2>1. V \subseteq W
    OBVIOUS
  <2> HIDE DEF V, W
  <2> QED BY <1>1, <2>1
<1>3. \A i \in 1 .. n : out[i] \in V
  <2> HIDE DEF V
  <2> QED BY <1>1, <1>2
<1>4. \A i \in 1 .. n : out[i].from \in M /\ out[i].to \in M
  BY <1>3
<1>5. CASE out # << >> /\ u - out[n].to - 1 <= RunGap
  <2> DEFINE l == [from |-> out[n].from, to |-> u]
  <2>1. n \in 1 .. n
    BY <1>2, <1>5
  <2>2. J = [out EXCEPT ![n] = l]
    <3>1. r.to > out[n].to
      BY <1>4, <2>1
    <3>2. J = [out EXCEPT ![n] = [out[n] EXCEPT !.to = IF r.to > out[n].to THEN r.to ELSE out[n].to]]
      BY <1>5 DEF Joined, Last
    <3>3. [out[n] EXCEPT !.to = r.to] = l
      BY <1>3, <2>1
    <3> HIDE DEF l, J, n
    <3> QED BY <3>1, <3>2, <3>3
  <2>3. l \in W /\ l.from = out[n].from /\ l.to = u
    BY <1>4, <2>1
  <2>4. J \in Seq(W) /\ Len(J) = n /\ \A i \in 1 .. n : J[i] = IF i = n THEN l ELSE out[i]
    <3> HIDE DEF l, J, W
    <3> QED BY <1>2, <2>1, <2>2, <2>3, ExceptSeq
  <2>5. Los(J) = Los(out)
    <3>1. \A i \in 1 .. n : J[i].from = out[i].from
      BY <2>3, <2>4
    <3> HIDE DEF J
    <3> QED BY <2>4, <3>1 DEF Los
  <2>6. His(J) = [His(out) EXCEPT ![n] = u]
    <3>1. \A i \in 1 .. n : J[i].to = IF i = n THEN u ELSE out[i].to
      BY <2>3, <2>4
    <3> HIDE DEF J
    <3> QED BY <2>4, <3>1 DEF His
  <2>7. Spaced(Los(out), [His(out) EXCEPT ![n] = u], n, M \cup {u})
    <3> HIDE DEF n
    <3> QED BY <1>1, <1>2, <1>5, DrawnOut
  <2> HIDE DEF J
  <2>8. Spaced(Los(J), His(J), Len(J), M \cup {u})
    <3> HIDE DEF n
    <3> QED BY <2>4, <2>5, <2>6, <2>7
  <2> QED BY <2>4, <2>8, Zenon DEF Planned, J
<1>6. CASE ~(out # << >> /\ u - out[n].to - 1 <= RunGap)
  <2>1. J = Append(out, r)
    BY <1>6 DEF Joined, Last
  <2>2. r \in W /\ r.from = u /\ r.to = u
    OBVIOUS
  <2>3. J \in Seq(W) /\ Len(J) = n + 1 /\ J[n + 1] = r /\ \A i \in 1 .. n : J[i] = out[i]
    <3> HIDE DEF r, J, W
    <3> QED BY <1>2, <2>1, <2>2
  <2> HIDE DEF J
  <2>4. \A i \in 1 .. n + 1 : J[i] \in W
    <3> HIDE DEF W
    <3> QED BY <2>3
  <2>5. \A i \in 1 .. n + 1 : J[i].from \in M \cup {u} /\ J[i].to \in M \cup {u}
    BY <2>4
  <2>6. /\ Los(J) = [i \in 1 .. n + 1 |-> IF i = n + 1 THEN u ELSE Los(out)[i]]
        /\ His(J) = [i \in 1 .. n + 1 |-> IF i = n + 1 THEN u ELSE His(out)[i]]
    <3>1. \A i \in 1 .. n + 1 : i # n + 1 => i \in 1 .. n
      BY <1>2
    <3> QED BY <2>2, <2>3, <3>1 DEF Los, His
  <2>9. n > 0 => u - His(out)[n] - 1 > RunGap
    <3>0. n > 0 => out # << >>
      OBVIOUS
    <3>1. n > 0 => n \in 1 .. n /\ out[n].to \in M
      <4> HIDE DEF n
      <4> QED BY <1>2, <1>4
    <3>2. n > 0 => His(out)[n] = out[n].to
      BY <3>1 DEF His
    <3>3. n > 0 => ~(u - out[n].to - 1 <= RunGap)
      BY <1>6, <3>0
    <3>4. \A m \in Nat : ~(u - m - 1 <= RunGap) => u - m - 1 > RunGap
      BY GatewayAssumption
    <3>5. n > 0 => out[n].to \in Nat
      BY <3>1
    <3> HIDE DEF n
    <3> QED BY <3>2, <3>3, <3>4, <3>5
  <2>10. Spaced(Los(J), His(J), n + 1, M \cup {u})
    <3> DEFINE k == n + 1
    <3> HIDE DEF n
    <3>1. k = n + 1
      OBVIOUS
    <3> HIDE DEF k
    <3>2. Spaced(Los(J), His(J), k, M \cup {u})
      <4>1. Behind(Los(J), His(J), k, Los(out), His(out), n, u)
        BY <2>6, <3>1 DEF Behind
      <4> HIDE DEF W, V, r
      <4> QED BY <1>1, <1>2, <2>9, <4>1, PutBehind
    <3> QED BY <3>1, <3>2
  <2>11. Spaced(Los(J), His(J), Len(J), M \cup {u})
    <3> HIDE DEF n
    <3> QED BY <2>3, <2>10
  <2> QED BY <2>3, <2>11, Zenon DEF Planned, J
<1> QED BY <1>5, <1>6

\* The closest pair is a pair.
LEMMA ClosestIsThere ==
  ASSUME NEW M \in SUBSET Nat, NEW out, Planned(out, M), Len(out) > 1
  PROVE  Closest(out) \in 1 .. Len(out) - 1
<1> DEFINE k == Len(out) - 1
           g == [i \in 1 .. k |-> GapAfter(out, i)]
<1>1. Len(out) \in Nat /\ k \in Nat /\ k > 0
  <2>1. Len(out) \in Nat
    BY DEF Planned
  <2> QED BY <2>1
<1>2. \A i \in 1 .. k : GapAfter(out, i) \in Nat
  <2> TAKE i \in 1 .. k
  <2>1. i \in 1 .. Len(out) /\ i + 1 \in 1 .. Len(out) /\ i < i + 1
    BY <1>1
  <2>2. Spaced(Los(out), His(out), Len(out), M)
    BY DEF Planned
  <2>3. Los(out)[i + 1] - His(out)[i] - 1 > RunGap
    BY <2>1, <2>2 DEF Spaced
  <2>4. RunGap \in Nat /\ Los(out)[i + 1] \in Nat /\ His(out)[i] \in Nat
    BY <1>1, <2>1, <2>2, SpacedFacts
  <2>5. Los(out)[i + 1] = out[i + 1].from /\ His(out)[i] = out[i].to
    BY <2>1 DEF Los, His
  <2>6. out[i + 1].from - out[i].to \in Nat
    BY <2>3, <2>4, <2>5
  <2> QED BY <2>6 DEF GapAfter
<1>3. PICK i \in 1 .. k : \A j \in 1 .. k : g[i] < g[j] \/ (g[i] = g[j] /\ i <= j)
  <2>1. g \in [1 .. k -> Nat]
    BY <1>2
  <2> HIDE DEF g, k
  <2> QED BY <1>1, <2>1, FirstLeast
<1>4. \A j \in 1 .. k : \/ GapAfter(out, i) < GapAfter(out, j)
                        \/ GapAfter(out, i) = GapAfter(out, j) /\ i <= j
  BY <1>3
<1> QED BY <1>3, <1>4, Zenon DEF Closest

LEMMA MergePlans ==
  ASSUME NEW M \in SUBSET Nat, NEW out, Planned(out, M), NEW best \in 1 .. Len(out) - 1
  PROVE  Planned(MergeAt(out, best), M) /\ Len(MergeAt(out, best)) = Len(out) - 1
<1> DEFINE n == Len(out)
           W == [from : M, to : M]
           r == [from |-> out[best].from, to |-> out[best + 1].to]
           J == MergeAt(out, best)
<1>1. out \in Seq(W) /\ Spaced(Los(out), His(out), n, M)
  BY DEF Planned
<1>2. n \in Nat /\ best \in 1 .. n /\ best + 1 \in 1 .. n
  <2>1. n \in Nat
    BY <1>1
  <2> QED BY <2>1
<1>3. \A i \in 1 .. n : out[i] \in W
  <2> HIDE DEF W
  <2> QED BY <1>1, <1>2
<1>4. \A i \in 1 .. n : out[i].from \in M /\ out[i].to \in M
  BY <1>3
<1>5. r \in W /\ r.from = out[best].from /\ r.to = out[best + 1].to
  BY <1>2, <1>4
<1>6. /\ J \in Seq(W) /\ Len(J) = n - 1
      /\ \A i \in 1 .. n - 1 : J[i] = IF i < best THEN out[i]
                                      ELSE IF i = best THEN r ELSE out[i + 1]
  <2> DEFINE A == SubSeq(out, 1, best - 1)
             C == SubSeq(out, best + 2, n)
             B == A \o <<r>>
  <2>1. J = B \o C
    BY DEF MergeAt
  <2> HIDE DEF r, W, J, n
  <2>2. A \in Seq(W) /\ Len(A) = best - 1 /\ \A i \in 1 .. best - 1 : A[i] = out[i]
    BY <1>1, <1>2, <1>3 DEF n
  <2>3. C \in Seq(W) /\ Len(C) = n - best - 1
        /\ \A i \in 1 .. n - best - 1 : C[i] = out[best + 1 + i]
    BY <1>1, <1>2, <1>3 DEF n
  <2> HIDE DEF A, C
  <2>4. B \in Seq(W) /\ Len(B) = best /\ B[best] = r /\ \A i \in 1 .. best - 1 : B[i] = A[i]
    <3>1. <<r>> \in Seq(W) /\ Len(<<r>>) = 1 /\ <<r>>[1] = r
      BY <1>5
    <3>2. B \in Seq(W) /\ Len(B) = Len(A) + 1
      BY <2>2, <3>1
    <3>3. \A i \in 1 .. Len(A) + 1 : B[i] = IF i <= Len(A) THEN A[i] ELSE <<r>>[i - Len(A)]
      BY <2>2, <3>1
    <3> HIDE DEF B
    <3> QED BY <1>2, <2>2, <3>1, <3>2, <3>3
  <2> HIDE DEF B
  <2>5. J \in Seq(W) /\ Len(J) = n - 1
        /\ \A i \in 1 .. n - 1 : J[i] = IF i <= best THEN B[i] ELSE C[i - best]
    <3>1. J \in Seq(W) /\ Len(J) = Len(B) + Len(C)
      BY <2>1, <2>3, <2>4, ConcatProperties
    <3>2. \A i \in 1 .. Len(B) + Len(C) : J[i] = IF i <= Len(B) THEN B[i] ELSE C[i - Len(B)]
      BY <2>1, <2>3, <2>4, ConcatProperties
    <3> QED BY <1>2, <2>3, <2>4, <3>1, <3>2
  <2>6. ASSUME NEW i \in 1 .. n - 1
        PROVE  J[i] = IF i < best THEN out[i] ELSE IF i = best THEN r ELSE out[i + 1]
    <3>1. CASE i < best
      <4>1. i \in 1 .. best - 1
        BY <1>2, <3>1
      <4>2. B[i] = out[i]
        BY <2>2, <2>4, <4>1
      <4> QED BY <1>2, <2>5, <3>1, <4>2
    <3>2. CASE i = best
      BY <2>4, <2>5, <3>2
    <3>3. CASE i > best
      <4>1. i - best \in 1 .. n - best - 1 /\ best + 1 + (i - best) = i + 1
        BY <1>2, <3>3
      <4>2. C[i - best] = out[i + 1]
        BY <2>3, <4>1
      <4> QED BY <1>2, <2>5, <3>3, <4>2
    <3> QED BY <1>2, <3>1, <3>2, <3>3
  <2> QED BY <2>5, <2>6
<1> HIDE DEF J
<1>7. \A i \in 1 .. n - 1 : J[i].from \in M /\ J[i].to \in M
  <2>1. \A i \in 1 .. n - 1 : J[i] \in W
    <3> HIDE DEF W
    <3> QED BY <1>2, <1>6
  <2> QED BY <2>1
<1>9. /\ Los(J) = [i \in 1 .. n - 1 |-> IF i <= best THEN Los(out)[i] ELSE Los(out)[i + 1]]
      /\ His(J) = [i \in 1 .. n - 1 |-> IF i < best THEN His(out)[i] ELSE His(out)[i + 1]]
  <2>1. /\ Los(J) = [i \in 1 .. n - 1 |-> J[i].from]
        /\ His(J) = [i \in 1 .. n - 1 |-> J[i].to]
        /\ \A i \in 1 .. n : Los(out)[i] = out[i].from /\ His(out)[i] = out[i].to
    BY <1>6 DEF Los, His
  <2>2. \A i \in 1 .. n - 1 : i \in 1 .. n /\ i + 1 \in 1 .. n
    BY <1>2
  <2>3. \A i \in 1 .. n - 1 :
          /\ J[i].from = IF i <= best THEN out[i].from ELSE out[i + 1].from
          /\ J[i].to = IF i < best THEN out[i].to ELSE out[i + 1].to
    <3> HIDE DEF r
    <3> QED BY <1>2, <1>5, <1>6
  <2> QED BY <2>1, <2>2, <2>3
<1>10. Spaced(Los(J), His(J), n - 1, M)
  <2> HIDE DEF n
  <2>1. best \in 1 .. n - 1
    BY DEF n
  <2> DEFINE k == n - 1
  <2>2. k = n - 1
    OBVIOUS
  <2> HIDE DEF k
  <2>3. Spaced(Los(J), His(J), k, M)
    <3>1. Together(Los(J), His(J), k, Los(out), His(out), n, best)
      BY <1>9, <2>2 DEF Together
    <3> HIDE DEF W, r
    <3> QED BY <1>1, <1>2, <2>1, <3>1, DrawnTogether
  <2> QED BY <2>2, <2>3
<1> QED BY <1>6, <1>10 DEF Planned, J

Before(u) == {m \in missing : m <= u}

LEMMA RunsPlanned ==
  ASSUME missing \in SUBSET (1 .. Units)
  PROVE  Planned(runs[Units], missing)
<1> DEFINE T == {u \in 0 .. Units : Planned(runs[u], Before(u))}
<1> Units \in Nat
  BY GatewayAssumption
<1>1. 0 \in T
  <2>0. 0 \in 0 .. Units /\ \A m \in missing : ~(m <= 0)
    OBVIOUS
  <2>1. runs[0] = << >> /\ Before(0) = {}
    BY <2>0, RunsDefined DEF Before
  <2>2. Planned(<< >>, {})
    BY DEF Planned, Spaced, Los, His
  <2> QED BY <2>0, <2>1, <2>2
<1>2. ASSUME NEW u \in 1 .. Units, u - 1 \in T PROVE u \in T
  <2>1. Planned(runs[u - 1], Before(u - 1))
    BY <1>2
  <2>2. runs[u] = IF u \in missing THEN Joined(runs[u - 1], [from |-> u, to |-> u])
                  ELSE runs[u - 1]
    BY RunsDefined
  <2>3. /\ Before(u - 1) \in SUBSET Nat /\ u \in Nat /\ u \in 0 .. Units
        /\ \A m \in Before(u - 1) : m < u
        /\ Before(u) = IF u \in missing THEN Before(u - 1) \cup {u} ELSE Before(u - 1)
    <3>1. \A m \in missing : m \in Nat /\ (m <= u - 1 <=> m < u) /\ (m <= u <=> m < u \/ m = u)
      OBVIOUS
    <3>2. \A m : m \in Before(u - 1) <=> m \in missing /\ m < u
      BY <3>1 DEF Before
    <3>3. \A m : m \in Before(u) <=> m \in missing /\ (m < u \/ m = u)
      BY <3>1 DEF Before
    <3>4. Before(u - 1) \in SUBSET Nat /\ \A m \in Before(u - 1) : m < u
      BY <3>1, <3>2
    <3>5. u \in missing => Before(u) = Before(u - 1) \cup {u}
      BY <3>1, <3>2, <3>3
    <3>6. u \notin missing => Before(u) = Before(u - 1)
      BY <3>2, <3>3
    <3> QED BY <3>4, <3>5, <3>6
  <2>4. CASE u \in missing
    <3>1. Planned(Joined(runs[u - 1], [from |-> u, to |-> u]), Before(u - 1) \cup {u})
      BY <2>1, <2>3, JoinPlans
    <3> QED BY <2>2, <2>3, <2>4, <3>1
  <2>5. CASE u \notin missing
    BY <2>1, <2>2, <2>3, <2>5
  <2> QED BY <2>4, <2>5
<1>3. Units \in T
  <2> HIDE DEF T
  <2> QED BY <1>1, <1>2, Climb
<1>4. Before(Units) = missing
  <2>1. \A m \in missing : m <= Units
    OBVIOUS
  <2> QED BY <2>1 DEF Before
<1> QED BY <1>3, <1>4

\* Merging keeps the plan, and comes to the limit.
LEMMA RangesArePlanned ==
  ASSUME missing \in SUBSET (1 .. Units)
  PROVE  Planned(gatewayRanges, missing) /\ Len(gatewayRanges) <= MaxRanges
<1> DEFINE n == Len(runs[Units])
           T == {k \in 0 .. excess : Planned(fit[k], missing) /\ Len(fit[k]) = n - k}
<1>1. Planned(runs[Units], missing) /\ n \in Nat
  BY RunsPlanned DEF Planned
<1>2. /\ missing \in SUBSET Nat /\ excess \in Nat /\ MaxRanges \in Nat /\ MaxRanges > 0
      /\ n > MaxRanges => excess = n - MaxRanges
      /\ ~(n > MaxRanges) => excess = 0
  BY <1>1, GatewayAssumption DEF excess
<1>3. 0 \in T
  <2>1. fit[0] = runs[Units]
    BY <1>2, FitDefined
  <2> HIDE DEF n
  <2>2. 0 \in 0 .. excess /\ n - 0 = n
    BY <1>1, <1>2
  <2> QED BY <1>1, <2>1, <2>2 DEF n
<1>4. ASSUME NEW k \in 1 .. excess, k - 1 \in T PROVE k \in T
  <2> DEFINE out == fit[k - 1]
  <2>1. Planned(out, missing) /\ Len(out) = n - (k - 1)
    BY <1>4
  <2>2. fit[k] = MergeAt(out, Closest(out))
    BY <1>2, FitDefined
  <2> HIDE DEF out, n
  <2>3. Len(out) > 1 /\ Len(out) - 1 = n - k
    BY <1>1, <1>2, <2>1
  <2>4. Closest(out) \in 1 .. Len(out) - 1
    BY <1>2, <2>1, <2>3, ClosestIsThere
  <2>5. Planned(fit[k], missing) /\ Len(fit[k]) = Len(out) - 1
    BY <1>2, <2>1, <2>2, <2>4, MergePlans
  <2>6. k \in 0 .. excess
    OBVIOUS
  <2> QED BY <2>3, <2>5, <2>6
<1>5. excess \in T
  <2> HIDE DEF T
  <2>1. excess \in Nat
    BY <1>2
  <2> QED BY <1>3, <1>4, <2>1, Climb
<1> HIDE DEF n
<1>6. n - excess <= MaxRanges
  BY <1>1, <1>2
<1> QED BY <1>5, <1>6 DEF gatewayRanges

\* The first range is asked for: the others are a plan of what it leaves.
LEMMA TailPlans ==
  ASSUME NEW M \in SUBSET Nat, NEW out, Planned(out, M), out # << >>
  PROVE  /\ Planned(Tail(out), M \ AskedIn(Head(out)))
         /\ Len(Tail(out)) = Len(out) - 1 /\ Len(out) \in Nat
<1> DEFINE n == Len(out)
           W == [from : M, to : M]
           S == Tail(out)
           A == AskedIn(Head(out))
           V == [from : M \ A, to : M \ A]
<1>1. out \in Seq(W) /\ Spaced(Los(out), His(out), n, M)
  BY DEF Planned
<1>2. n \in Nat /\ n > 0 /\ S \in Seq(W) /\ Len(S) = n - 1 /\ \A i \in 1 .. n - 1 : S[i] = out[i + 1]
  <2> HIDE DEF W
  <2> QED BY <1>1
<1>3. \A i \in 1 .. n - 1 : S[i] \in W
  <2> HIDE DEF W, S
  <2> QED BY <1>2
<1> HIDE DEF n, S
<1>4. A = Los(out)[1] .. His(out)[1]
  <2>1. 1 \in 1 .. n
    BY <1>2
  <2> QED BY <2>1 DEF AskedIn, Los, His, n
<1>5. /\ \A i \in 1 .. n : Los(out)[i] \in Nat /\ His(out)[i] \in Nat /\ Los(out)[i] <= His(out)[i]
      /\ RunGap \in Nat
  BY <1>1, <1>2, SpacedFacts
<1>6. \A i \in 1 .. n : Los(out)[i] \in M /\ His(out)[i] \in M
  BY <1>1, <1>2, SpacedFacts
<1>7. \A i, j \in 1 .. n : i < j => Los(out)[j] - His(out)[i] - 1 > RunGap
  BY <1>1 DEF Spaced
<1>8. \A m \in M : \E i \in 1 .. n : Los(out)[i] <= m /\ m <= His(out)[i]
  BY <1>1 DEF Spaced
<1>9. \A i \in 1 .. n - 1 : i + 1 \in 1 .. n /\ 1 \in 1 .. n /\ 1 < i + 1
  BY <1>2
<1> HIDE DEF A
<1>10. \A i \in 1 .. n - 1 : Los(out)[i + 1] \in M \ A /\ His(out)[i + 1] \in M \ A
  <2> TAKE i \in 1 .. n - 1
  <2>1. /\ Los(out)[i + 1] - His(out)[1] - 1 > RunGap
        /\ Los(out)[i + 1] <= His(out)[i + 1]
        /\ Los(out)[i + 1] \in Nat /\ His(out)[i + 1] \in Nat /\ His(out)[1] \in Nat
    BY <1>5, <1>7, <1>9
  <2>2. Los(out)[i + 1] > His(out)[1] /\ His(out)[i + 1] > His(out)[1]
    BY <1>5, <2>1
  <2> QED BY <1>4, <1>5, <1>6, <1>9, <2>1, <2>2
<1>11. \A i \in 1 .. n - 1 : S[i].from = Los(out)[i + 1] /\ S[i].to = His(out)[i + 1]
  BY <1>2, <1>9 DEF Los, His, n
<1>12. S \in Seq(V)
  <2>1. \A i \in 1 .. n - 1 : S[i] \in V
    BY <1>3, <1>10, <1>11
  <2> HIDE DEF V, W
  <2> QED BY <1>2, <2>1
<1>13. Spaced(Los(S), His(S), n - 1, M \ A)
  <2> DEFINE lo == Los(S)
             hi == His(S)
  <2>1. /\ lo = [i \in 1 .. n - 1 |-> Los(out)[i + 1]]
        /\ hi = [i \in 1 .. n - 1 |-> His(out)[i + 1]]
    BY <1>2, <1>11 DEF Los, His
  <2> HIDE DEF lo, hi, V, W
  <2>2. lo \in [1 .. n - 1 -> M \ A] /\ hi \in [1 .. n - 1 -> M \ A]
    BY <1>10, <2>1
  <2>3. \A i \in 1 .. n - 1 : lo[i] = Los(out)[i + 1] /\ hi[i] = His(out)[i + 1]
    BY <2>1
  <2>4. \A i \in 1 .. n - 1 : lo[i] <= hi[i]
    BY <1>5, <1>9, <2>3
  <2>5. \A i, j \in 1 .. n - 1 : i < j => lo[j] - hi[i] - 1 > RunGap
    <3> SUFFICES ASSUME NEW i \in 1 .. n - 1, NEW j \in 1 .. n - 1, i < j
                 PROVE  lo[j] - hi[i] - 1 > RunGap
      OBVIOUS
    <3>1. i + 1 < j + 1
      BY <1>2
    <3> QED BY <1>7, <1>9, <2>3, <3>1
  <2>6. \A m \in M \ A : \E i \in 1 .. n - 1 : lo[i] <= m /\ m <= hi[i]
    <3> TAKE m \in M \ A
    <3>1. PICK i \in 1 .. n : Los(out)[i] <= m /\ m <= His(out)[i]
      BY <1>8
    <3>2. i # 1
      BY <1>4, <1>5, <3>1
    <3>3. i - 1 \in 1 .. n - 1 /\ (i - 1) + 1 = i
      BY <1>2, <3>2
    <3>4. lo[i - 1] = Los(out)[i] /\ hi[i - 1] = His(out)[i]
      BY <2>3, <3>3
    <3> QED BY <3>1, <3>3, <3>4
  <2> QED BY <2>2, <2>4, <2>5, <2>6 DEF Spaced, lo, hi
<1> HIDE DEF V
<1>14. Planned(S, M \ A)
  BY <1>2, <1>12, <1>13 DEF Planned, V
<1> QED BY <1>2, <1>14 DEF S, A, n

-----------------------------------------------------------------------------
(* The resume.                                                             *)

\* Until it plans, a resume has something missing; from then on what is to be
\* asked for is a plan of what is still missing.
ResumeInv ==
  /\ missing \in SUBSET (1 .. Units)
  /\ pc = "plan" => ranges = << >> /\ missing # {}
  /\ pc # "plan" => Planned(ranges, missing)
  /\ Len(ranges) <= MaxRanges
  /\ pc = "next" => ranges # << >>
  /\ mode = "resume" => pc \notin {"lib", "local"}
  /\ mode = "resume" /\ result = "ok" => ranges = << >> /\ pc = "done"

LEMMA ResumeStands ==
  ASSUME ResumeInv, UNCHANGED <<mode, missing, ranges, result>>, pc # "plan", pc' # "plan",
         pc' = "next" => ranges # << >>,
         mode = "resume" => pc' \notin {"lib", "local"},
         pc = "done" => pc' = "done"
  PROVE  ResumeInv'
BY DEF ResumeInv

\* The call returns: a resume only from a race or with nothing left.
LEMMA ReturnKeeps ==
  ASSUME ResumeInv, NEW res, Return(res), pc # "plan",
         mode = "resume" /\ res = "ok" => ranges = << >>
  PROVE  ResumeInv'
BY DEF ResumeInv, Return

LEMMA StepResume == ASSUME ResumeInv, [Next]_vars PROVE ResumeInv'
<1>1. CASE CallerEnds \/ UserCancels \/ PeersChange \/ PollEnds \/ PollCancel \/ PollPeers
           \/ (\E g \in Gateways : OpenProves(g) \/ OpenFails(g) \/ BoundFires(g) \/ Reports(g))
           \/ HedgeRings \/ RaceHedges \/ TakeFailure \/ drainLosers \/ StreamBlock
           \/ FallsSilent \/ ByteArrives \/ WatchdogFires \/ LibTimesOut \/ UNCHANGED vars
  <2>1. UNCHANGED call
    BY <1>1 DEF CallerEnds, UserCancels, PeersChange, PollEnds, PollCancel, PollPeers,
                OpenProves, OpenFails, BoundFires, Reports, HedgeRings, RaceHedges,
                TakeFailure, drainLosers, StreamBlock, FallsSilent, ByteArrives, WatchdogFires, LibTimesOut, vars
  <2> QED BY <2>1 DEF ResumeInv, call
<1>2. CASE RaceEnds \/ RaceIsLost \/ StreamBreaks \/ LibFailsForGood
  <2>1. Return("failed") /\ pc # "plan"
    BY <1>2 DEF RaceEnds, RaceIsLost, RaceFails, StreamBreaks, LibFailsForGood
  <2> QED BY <2>1, ReturnKeeps
<1>3. CASE LibAnswers \/ GetLocal
  <2>1. (Return("failed") \/ Return("ok")) /\ pc \in {"lib", "local"}
    BY <1>3 DEF LibAnswers, GetLocal
  <2>2. mode # "resume" /\ pc # "plan"
    BY <2>1 DEF ResumeInv
  <2> QED BY <2>1, <2>2, ReturnKeeps
<1>4. CASE Commit \/ FallBack
  <2>1. /\ UNCHANGED <<mode, missing, ranges, result>>
        /\ pc \in {"race", "lib"} /\ pc' \in {"stream", "race"}
    BY <1>4 DEF Commit, FallBack, OpenPrimary
  <2> QED BY <2>1, ResumeStands
<1>5. CASE StreamServes
  <2>1. CASE mode # "resume" /\ pc' = "local" /\ UNCHANGED <<mode, missing, ranges, result>>
    BY <1>5, <2>1, ResumeStands DEF StreamServes
  <2>2. CASE ranges # << >> /\ pc' = "next" /\ UNCHANGED <<mode, missing, ranges, result>>
    BY <1>5, <2>2, ResumeStands DEF StreamServes
  <2>3. CASE ranges = << >> /\ Return("ok")
    BY <1>5, <2>3, ReturnKeeps DEF StreamServes
  <2> QED BY <1>5, <2>1, <2>2, <2>3 DEF StreamServes
<1>6. CASE Plan
  <2>1. /\ pc = "plan" /\ pc' = "next" /\ ranges' = gatewayRanges
        /\ UNCHANGED <<mode, missing, result>>
    BY <1>6 DEF Plan
  <2>2. missing \in SUBSET (1 .. Units) /\ missing # {}
    BY <2>1 DEF ResumeInv
  <2>3. Planned(gatewayRanges, missing) /\ Len(gatewayRanges) <= MaxRanges
    BY <2>2, RangesArePlanned
  <2>4. gatewayRanges # << >>
    <3>1. \A m \in missing : \E i \in 1 .. Len(gatewayRanges) : TRUE
      BY <2>3 DEF Planned, Spaced
    <3>2. PICK m \in missing : TRUE
      BY <2>2
    <3>3. \E i \in 1 .. Len(gatewayRanges) : TRUE
      BY <3>1, <3>2
    <3>4. gatewayRanges = << >> => Len(gatewayRanges) = 0
      OBVIOUS
    <3> QED BY <3>3, <3>4
  <2>5. mode = "resume" => result # "ok"
    BY <2>1 DEF ResumeInv
  <2> QED BY <2>1, <2>2, <2>3, <2>4, <2>5 DEF ResumeInv
<1>7. CASE NextRange
  <2>1. /\ pc = "next" /\ pc' = "race" /\ ranges' = Tail(ranges)
        /\ missing' = missing \ AskedIn(Head(ranges)) /\ UNCHANGED <<mode, result>>
    BY <1>7 DEF NextRange, OpenPrimary
  <2>2. /\ missing \in SUBSET (1 .. Units) /\ missing \in SUBSET Nat
        /\ Planned(ranges, missing) /\ ranges # << >> /\ Len(ranges) <= MaxRanges
    BY <2>1 DEF ResumeInv
  <2>3. /\ Planned(Tail(ranges), missing \ AskedIn(Head(ranges)))
        /\ Len(Tail(ranges)) = Len(ranges) - 1 /\ Len(ranges) \in Nat
    BY <2>2, TailPlans
  <2>4. Len(Tail(ranges)) <= MaxRanges
    BY <2>2, <2>3, GatewayAssumption
  <2>5. mode = "resume" => result # "ok"
    BY <2>1 DEF ResumeInv
  <2> QED BY <2>1, <2>2, <2>3, <2>4, <2>5 DEF ResumeInv
<1> QED BY <1>1, <1>2, <1>3, <1>4, <1>5, <1>6, <1>7 DEF Next

\* A resume that succeeds has asked for every missing leaf, in ranges that are
\* few enough, of missing leaves, and no two where the gap allows one
\* (gatewayRanges and writeThrough's loop over it), for a file of any length.
THEOREM ResumeIsComplete == Spec => []ResumeAsksForAll
<1>1. Init => ResumeInv
  <2> SUFFICES ASSUME Init PROVE ResumeInv
    OBVIOUS
  <2>1. /\ missing \in SUBSET (1 .. Units) /\ ranges = << >> /\ result = "none"
        /\ mode = "resume" => pc = "plan" /\ missing # {}
        /\ mode # "resume" => pc = "lib" /\ missing = {}
    <3>1. CASE mode = "resume"
      BY <3>1 DEF Init
    <3>2. CASE mode # "resume"
      BY <3>2 DEF Init
    <3> QED BY <3>1, <3>2
  <2>2. Planned(<< >>, {}) /\ Len(<< >>) = 0
    BY DEF Planned, Spaced, Los, His
  <2>3. Len(ranges) <= MaxRanges
    BY <2>1, <2>2, GatewayAssumption
  <2>4. pc # "plan" => Planned(ranges, missing)
    BY <2>1, <2>2
  <2> QED BY <2>1, <2>3, <2>4 DEF ResumeInv
<1>2. ResumeInv => ResumeAsksForAll
  <2> SUFFICES ASSUME ResumeInv PROVE ResumeAsksForAll
    OBVIOUS
  <2>1. CASE pc = "plan"
    BY <2>1 DEF ResumeInv, ResumeAsksForAll
  <2>2. CASE pc # "plan"
    <3> DEFINE n == Len(ranges)
    <3>1. Planned(ranges, missing) /\ missing \in SUBSET Nat /\ n <= MaxRanges /\ n \in Nat
      BY <2>2 DEF ResumeInv, Planned
    <3>2. mode = "resume" /\ result = "ok" => missing = {}
      <4>1. ranges = << >> => missing = {}
        BY <3>1 DEF Planned, Spaced
      <4> QED BY <4>1 DEF ResumeInv
    <3>3. Spaced(Los(ranges), His(ranges), n, missing)
      BY <3>1 DEF Planned
    <3>4. \A i \in 1 .. n : Los(ranges)[i] = ranges[i].from /\ His(ranges)[i] = ranges[i].to
      BY DEF Los, His
    <3> HIDE DEF n
    <3>5. \A i \in 1 .. n : {ranges[i].from, ranges[i].to} \subseteq missing
      <4>1. \A i \in 1 .. n : Los(ranges)[i] \in missing /\ His(ranges)[i] \in missing
        BY <3>1, <3>3, SpacedFacts
      <4> QED BY <3>4, <4>1
    <3>6. \A i \in 1 .. n - 1 : ranges[i + 1].from - ranges[i].to - 1 > RunGap
      <4> TAKE i \in 1 .. n - 1
      <4>1. i \in 1 .. n /\ i + 1 \in 1 .. n /\ i < i + 1
        BY <3>1
      <4>2. Los(ranges)[i + 1] - His(ranges)[i] - 1 > RunGap
        BY <3>3, <4>1 DEF Spaced
      <4> QED BY <3>4, <4>1, <4>2
    <3> QED BY <3>1, <3>2, <3>5, <3>6 DEF ResumeAsksForAll, n
  <2> QED BY <2>1, <2>2
<1> QED BY <1>1, <1>2, StepResume, PTL DEF Spec
=============================================================================
