---- MODULE GatewayRace ----
(***************************************************************************)
(* The HTTPS fallback of a fetch: getRoot, which gives libp2p its own      *)
(* bounded phase before the trustless gateways, fetchViaGateway, which     *)
(* hedges the gateways and streams from the first that proves itself, and  *)
(* the resume of writeThrough, which asks them for the missing spans.      *)
(*                                                                         *)
(* One call of getRoot (or one resume) runs beside its cancel poller, the  *)
(* goroutine of every gateway opened, the drainer of the losers, the       *)
(* watchdog of the stream, and callers who cancel or run out of time.      *)
(* What a CAR carries is kept to one bit: was the requested root in it.    *)
(***************************************************************************)
EXTENDS Integers, Sequences, SequencesExt, FiniteSets

CONSTANTS
    N,          \* how many gateways are configured; 1 is the primary
    Units,      \* the file's length in leaves, for the spans of a resume
    RunGap,     \* gatewayRunGap, in units
    MaxRanges,  \* gatewayMaxRanges
    Modes       \* the calls made: "root", "offline" (no DHT) and "resume"

ASSUME GatewayAssumption ==
    /\ N \in Nat \ {0} /\ Units \in Nat /\ RunGap \in Nat
    /\ MaxRanges \in Nat \ {0}
    /\ Modes \subseteq {"root", "offline", "resume"}

Gateways == 1 .. N
None == 0

VARIABLES
    mode,     \* which call this is
    missing,  \* the missing leaves of a resume that no race was asked for yet
    ranges,   \* the ranges a resume has still to ask for
    pc,       \* "lib", "plan", "race", "stream", "next", "local" or "done"
    result,   \* "none" until the call returns, then "ok" or "failed"
    ended,    \* the contexts cancelled so far, by name
    killed,   \* the gateways whose candidate's own context is cancelled
    cancelled,\* isCancelled: the user's cancel
    poller,   \* whether the cancel poller still runs
    linked,   \* whether the node has any connected peer
    alone,    \* the poller's zeroPeersSince is set
    hasRoot,  \* whether the root is in the blockstore
    cand,     \* a gateway's goroutine: "idle", "opening", "back", "sent"
    good,     \* the gateways whose open proved a first block
    bodies,   \* the gateways whose response body is open
    ch,       \* the reports sent and not received
    fired,    \* how many gateways have been opened
    received, \* how many reports the race has taken
    hedge,    \* the hedge timer: "armed", "rung" or "spent"
    winner,   \* the gateway committed to, or None
    drain,    \* how many reports drainLosers still waits for
    silent    \* lastRead of the stream is older than stallTimeout

call == <<mode, missing, ranges, pc, result>>
poll == <<cancelled, poller, linked, alone>>
race == <<killed, cand, good, bodies, ch, fired, received, hedge, winner, drain, silent>>
vars == <<call, poll, race, ended, hasRoot>>

-----------------------------------------------------------------------------
(* The contexts: libCtx and gwCtx are children of the caller's, the race's *)
(* is a child of gwCtx, and every candidate's a child of the race's.       *)

LibCtx == {"caller", "lib"}

RaceCtx == {"caller", "gw", "race"}

Dead(ctx) == ctx \cap ended # {}

CandDead(g) == Dead(RaceCtx) \/ g \in killed

-----------------------------------------------------------------------------
(* gatewayRanges: runs of missing leaves closer than the gap are one range,*)
(* and the closest neighbours merge until there are few enough.            *)

Joined(out, m) ==
    IF out # << >> /\ m.from - Last(out).to - 1 <= RunGap
    THEN [out EXCEPT ![Len(out)].to = IF m.to > @ THEN m.to ELSE @]
    ELSE Append(out, m)

GapAfter(out, i) == out[i + 1].from - out[i].to

Closest(out) ==
    CHOOSE i \in 1 .. Len(out) - 1 :
        \A j \in 1 .. Len(out) - 1 :
            \/ GapAfter(out, i) < GapAfter(out, j)
            \/ GapAfter(out, i) = GapAfter(out, j) /\ i <= j

MergeAtKeepsEnd(out, best) ==
    SubSeq(out, 1, best) \o SubSeq(out, best + 2, Len(out))

MergeAt(out, best) ==
    SubSeq(out, 1, best - 1)
      \o <<[from |-> out[best].from, to |-> out[best + 1].to]>>
      \o SubSeq(out, best + 2, Len(out))

\* The runs of the missing leaves up to u, in file order.
runs[u \in 0 .. Units] ==
    IF u = 0 THEN << >>
    ELSE IF u \in missing THEN Joined(runs[u - 1], [from |-> u, to |-> u])
    ELSE runs[u - 1]

excess == IF Len(runs[Units]) > MaxRanges THEN Len(runs[Units]) - MaxRanges ELSE 0

\* What is left of the runs after k merges.
fit[k \in 0 .. excess] ==
    IF k = 0 THEN runs[Units]
    ELSE MergeAt(fit[k - 1], Closest(fit[k - 1]))

gatewayRanges == fit[excess]

-----------------------------------------------------------------------------
Init ==
    /\ mode \in Modes
    /\ missing \in IF mode = "resume" THEN (SUBSET (1 .. Units)) \ {{}} ELSE {{}}
    /\ ranges = << >>
    /\ pc = IF mode = "resume" THEN "plan" ELSE "lib"
    /\ result = "none"
    /\ ended = {} /\ cancelled = FALSE /\ poller = TRUE
    /\ linked = TRUE /\ alone = FALSE
    /\ hasRoot = (mode = "resume")
    /\ cand = [g \in Gateways |-> "idle"]
    /\ killed = {} /\ good = {} /\ bodies = {} /\ ch = << >>
    /\ fired = 0 /\ received = 0 /\ hedge = "spent"
    /\ winner = None /\ drain = 0 /\ silent = FALSE

\* The deferred cancels and close(stopPoll) of getRoot; rstop of a resume.
Return(res) ==
    /\ pc' = "done" /\ result' = res
    /\ poller' = FALSE
    /\ ended' = ended \cup {"lib", "gw", "race"}
    /\ UNCHANGED <<mode, missing, ranges, cancelled, linked, alone>>

-----------------------------------------------------------------------------
(* The callers and the network.                                            *)

CallerEnds ==
    /\ pc # "done" /\ "caller" \notin ended
    /\ ended' = ended \cup {"caller"}
    /\ UNCHANGED <<call, poll, race, hasRoot>>

UserCancels ==
    /\ pc # "done" /\ ~cancelled
    /\ cancelled' = TRUE
    /\ UNCHANGED <<call, poller, linked, alone, race, ended, hasRoot>>

PeersChange ==
    /\ mode = "root" /\ pc # "done"
    /\ linked' = ~linked
    /\ UNCHANGED <<call, cancelled, poller, alone, race, ended, hasRoot>>

-----------------------------------------------------------------------------
(* The poller: every 250 ms of the call, unless the caller's context ended.*)

PollEnds ==
    /\ poller /\ "caller" \in ended
    /\ poller' = FALSE
    /\ UNCHANGED <<call, cancelled, linked, alone, race, ended, hasRoot>>

PollCancel ==
    /\ poller /\ cancelled
    /\ ended' = ended \cup (IF mode = "resume" THEN {"gw"} ELSE {"lib", "gw"})
    /\ poller' = FALSE
    /\ UNCHANGED <<call, cancelled, linked, alone, race, hasRoot>>

\* No peers for the grace (whether it is over is the clock's choice) ends the
\* libp2p phase.
PollPeers ==
    /\ poller /\ mode # "resume" /\ ~cancelled
    /\ alone' = ~linked
    /\ \/ UNCHANGED ended
       \/ ~linked /\ alone /\ ended' = ended \cup {"lib"}
    /\ UNCHANGED <<call, cancelled, poller, linked, race, hasRoot>>

-----------------------------------------------------------------------------
(* fetchViaGateway.                                                        *)

\* A new race: its own context, channel and candidates; the primary opened.
OpenPrimary ==
    /\ pc' = "race"
    /\ killed' = {} /\ good' = {} /\ bodies' = {} /\ ch' = << >>
    /\ cand' = [g \in Gateways |-> IF g = 1 THEN "opening" ELSE "idle"]
    /\ fired' = 1 /\ received' = 0 /\ hedge' = "armed"
    /\ winner' = None /\ drain' = 0 /\ silent' = FALSE
    /\ ended' = ended \ {"race"}

\* The race returns: the deferred rcancel and hedge.Stop.
RaceFails ==
    /\ Return("failed")
    /\ UNCHANGED <<killed, cand, good, bodies, ch, fired, received, winner, drain, silent, hasRoot>>
    /\ hedge' = "spent"
\* A gateway's open comes back with a verified first block, or fails: at once
\* when its context has ended.
OpenProves(g) ==
    /\ cand[g] = "opening" /\ ~CandDead(g)
    /\ cand' = [cand EXCEPT ![g] = "back"]
    /\ good' = good \cup {g} /\ bodies' = bodies \cup {g}
    /\ UNCHANGED <<call, poll, killed, ch, fired, received, hedge, winner, drain, silent, ended, hasRoot>>

OpenFails(g) ==
    /\ cand[g] = "opening"
    /\ cand' = [cand EXCEPT ![g] = "back"]
    /\ UNCHANGED <<call, poll, killed, good, bodies, ch, fired, received, hedge, winner, drain, silent, ended, hasRoot>>

BoundFiresForPrimary(g) ==
    /\ cand[g] \in {"opening", "back"} /\ g \notin killed /\ g = 1
    /\ killed' = killed \cup {g}
    /\ UNCHANGED <<call, poll, cand, good, bodies, ch, fired, received, hedge, winner, drain, silent, ended, hasRoot>>

\* The open's own bound, which runs until tm.Stop: also between the return of
\* the open and the stop.
BoundFires(g) ==
    /\ cand[g] \in {"opening", "back"} /\ g \notin killed
    /\ killed' = killed \cup {g}
    /\ UNCHANGED <<call, poll, cand, good, bodies, ch, fired, received, hedge, winner, drain, silent, ended, hasRoot>>

Reports(g) ==
    /\ cand[g] = "back"
    /\ cand' = [cand EXCEPT ![g] = "sent"]
    /\ ch' = Append(ch, g)
    /\ UNCHANGED <<call, poll, killed, good, bodies, fired, received, hedge, winner, drain, silent, ended, hasRoot>>

HedgeRings ==
    /\ pc = "race" /\ hedge = "armed"
    /\ hedge' = "rung"
    /\ UNCHANGED <<call, poll, killed, cand, good, bodies, ch, fired, received, winner, drain, silent, ended, hasRoot>>

fireRest ==
    /\ cand' = [g \in Gateways |-> IF g > fired THEN "opening" ELSE cand[g]]
    /\ fired' = N

RaceHedges ==
    /\ pc = "race" /\ received < N /\ hedge = "rung"
    /\ hedge' = "spent"
    /\ fireRest
    /\ UNCHANGED <<call, poll, killed, good, bodies, ch, received, winner, drain, silent, ended, hasRoot>>

\* The caller's, the user's or the phase's end.
RaceEnds ==
    /\ pc = "race" /\ Dead(RaceCtx)
    /\ RaceFails

TakeFailure ==
    /\ pc = "race" /\ received < N /\ ch # << >> /\ Head(ch) \notin good
    /\ ch' = Tail(ch) /\ received' = received + 1
    /\ IF fired < N THEN fireRest ELSE UNCHANGED <<cand, fired>>
    /\ UNCHANGED <<call, poll, killed, good, bodies, hedge, winner, drain, silent, ended, hasRoot>>

RaceIsLost ==
    /\ pc = "race" /\ received = N
    /\ RaceFails

CommitDrainsAll ==
    /\ pc = "race" /\ received < N /\ ch # << >> /\ Head(ch) \in good
    /\ winner' = Head(ch)
    /\ ch' = Tail(ch) /\ received' = received + 1
    /\ killed' = killed \cup ((1 .. fired) \ {Head(ch)})
    /\ drain' = N - (received + 1)
    /\ fired' = N
    /\ pc' = "stream"
    /\ UNCHANGED <<mode, missing, ranges, result, poll, cand, good, bodies, hedge, silent, ended, hasRoot>>

\* The first proven report wins: the other contexts are cancelled and the
\* reports still to come are left to the drainer.
Commit ==
    /\ pc = "race" /\ received < N /\ ch # << >> /\ Head(ch) \in good
    /\ winner' = Head(ch)
    /\ ch' = Tail(ch) /\ received' = received + 1
    /\ killed' = killed \cup ((1 .. fired) \ {Head(ch)})
    /\ drain' = fired - (received + 1)
    /\ fired' = N
    /\ pc' = "stream"
    /\ UNCHANGED <<mode, missing, ranges, result, poll, cand, good, bodies, hedge, silent, ended, hasRoot>>

drainLosers ==
    /\ drain > 0 /\ ch # << >>
    /\ ch' = Tail(ch) /\ drain' = drain - 1
    /\ killed' = killed \cup ({Head(ch)} \cap good)
    /\ bodies' = bodies \ {Head(ch)}
    /\ UNCHANGED <<call, poll, cand, good, fired, received, hedge, winner, silent, ended, hasRoot>>
-----------------------------------------------------------------------------
(* streamCarCandidate, under its watchdog, and what follows its return.    *)

\* A verified block of the CAR is put: what is told apart is the root.
StreamBlock ==
    /\ pc = "stream" /\ ~hasRoot
    /\ hasRoot' = TRUE /\ silent' = FALSE
    /\ UNCHANGED <<call, poll, killed, cand, good, bodies, ch, fired, received, hedge, winner, drain, ended>>

\* stallTimeout passes without a byte ...
FallsSilent ==
    /\ pc = "stream" /\ ~silent
    /\ silent' = TRUE
    /\ UNCHANGED <<call, poll, killed, cand, good, bodies, ch, fired, received, hedge, winner, drain, ended, hasRoot>>

\* ... and any byte, also of a block that the DAG does not have, starts it again.
ByteArrives ==
    /\ pc = "stream" /\ silent /\ ~CandDead(winner)
    /\ silent' = FALSE
    /\ UNCHANGED <<call, poll, killed, cand, good, bodies, ch, fired, received, hedge, winner, drain, ended, hasRoot>>

\* The watchdog's tick finds the stream silent.
WatchdogFires ==
    /\ pc = "stream" /\ silent /\ winner \notin killed
    /\ killed' = killed \cup {winner}
    /\ UNCHANGED <<call, poll, cand, good, bodies, ch, fired, received, hedge, winner, drain, silent, ended, hasRoot>>

WinnerCloses ==
    /\ killed' = killed \cup {winner}
    /\ bodies' = bodies \ {winner}
    /\ hedge' = "spent"
    /\ UNCHANGED <<cand, good, ch, fired, received, winner, drain, silent>>

\* The stream errs (a broken or cancelled body, a block that does not verify,
\* a put that fails) or ends without the root: the call fails.
StreamBreaks ==
    /\ pc = "stream"
    /\ WinnerCloses
    /\ Return("failed")
    /\ UNCHANGED hasRoot

\* A whole CAR, with the root in the store: getRoot reads it back, a resume
\* goes on to its next range.
StreamServes ==
    /\ pc = "stream" /\ hasRoot
    /\ WinnerCloses
    /\ \/ /\ mode # "resume"
          /\ pc' = "local"
          /\ ended' = ended \cup {"race"}
          /\ UNCHANGED <<mode, missing, ranges, result, poll>>
       \/ /\ mode = "resume" /\ ranges # << >>
          /\ pc' = "next"
          /\ ended' = ended \cup {"race"}
          /\ UNCHANGED <<mode, missing, ranges, result, poll>>
       \/ mode = "resume" /\ ranges = << >> /\ Return("ok")
    /\ UNCHANGED hasRoot

-----------------------------------------------------------------------------
(* getRoot and the resume.                                                 *)

LibTimesOut ==
    /\ pc = "lib" /\ "lib" \notin ended
    /\ ended' = ended \cup {"lib"}
    /\ UNCHANGED <<call, poll, race, hasRoot>>

\* The root comes over bitswap.
LibAnswers ==
    /\ pc = "lib" /\ ~Dead(LibCtx)
    /\ hasRoot' = TRUE
    /\ Return("ok")
    /\ UNCHANGED race

\* libp2p has failed: no more without a DHT, or when the root is a reference
\* whose file is gone; otherwise the gateways are raced.
LibFailsForGood ==
    /\ pc = "lib"
    /\ Return("failed")
    /\ UNCHANGED <<race, hasRoot>>

FallBack ==
    /\ pc = "lib" /\ mode = "root"
    /\ OpenPrimary
    /\ UNCHANGED <<mode, missing, ranges, result, poll, hasRoot>>

GetLocal ==
    /\ pc = "local"
    /\ \/ Return("ok")
       \/ Dead({"caller"}) /\ Return("failed")
    /\ UNCHANGED <<race, hasRoot>>

\* What a stalled transfer will ask for.
Plan ==
    /\ pc = "plan"
    /\ pc' = "next"
    /\ ranges' = gatewayRanges
    /\ UNCHANGED <<mode, missing, result, poll, race, ended, hasRoot>>

AskedIn(r) == r.from .. r.to

\* The next range's race. The goroutines of the one before share nothing with
\* it: they are let finish first.
NextRange ==
    /\ pc = "next" /\ drain = 0
    /\ ranges' = Tail(ranges)
    /\ missing' = missing \ AskedIn(Head(ranges))
    /\ OpenPrimary
    /\ UNCHANGED <<mode, result, poll, hasRoot>>

Next ==
    \/ CallerEnds \/ UserCancels \/ PeersChange
    \/ PollEnds \/ PollCancel \/ PollPeers
    \/ \E g \in Gateways : OpenProves(g) \/ OpenFails(g) \/ BoundFires(g) \/ Reports(g)
    \/ HedgeRings \/ RaceHedges \/ RaceEnds
    \/ TakeFailure \/ RaceIsLost \/ Commit \/ drainLosers
    \/ StreamBlock \/ FallsSilent \/ ByteArrives \/ WatchdogFires \/ StreamBreaks \/ StreamServes
    \/ LibTimesOut \/ LibAnswers \/ LibFailsForGood \/ FallBack
    \/ GetLocal \/ Plan \/ NextRange

Spec == Init /\ [][Next]_vars

\* The timers ring, the poller looks, what is cancelled fails, and the goroutines
\* run. Nothing is asked of the gateways or of libp2p: an open or a stream may
\* hang for ever, and bytes may come just often enough.
Fairness ==
    /\ WF_vars(LibTimesOut) /\ WF_vars(HedgeRings) /\ WF_vars(WatchdogFires)
    /\ WF_vars(Dead(LibCtx) /\ (LibFailsForGood \/ FallBack))
    /\ \A g \in Gateways :
          /\ WF_vars(BoundFires(g))
          /\ WF_vars(CandDead(g) /\ OpenFails(g))
          /\ WF_vars(Reports(g))
    /\ WF_vars(RaceHedges) /\ WF_vars(RaceEnds) /\ WF_vars(TakeFailure)
    /\ WF_vars(RaceIsLost) /\ WF_vars(Commit) /\ WF_vars(drainLosers)
    /\ WF_vars(PollCancel)
    /\ WF_vars(winner # None /\ CandDead(winner) /\ StreamBreaks)
    /\ WF_vars(GetLocal) /\ WF_vars(Plan) /\ WF_vars(NextRange)

FairSpec == Spec /\ Fairness

-----------------------------------------------------------------------------
(* Type invariant.                                                         *)
TypeOK ==
    /\ mode \in Modes /\ missing \subseteq 1 .. Units
    /\ pc \in {"lib", "plan", "race", "stream", "next", "local", "done"}
    /\ result \in {"none", "ok", "failed"}
    /\ ended \subseteq {"caller", "lib", "gw", "race"}
    /\ {killed, good, bodies} \subseteq SUBSET Gateways
    /\ {cancelled, poller, linked, alone, hasRoot, silent} \subseteq BOOLEAN
    /\ cand \in [Gateways -> {"idle", "opening", "back", "sent"}]
    /\ \A i \in 1 .. Len(ch) : ch[i] \in Gateways
    /\ {fired, received, winner, drain} \subseteq 0 .. N
    /\ hedge \in {"armed", "rung", "spent"}

\* The drainer of the losers waits for exactly the reports that will come:
\* with one too many it waits for ever, with one too few a body stays open
\* (drainLosers and fetchViaGateway's count of it).
DrainIsExact ==
    winner # None =>
        drain = Len(ch) + Cardinality({g \in Gateways : cand[g] \in {"opening", "back"}})

\* A resume that succeeds has asked the gateways for every missing leaf; and
\* what it is about to ask for is within the limit on requests, begins and
\* ends on missing leaves, and is never two ranges where the gap allows one
\* (gatewayRanges and the loop over it).
ResumeAsksForAll ==
    /\ mode = "resume" /\ result = "ok" => missing = {}
    /\ Len(ranges) <= MaxRanges
    /\ \A i \in 1 .. Len(ranges) : {ranges[i].from, ranges[i].to} \subseteq missing
    /\ \A i \in 1 .. Len(ranges) - 1 : ranges[i + 1].from - ranges[i].to - 1 > RunGap

\* The call returns, or a gateway keeps a stream going with a byte in time for
\* ever: a hung open is cut by its bound, a hung stream by the watchdog, libp2p by
\* its timeout, and any of them by the caller's end or the user's cancel (getRoot,
\* fetchViaGateway and streamCarCandidate's watchdog).
Streams == pc = "stream" /\ ~cancelled /\ ~CandDead(winner)
FetchReturns == <>(pc = "done") \/ (<>[]Streams /\ []<>~silent)
====
