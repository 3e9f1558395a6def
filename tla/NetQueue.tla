------------------------------ MODULE NetQueue ------------------------------
(***************************************************************************)
(* The one network queue of the node (netq.go).  Every job that opens new  *)
(* flows takes one slot: fetches in the foreground, provider walks and     *)
(* provider-record dials in the background.  Callers may also hold the     *)
(* foreground between the fetches of a multi-wave job, and a compaction    *)
(* waits for the foreground to be idle.                                    *)
(*                                                                         *)
(* Every critical section of q.mu is one action.  What happens outside the *)
(* lock (a waiter receiving from its channel, or giving up because its     *)
(* context ended) is an action of its own, so that a grant can fall        *)
(* between a waiter giving up and its taking the lock.                     *)
(***************************************************************************)
EXTENDS Integers, Sequences, FiniteSets, SequencesExt

CONSTANTS
  FgJobs,    \* the callers of acquire(ctx, true): fetch attempts
  BgJobs,    \* the callers of acquire(ctx, false): walks and dials
  Callers,   \* the callers of hold()
  IdleWaits, \* the callers of waitFgIdle
  MaxSlots   \* bound: the largest size setSlots is called with

ASSUME NetQueueAssumption ==
  /\ IsFiniteSet(FgJobs) /\ IsFiniteSet(BgJobs)
  /\ FgJobs \cap BgJobs = {}
  /\ MaxSlots \in Nat \ {0}

Jobs == FgJobs \cup BgJobs

VARIABLES
  slots,    \* q.slots
  active,   \* q.active
  fgActive, \* q.fgActive
  fg, bg,   \* q.fg, q.bg: the waiting jobs, a job standing for its channel
  holding,  \* the callers between hold() and their release; q.holds is its size
  fgIdle,   \* q.fgIdle is closed
  granted,  \* jobs whose channel was closed and that have not received yet
  pc,       \* where each job is: "out", "waiting" in the select, "leaving"
            \* (it chose ctx.Done and has not locked yet) or "holding" a slot
  idle,     \* a waitFgIdle call: "out", "blocked" on an open channel, or
            \* "ready": the channel it captured is closed
  sawIdle   \* history: the foreground was idle at some moment of the call

vars == <<slots, active, fgActive, fg, bg, holding, fgIdle, granted, pc, idle,
          sawIdle>>

TypeOK ==
  /\ slots \in 1..MaxSlots
  /\ active \in Nat
  /\ fgActive \in 0..active
  /\ fg \in Seq(FgJobs)
  /\ bg \in Seq(BgJobs)
  /\ holding \subseteq Callers
  /\ fgIdle \in BOOLEAN
  /\ granted \subseteq Jobs
  /\ pc \in [Jobs -> {"out", "waiting", "leaving", "holding"}]
  /\ idle \in [IdleWaits -> {"out", "blocked", "ready"}]
  /\ sawIdle \in [IdleWaits -> BOOLEAN]

(***************************************************************************)
(* Helpers of the critical sections.                                       *)
(***************************************************************************)
Least(x, y) == IF x <= y THEN x ELSE y

\* How many of `len` waiters `room` free slots take.
Fit(room, len) == IF room <= 0 THEN 0 ELSE Least(room, len)

\* fgBusyLocked, of f foreground jobs active, the queue w and the holders h.
FgBusyLocked(f, w, h) == f > 0 \/ w # <<>> \/ h # {}

FgBusy == FgBusyLocked(fgActive, fg, holding)

BgMax(n, busy) == IF n <= 1 \/ busy THEN 1 ELSE n - 1

(***************************************************************************)
(* grantLocked: its loop hands each free slot to the first foreground      *)
(* waiter, and once there is none to a background one while the background *)
(* holds fewer than bgMax.  Granting a background job changes nothing      *)
(* bgMax depends on, so the loop is a prefix of each queue.  The arguments *)
(* are the state its caller has just set: active, fgActive, slots, the     *)
(* holders and the jobs granted before.                                    *)
(***************************************************************************)
grantLocked(a, f, n, h, g) ==
  LET kf == Fit(n - a, Len(fg))
      busy == FgBusyLocked(f + kf, SubSeq(fg, kf + 1, Len(fg)), h)
      kb == Fit(Least(n - a - kf, BgMax(n, busy) - (a - f)), Len(bg))
  IN  /\ active' = a + kf + kb
      /\ fgActive' = f + kf
      /\ fg' = SubSeq(fg, kf + 1, Len(fg))
      /\ bg' = SubSeq(bg, kb + 1, Len(bg))
      /\ granted' = g \cup {fg[i] : i \in 1..kf} \cup {bg[i] : i \in 1..kb}

\* Closing q.fgIdle wakes every waitFgIdle call that captured it; a captured
\* channel that is still open is the current one, markFgBusyLocked replacing
\* only a closed one.
CloseIdle == idle' = [w \in IdleWaits |-> IF idle[w] = "blocked" THEN "ready"
                                          ELSE idle[w]]

\* markFgIdleIfLocked, at the end of a critical section.
markFgIdleIfLocked ==
  IF FgBusyLocked(fgActive', fg', holding')
  THEN UNCHANGED <<fgIdle, idle>>
  ELSE fgIdle' = TRUE /\ CloseIdle

\* The history of the waitFgIdle calls, part of every step.
Observe == sawIdle' = [w \in IdleWaits |->
             (idle[w] # "out" /\ sawIdle[w])
               \/ ~FgBusyLocked(fgActive', fg', holding')]

\* The section a release function runs for job j: one slot less, handed on.
ReleaseSlot(j, g) ==
  /\ grantLocked(active - 1, IF j \in FgJobs THEN fgActive - 1 ELSE fgActive,
                 slots, holding, g)
  /\ UNCHANGED <<slots, holding>>
  /\ markFgIdleIfLocked

(***************************************************************************)
(* acquire                                                                 *)
(***************************************************************************)
\* The first section of acquire when there is a slot the job may take.
Room(j) ==
  /\ active < slots
  /\ j \in FgJobs \/ (fg = <<>> /\ active - fgActive < BgMax(slots, FgBusy))

AcquireNow(j) ==
  /\ pc[j] = "out"
  /\ Room(j)
  /\ active' = active + 1
  /\ fgActive' = IF j \in FgJobs THEN fgActive + 1 ELSE fgActive
  /\ fgIdle' = (fgIdle /\ j \notin FgJobs)
  /\ pc' = [pc EXCEPT ![j] = "holding"]
  /\ UNCHANGED <<slots, fg, bg, holding, granted, idle>>
  /\ Observe

\* ... and when there is none: at the end of its queue.
AcquireWait(j) ==
  /\ pc[j] = "out"
  /\ ~Room(j)
  /\ fg' = IF j \in FgJobs THEN Append(fg, j) ELSE fg
  /\ bg' = IF j \in FgJobs THEN bg ELSE Append(bg, j)
  /\ fgIdle' = (fgIdle /\ j \notin FgJobs)
  /\ pc' = [pc EXCEPT ![j] = "waiting"]
  /\ UNCHANGED <<slots, active, fgActive, holding, granted, idle>>
  /\ Observe

\* The select of acquire receives from the job's channel.
Receive(j) ==
  /\ pc[j] = "waiting" /\ j \in granted
  /\ pc' = [pc EXCEPT ![j] = "holding"]
  /\ granted' = granted \ {j}
  /\ UNCHANGED <<slots, active, fgActive, fg, bg, holding, fgIdle, idle>>
  /\ Observe

\* The context ended and the select chose it, even beside a grant.
GiveUp(j) ==
  /\ pc[j] = "waiting"
  /\ pc' = [pc EXCEPT ![j] = "leaving"]
  /\ UNCHANGED <<slots, active, fgActive, fg, bg, holding, fgIdle, granted, idle>>
  /\ Observe

\* A waiter that leaves its channel behind.
LeaveQueueStale(j) ==
  /\ pc[j] = "leaving" /\ j \notin granted
  /\ pc' = [pc EXCEPT ![j] = "out"]
  /\ UNCHANGED <<slots, active, fgActive, fg, bg, holding, granted>>
  /\ markFgIdleIfLocked
  /\ Observe

\* removeWaiter found the job's channel in a queue.
LeaveQueue(j) ==
  /\ pc[j] = "leaving" /\ j \notin granted
  /\ \/ \E i \in 1..Len(fg) : fg[i] = j /\ fg' = RemoveAt(fg, i) /\ bg' = bg
     \/ \E i \in 1..Len(bg) : bg[i] = j /\ bg' = RemoveAt(bg, i) /\ fg' = fg
  /\ pc' = [pc EXCEPT ![j] = "out"]
  /\ UNCHANGED <<slots, active, fgActive, holding, granted>>
  /\ markFgIdleIfLocked
  /\ Observe

\* Granted while giving up, the slot kept.
LeaveKeepingGrant(j) ==
  /\ pc[j] = "leaving" /\ j \in granted
  /\ pc' = [pc EXCEPT ![j] = "out"]
  /\ granted' = granted \ {j}
  /\ UNCHANGED <<slots, active, fgActive, fg, bg, holding, fgIdle, idle>>
  /\ Observe

\* Granted while giving up: the slot is handed on.
LeaveGranted(j) ==
  /\ pc[j] = "leaving" /\ j \in granted
  /\ pc' = [pc EXCEPT ![j] = "out"]
  /\ ReleaseSlot(j, granted \ {j})
  /\ Observe

Release(j) ==
  /\ pc[j] = "holding"
  /\ pc' = [pc EXCEPT ![j] = "out"]
  /\ ReleaseSlot(j, granted)
  /\ Observe

(***************************************************************************)
(* hold, setSlots, waitFgIdle                                              *)
(***************************************************************************)
\* A hold that does not replace the closed idle channel.
HoldUnmarked(c) ==
  /\ c \notin holding
  /\ holding' = holding \cup {c}
  /\ UNCHANGED <<slots, active, fgActive, fg, bg, granted, fgIdle, pc, idle>>
  /\ Observe

Hold(c) ==
  /\ c \notin holding
  /\ holding' = holding \cup {c}
  /\ fgIdle' = FALSE
  /\ UNCHANGED <<slots, active, fgActive, fg, bg, granted, pc, idle>>
  /\ Observe

\* The end of a hold that does not hand out the slots it kept back.
UnholdUngranted(c) ==
  /\ c \in holding
  /\ holding' = holding \ {c}
  /\ UNCHANGED <<slots, active, fgActive, fg, bg, granted, pc>>
  /\ markFgIdleIfLocked
  /\ Observe

Unhold(c) ==
  /\ c \in holding
  /\ holding' = holding \ {c}
  /\ grantLocked(active, fgActive, slots, holding \ {c}, granted)
  /\ UNCHANGED <<slots, pc>>
  /\ markFgIdleIfLocked
  /\ Observe

SetSlots(n) ==
  /\ slots' = n
  /\ grantLocked(active, fgActive, n, holding, granted)
  /\ UNCHANGED <<holding, fgIdle, pc, idle>>
  /\ Observe

\* waitFgIdle captures the current channel.
WaitFgIdle(w) ==
  /\ idle[w] = "out"
  /\ idle' = [idle EXCEPT ![w] = IF fgIdle THEN "ready" ELSE "blocked"]
  /\ sawIdle' = [sawIdle EXCEPT ![w] = ~FgBusy]
  /\ UNCHANGED <<slots, active, fgActive, fg, bg, holding, fgIdle, granted, pc>>

\* It returns: true when ready; false, at any time, when its context ends.
WaitFgIdleReturns(w) ==
  /\ idle[w] # "out"
  /\ idle' = [idle EXCEPT ![w] = "out"]
  /\ UNCHANGED <<slots, active, fgActive, fg, bg, holding, fgIdle, granted, pc>>
  /\ Observe

Init ==
  /\ slots \in 1..MaxSlots
  /\ active = 0 /\ fgActive = 0
  /\ fg = <<>> /\ bg = <<>>
  /\ holding = {}
  /\ fgIdle = TRUE
  /\ granted = {}
  /\ pc = [j \in Jobs |-> "out"]
  /\ idle = [w \in IdleWaits |-> "out"]
  /\ sawIdle = [w \in IdleWaits |-> FALSE]

Next ==
  \/ \E j \in Jobs :
       \/ AcquireNow(j) \/ AcquireWait(j) \/ Receive(j) \/ GiveUp(j)
       \/ LeaveQueue(j) \/ LeaveGranted(j) \/ Release(j)
  \/ \E c \in Callers : Hold(c) \/ Unhold(c)
  \/ \E n \in 1..MaxSlots : SetSlots(n)
  \/ \E w \in IdleWaits : WaitFgIdle(w) \/ WaitFgIdleReturns(w)

Spec == Init /\ [][Next]_vars

(***************************************************************************)
(* Fairness: a goroutine whose channel is closed or that is about to lock  *)
(* is scheduled, and a job ends.  Jobs end because each is bounded: a      *)
(* fetch by its stall watchdog, a walk or a dial by its context.  Nobody   *)
(* is obliged to acquire, give up, hold, end a hold or resize.             *)
(***************************************************************************)
Fairness ==
  \A j \in Jobs : /\ WF_vars(Receive(j))
                  /\ WF_vars(LeaveQueue(j) \/ LeaveGranted(j))
                  /\ WF_vars(Release(j))

FairSpec == Spec /\ Fairness

(***************************************************************************)
(* Properties.                                                             *)
(***************************************************************************)
BgActive == active - fgActive

SlotHolders == {j \in Jobs : pc[j] = "holding"} \cup granted

\* The counters acquire, releaser and grantLocked keep are exactly the jobs
\* that hold a slot or have been granted one they have yet to notice: no slot
\* leaks when a grant meets a waiter that is giving up, none is given twice.
SlotAccounting ==
  /\ active = Cardinality(SlotHolders)
  /\ fgActive = Cardinality(SlotHolders \cap FgJobs)

Pending == {"waiting", "leaving"}

Distinct(q) == \A i, k \in 1..Len(q) : q[i] = q[k] => i = k

Queued(j) == \/ \E i \in 1..Len(fg) : fg[i] = j
             \/ \E i \in 1..Len(bg) : bg[i] = j

\* A job inside acquire either is in a queue, once, or has been granted its
\* slot; nobody else is in a queue or granted.  grantLocked never closes the
\* channel of a job that went away, and forgets no one.
WaitersTracked ==
  /\ Distinct(fg) /\ Distinct(bg)
  /\ \A j \in Jobs : /\ pc[j] \in Pending <=> (j \in granted \/ Queued(j))
                     /\ ~(j \in granted /\ Queued(j))

\* "A free slot never coexists with a waiter it may go to" (acquire): what
\* lets acquire take a free slot without looking for earlier waiters.
NoStrandedSlot ==
  active < slots => /\ fg = <<>>
                    /\ bg # <<>> => BgActive >= BgMax(slots, FgBusy)

\* q.fgIdle is closed exactly while no foreground job holds or waits for a
\* slot and nobody holds the foreground, whichever section came last.
IdleChannelExact == fgIdle = ~FgBusy

\* waitFgIdle returns true only if the foreground really was idle at some
\* moment of the call: a compaction never starts on a stale channel.
IdleWakeupIsReal == \A w \in IdleWaits : idle[w] = "ready" => sawIdle[w]

\* FIFO across acquire and grantLocked: a job that takes its slot at once
\* passes no waiter it should have queued behind.
NoOvertaking ==
  [][\A j \in Jobs : pc[j] = "out" /\ pc'[j] = "holding" =>
       /\ fg = <<>>
       /\ j \in BgJobs => bg = <<>>]_vars

\* "A slot goes to a waiting foreground job before any background one, and
\* background work never holds the LAST slot": whoever gets a slot gets it within
\* the size, and a background job within its share and with no fetch left waiting
\* (acquire, grantLocked, bgMax).  A resize, or a download that starts, may leave
\* more running than that; it admits no more.
AdmittedInTurn ==
  [][\A j \in Jobs : j \in SlotHolders' /\ j \notin SlotHolders =>
       /\ active' <= slots'
       /\ j \in BgJobs => fg' = <<>> /\ BgActive' <= BgMax(slots', FgBusy')]_vars

\* Whoever waits is served or gives up: a fetch although walks come and go,
\* and a walk once no download runs any more, for a hold or a resize strands
\* nobody (grantLocked, hold, setSlots).
NobodyWaitsForever ==
  /\ \A j \in FgJobs : pc[j] = "waiting" ~> pc[j] # "waiting"
  /\ \A j \in BgJobs : <>[](~FgBusy) => (pc[j] = "waiting" ~> pc[j] # "waiting")
=============================================================================
