-------------------------- MODULE FileFetchProofs --------------------------
(***************************************************************************)
(* A fetch keeps its promise, marks the file that is not what it seems and *)
(* is done only when it is: any leaves, crashes, failures, removals and    *)
(* cancels.                                                                *)
(*                                                                         *)
(* IInv is what an attempt has learned by the place it is at, and that     *)
(* still holds there although files go and processes stop: nothing is at   *)
(* dest while leaves stream in beside it, a repair is of the right bytes,  *)
(* a finished stream may be of others, and only a pin tells.               *)
(*                                                                         *)
(* The marker needs where a bitmap that claims too much can come from;     *)
(* done the places of the flusher beside it; the saved bitmap what the     *)
(* flusher holds, and its truth what was synced before it was saved.       *)
(***************************************************************************)
EXTENDS FileFetch, TLAPS

\* dest is not some other file's bytes.
NotWrong == dest \notin {"torn", "stale"}

\* Between the root of a DAG of raw leaves and the references.
Streaming == {"open", "saveNew", "recv", "join", "flush", "check", "gateway", "keepSync",
              "keepSave", "fsync", "clear", "rename", "putMany"}

\* The fallback.
Reading == {"slowRead", "slowClear", "slowRename", "slowDrop", "slowAdd"}

\* addNoCopy.
Repairing == {"build", "missing", "rebuild", "repin"}

\* The kinds of the variables the rest is about.
Kinds ==
  /\ dest \in {"none", "gone", "good", "fresh", "torn", "stale"}
  /\ refs \subseteq Leaves /\ refsTo \in {"dest", "moved"} /\ blocks \subseteq Leaves

\* What an attempt has learned by the place it is at.
Learned ==
  /\ pc \in Streaming => raw /\ root # "none" /\ refs = {}
  /\ pc \in Streaming \ {"putMany"} => Absent
  /\ pc \in Reading => ~raw
  /\ pc \in Repairing \/ after = "rebuild" => raw /\ dest \in {"good", "gone"}
  /\ after = "rebuild" => pc \in {"drop", "unpin"}
  /\ pc = "missing" => root # "none" /\ (refs = {} => refsTo = "dest")
  /\ pc = "rebuild" => refs = {}
  /\ pc \in {"putMany", "dropBlocks", "pin"} => raw /\ dest \in {"good", "torn", "gone"}
  /\ pc \in {"dropBlocks", "pin", "repin"} => refsTo = "dest"
  /\ pc = "pin" => blocks = {}
  /\ pc \in {"unlinkTmp", "unlinkPart"} => NotWrong /\ (after = "again" => Absent)
  /\ pc = "fresh" => Absent
  /\ pc = "unpin" => refs = {} /\ blocks = {}

\* References come with their root, and only for a DAG of raw leaves; only the
\* fallback leaves a file that is right and not synced.
Backed ==
  /\ refs # {} => raw /\ root # "none"
  /\ dest = "fresh" => ~raw

IInv == Kinds /\ Learned /\ Backed

seen == <<raw, dest, refs, refsTo, blocks, root, pc, after>>

LEMMA Still == ASSUME IInv, UNCHANGED seen PROVE IInv'
BY DEF IInv, Kinds, Learned, Backed, Absent, NotWrong, seen

\* Steps of the attempt that leave the file and the store alone, from place to
\* place or to its end.
LEMMA Idling ==
  ASSUME IInv, UNCHANGED <<raw, dest, refs, refsTo, blocks, root>>, pc' = "idle",
         after' = "none"
  PROVE  IInv'
BY DEF IInv, Kinds, Learned, Backed, Absent, NotWrong, Streaming, Reading, Repairing

LEMMA StreamingOn ==
  ASSUME IInv, UNCHANGED <<raw, refs, refsTo, blocks, root>>,
         pc \in Streaming \ {"putMany"}, pc' \in Streaming \ {"putMany"},
         dest' = dest \/ dest' = "none", after' = after \/ after' # "rebuild"
  PROVE  IInv'
BY DEF IInv, Kinds, Learned, Backed, Absent, NotWrong, Streaming, Reading, Repairing

\* A cancel sends a session to removePartial.
LEMMA StreamingEnds ==
  ASSUME IInv, UNCHANGED <<raw, dest, refs, refsTo, blocks, root>>,
         pc \in Streaming \ {"putMany"}, pc' = "unlinkTmp", after' = "cancelled"
  PROVE  IInv'
BY DEF IInv, Kinds, Learned, Backed, Absent, NotWrong, Streaming, Reading, Repairing

-----------------------------------------------------------------------------
(* Each action, by the part of the attempt it belongs to.                  *)

LEMMA SessionInv ==
  ASSUME IInv,
         \/ Open \/ SaveNew \/ (\E l \in Leaves : Receive(l)) \/ Mark \/ EndSession
         \/ WriteFails \/ Join \/ Flushed \/ Check \/ Flusher
  PROVE  IInv'
<1> USE DEF disk, part, store, mem, flush, env, past, Go
<1>1. CASE (\E l \in Leaves : Receive(l)) \/ Mark \/ Flusher
  <2>1. UNCHANGED seen
    BY <1>1 DEF Receive, Mark, Flusher, Tick, FlushSync, FlushSave, seen
  <2> QED BY <2>1, Still
<1>2. CASE Open \/ SaveNew \/ EndSession \/ WriteFails \/ Join \/ Flushed
           \/ (Check /\ pc' # "unlinkTmp")
  <2>1. /\ UNCHANGED <<raw, dest, refs, refsTo, blocks, root>>
        /\ pc \in Streaming \ {"putMany"} /\ pc' \in Streaming \ {"putMany"}
        /\ (after' = after \/ after' # "rebuild")
    BY <1>2 DEF Open, SaveNew, EndSession, WriteFails, Join, Flushed, Check, Streaming
  <2> QED BY <2>1, StreamingOn
<1>3. CASE Check /\ pc' = "unlinkTmp"
  <2>1. /\ UNCHANGED <<raw, dest, refs, refsTo, blocks, root>>
        /\ pc \in Streaming \ {"putMany"} /\ after' = "cancelled"
    BY <1>3 DEF Check, Streaming
  <2> QED BY <1>3, <2>1, StreamingEnds
<1> QED BY <1>1, <1>2, <1>3

LEMMA KeepInv ==
  ASSUME IInv,
         \/ GatewayFetch \/ GatewayWrite \/ KeepSync \/ KeepSave \/ Fsync
         \/ Clear("clear", "rename") \/ OpenFails
         \/ \E a \in FailingCalls : LocalFatal(a)
  PROVE  IInv'
<1> USE DEF disk, part, store, mem, flush, env, past, Go
<1>1. CASE GatewayFetch
  <2>1. /\ UNCHANGED <<raw, dest, refs, refsTo, root, pc, after>>
        /\ pc = "gateway" /\ blocks' \subseteq Leaves
    BY <1>1 DEF GatewayFetch, need, IInv, Kinds
  <2> QED BY <2>1 DEF IInv, Kinds, Learned, Backed, Absent, NotWrong, Streaming, Reading, Repairing
<1>2. CASE KeepSync \/ Fsync \/ Clear("clear", "rename")
           \/ (GatewayWrite /\ pc' # "unlinkTmp")
  <2>1. /\ UNCHANGED <<raw, refs, refsTo, blocks, root>>
        /\ pc \in Streaming \ {"putMany"} /\ pc' \in Streaming \ {"putMany"}
        /\ (dest' = dest \/ dest' = "none") /\ (after' = after \/ after' # "rebuild")
    BY <1>2 DEF KeepSync, Fsync, Clear, GatewayWrite, Streaming
  <2> QED BY <2>1, StreamingOn
<1>3. CASE GatewayWrite /\ pc' = "unlinkTmp"
  <2>1. /\ UNCHANGED <<raw, dest, refs, refsTo, blocks, root>>
        /\ pc \in Streaming \ {"putMany"} /\ after' = "cancelled"
    BY <1>3 DEF GatewayWrite, Streaming
  <2> QED BY <1>3, <2>1, StreamingEnds
<1>4. CASE KeepSave \/ OpenFails \/ \E a \in FailingCalls : LocalFatal(a)
  <2>1. UNCHANGED <<raw, dest, refs, refsTo, blocks, root>> /\ pc' = "idle" /\ after' = "none"
    BY <1>4 DEF KeepSave, OpenFails, LocalFatal, Return
  <2> QED BY <2>1, Idling
<1> QED BY <1>1, <1>2, <1>3, <1>4

LEMMA AtDestInv ==
  ASSUME IInv, Dispatch \/ Look \/ Verify \/ UnlinkTmp \/ UnlinkPart \/ Fresh
  PROVE  IInv'
<1> USE DEF disk, part, store, mem, flush, env, past, Go, Return, IInv, Kinds, Learned, Backed,
            Absent, NotWrong, Streaming, Reading, Repairing
<1>1. CASE Dispatch
  BY <1>1 DEF Dispatch
<1>2. CASE Look
  BY <1>2 DEF Look
<1>3. CASE Verify
  BY <1>3 DEF Verify, Right
<1>4. CASE UnlinkTmp \/ UnlinkPart
  BY <1>4 DEF UnlinkTmp, UnlinkPart
<1>5. CASE Fresh
  BY <1>5 DEF Fresh, cidMissing, Enumerated
<1> QED BY <1>1, <1>2, <1>3, <1>4, <1>5

LEMMA InPlaceInv ==
  ASSUME IInv, Build \/ Missing \/ Pin \/ Drop \/ Unpin \/ Rename \/ PutMany \/ DropBlocks
  PROVE  IInv'
<1> USE DEF disk, part, store, mem, flush, env, past, Go, Return, IInv, Kinds, Learned, Backed,
            Absent, NotWrong, Streaming, Reading, Repairing
<1>1. CASE Build
  BY <1>1 DEF Build
<1>7. CASE Missing
  BY <1>7 DEF Missing, cidMissing
<1>2. CASE Pin
  BY <1>2, FileFetchAssumption DEF Pin, Readable, Right, Gone
<1>3. CASE Drop \/ Unpin
  BY <1>3 DEF Drop, Unpin
<1>4. CASE Rename
  BY <1>4 DEF Rename
<1>5. CASE PutMany
  BY <1>5 DEF PutMany, Gone
<1>6. CASE DropBlocks
  BY <1>6 DEF DropBlocks
<1> QED BY <1>1, <1>2, <1>3, <1>4, <1>5, <1>6, <1>7

LEMMA FallbackInv ==
  ASSUME IInv,
         SlowRead \/ Clear("slowClear", "slowRename") \/ SlowRename \/ SlowDrop \/ SlowAdd
  PROVE  IInv'
<1> USE DEF disk, part, store, mem, flush, env, past, Go, Return, IInv, Kinds, Learned, Backed,
            Absent, NotWrong, Streaming, Reading, Repairing
<1>1. CASE SlowRead
  BY <1>1 DEF SlowRead
<1>2. CASE Clear("slowClear", "slowRename")
  BY <1>2 DEF Clear
<1>3. CASE SlowRename \/ SlowDrop
  BY <1>3 DEF SlowRename, SlowDrop
<1>4. CASE SlowAdd
  BY <1>4 DEF SlowAdd
<1> QED BY <1>1, <1>2, <1>3, <1>4

LEMMA OutsideInv ==
  ASSUME IInv,
         \/ Crash \/ Remove \/ RequestCancel \/ ClearCancel \/ AppDrop \/ LookUpSize
         \/ UNCHANGED vars
  PROVE  IInv'
<1> USE DEF disk, part, store, mem, flush, env, past, Go
<1>1. CASE Crash \/ Remove
  BY <1>1 DEF Crash, Remove, IInv, Kinds, Learned, Backed, Absent, NotWrong,
              Streaming, Reading, Repairing
<1>2. CASE RequestCancel \/ ClearCancel \/ UNCHANGED vars
  <2>1. UNCHANGED seen
    BY <1>2 DEF RequestCancel, ClearCancel, vars, seen
  <2> QED BY <2>1, Still
<1>3. CASE AppDrop \/ LookUpSize
  BY <1>3 DEF AppDrop, LookUpSize, IInv, Kinds, Learned, Backed, Absent, NotWrong,
              Streaming, Reading, Repairing
<1> QED BY <1>1, <1>2, <1>3

LEMMA StepInv == ASSUME IInv, [Next]_vars PROVE IInv'
BY SessionInv, KeepInv, AtDestInv, InPlaceInv, FallbackInv, OutsideInv DEF Next, Attempt

LEMMA InitInv == Init => IInv
BY DEF Init, IInv, Kinds, Learned, Backed, Streaming, Reading, Repairing

-----------------------------------------------------------------------------
(* The marker.  A bitmap claims too much only if it was read from a .part  *)
(* that does, and that .part stays until removePartial; there dest has the *)
(* right bytes or none, for every leaf was read or the file discarded.     *)

\* A partial in the making, with its bitmap in memory.
Partial == Streaming \ {"open", "putMany"}

BitmapKinds ==
  /\ written \subseteq Leaves /\ bits \subseteq Leaves /\ hand \subseteq Leaves
  /\ durable \subseteq Leaves /\ partBits \subseteq Leaves /\ snap \subseteq Leaves

\* The bitmap is of what is written, or of the .part that is there.
Believed ==
  /\ hand # {} => pc = "recv"
  /\ pc \in Partial => partOf = "mine" \/ bits \cup hand \subseteq written
  /\ pc \in {"fsync", "clear", "rename"} => bits = Leaves

Told ==
  /\ raw /\ dest = "torn" => partOf = "mine"
  /\ refs # {} /\ refsTo = "dest" => dest # "stale"

MInv == BitmapKinds /\ Believed /\ Told

LEMMA MarkSession ==
  ASSUME IInv, MInv,
         \/ Open \/ SaveNew \/ (\E l \in Leaves : Receive(l)) \/ Mark \/ EndSession
         \/ WriteFails \/ Join \/ Flushed \/ Check \/ Flusher
  PROVE  MInv'
<1> USE DEF disk, part, store, mem, flush, env, past, Go
<1>1. BitmapKinds'
  BY DEF MInv, BitmapKinds, Open, SaveNew, Receive, Mark, EndSession, WriteFails, Join, Flushed,
         Check, Flusher, Tick, FlushSync, FlushSave, need
<1>2. Told'
  BY DEF MInv, Told, Open, SaveNew, Receive, Mark, EndSession, WriteFails, Join, Flushed,
         Check, Flusher, Tick, FlushSync, FlushSave
<1>3. CASE Open \/ SaveNew
  <2>1. Believed'
    BY <1>3 DEF MInv, Believed, Partial, Streaming, Open, SaveNew
  <2> QED BY <1>1, <1>2, <2>1 DEF MInv
<1>4. CASE (\E l \in Leaves : Receive(l)) \/ Mark
  <2>1. Believed'
    BY <1>4 DEF MInv, Believed, Partial, Streaming, Receive, Mark
  <2> QED BY <1>1, <1>2, <2>1 DEF MInv
<1>5. CASE EndSession \/ WriteFails \/ Join \/ Flushed
  <2>1. Believed'
    BY <1>5 DEF MInv, Believed, Partial, Streaming, EndSession, WriteFails, Join, Flushed
  <2> QED BY <1>1, <1>2, <2>1 DEF MInv
<1>6. CASE Check
  <2>1. need = {} => bits = Leaves
    BY DEF need, MInv, BitmapKinds
  <2>2. Believed'
    BY <1>6, <2>1 DEF MInv, Believed, Partial, Streaming, Check
  <2> QED BY <1>1, <1>2, <2>2 DEF MInv
<1>7. CASE Flusher
  <2>1. Believed'
    BY <1>7 DEF MInv, Believed, Flusher, Tick, FlushSync, FlushSave
  <2> QED BY <1>1, <1>2, <2>1 DEF MInv
<1> QED BY <1>3, <1>4, <1>5, <1>6, <1>7

LEMMA MarkKept ==
  ASSUME IInv, MInv,
         \/ GatewayFetch \/ GatewayWrite \/ KeepSync \/ KeepSave \/ Fsync
         \/ Clear("clear", "rename") \/ Rename
  PROVE  MInv'
<1> USE DEF disk, part, store, mem, flush, env, past, Go
<1>1. BitmapKinds'
  BY DEF MInv, BitmapKinds, GatewayFetch, GatewayWrite, KeepSync, KeepSave, Fsync, Clear, Rename,
         need
<1>2. CASE GatewayFetch \/ GatewayWrite
  <2>1. Believed' /\ Told'
    BY <1>2 DEF MInv, Believed, Told, Partial, Streaming, GatewayFetch, GatewayWrite
  <2> QED BY <1>1, <2>1 DEF MInv
<1>3. CASE KeepSync \/ KeepSave \/ Fsync \/ Clear("clear", "rename")
  <2>1. Believed' /\ Told'
    BY <1>3 DEF MInv, Believed, Told, Partial, Streaming, KeepSync, KeepSave, Fsync, Clear, Return
  <2> QED BY <1>1, <2>1 DEF MInv
<1>4. CASE Rename
  <2>1. partOf = "mine" \/ written = Leaves
    BY <1>4 DEF Rename, MInv, Believed, BitmapKinds, Partial, Streaming
  <2>2. Believed' /\ Told'
    BY <1>4, <2>1 DEF Rename, MInv, Believed, Told, Partial, Streaming
  <2> QED BY <1>1, <2>2 DEF MInv
<1> QED BY <1>2, <1>3, <1>4

\* The rest of an attempt holds no bitmap that it goes by.
LEMMA MarkElsewhere ==
  ASSUME IInv, MInv,
         \/ Dispatch \/ Look \/ Verify \/ UnlinkTmp \/ UnlinkPart \/ Build \/ Missing \/ Pin
         \/ Drop \/ Unpin \/ Fresh \/ OpenFails \/ PutMany \/ DropBlocks
         \/ SlowRead \/ Clear("slowClear", "slowRename") \/ SlowRename \/ SlowDrop \/ SlowAdd
         \/ (\E a \in FailingCalls : LocalFatal(a))
  PROVE  MInv'
<1> USE DEF disk, part, store, mem, flush, env, past, Go, Return, MInv, BitmapKinds, Believed,
            Partial, Streaming
<1>1. CASE Dispatch \/ Look \/ Verify \/ UnlinkTmp
  BY <1>1 DEF Dispatch, Look, Verify, UnlinkTmp, Told
<1>2. CASE UnlinkPart
  BY <1>2 DEF UnlinkPart, Told, IInv, Learned, NotWrong
<1>3. CASE Build \/ Missing \/ Pin
  BY <1>3 DEF Build, Missing, Pin, Gone, Told, IInv, Learned, Repairing
<1>4. CASE Drop \/ Unpin \/ Fresh
  BY <1>4 DEF Drop, Unpin, Fresh, Enumerated, Told
<1>5. CASE OpenFails \/ PutMany \/ DropBlocks
  BY <1>5 DEF OpenFails, PutMany, Gone, DropBlocks, Told, IInv, Learned
<1>6. CASE \/ SlowRead \/ Clear("slowClear", "slowRename") \/ SlowRename \/ SlowDrop
           \/ SlowAdd
  BY <1>6 DEF SlowRead, Clear, SlowRename, SlowDrop, SlowAdd, Told
<1>7. CASE \E a \in FailingCalls : LocalFatal(a)
  BY <1>7 DEF FailingCalls, LocalFatal, Told
<1> QED BY <1>1, <1>2, <1>3, <1>4, <1>5, <1>6, <1>7

LEMMA MarkOutside ==
  ASSUME IInv, MInv,
         \/ Crash \/ Remove \/ RequestCancel \/ ClearCancel \/ AppDrop \/ LookUpSize
         \/ UNCHANGED vars
  PROVE  MInv'
<1> USE DEF disk, part, store, mem, flush, env, past, Go, MInv, BitmapKinds, Believed, Partial,
            Streaming, Told
<1>1. CASE Crash
  <2>1. /\ written' \subseteq Leaves /\ bits' = {} /\ hand' = {} /\ snap' = {}
        /\ pc' = "idle" /\ UNCHANGED <<partOf, partBits, refs, refsTo, raw>>
    BY <1>1 DEF Crash
  <2>2. dest' = dest \/ (dest = "fresh" /\ dest' \in {"good", "torn"})
    BY <1>1 DEF Crash
  <2>3. durable' \subseteq Leaves
    BY <1>1 DEF Crash
  <2> QED BY <2>1, <2>2, <2>3 DEF IInv, Backed
<1>2. CASE Remove \/ AppDrop
  BY <1>2 DEF Remove, AppDrop
<1>3. CASE RequestCancel \/ ClearCancel \/ LookUpSize \/ UNCHANGED vars
  BY <1>3 DEF RequestCancel, ClearCancel, LookUpSize, vars
<1> QED BY <1>1, <1>2, <1>3

LEMMA StepMarked == ASSUME IInv, MInv, [Next]_vars PROVE MInv'
BY MarkSession, MarkKept, MarkElsewhere, MarkOutside DEF Next, Attempt

\* Leaves are referenced without a look at the bytes, and a bitmap may claim what
\* a crash or a sync that failed has lost: but while a file with other bytes has
\* references, its .part is there, so that the next fetch hashes it before it says
\* that it is finalized (PutMany, Pin's walk, removePartial last).
THEOREM TornStaysMarked == Spec => []TornIsMarked
<1>1. Init => MInv
  BY DEF Init, MInv, BitmapKinds, Believed, Told, Partial, Streaming
<1>2. IInv /\ MInv => TornIsMarked
  BY DEF IInv, Backed, MInv, Told, TornIsMarked
<1> QED BY <1>1, <1>2, InitInv, StepInv, StepMarked, PTL DEF Spec

-----------------------------------------------------------------------------
(* The refinement.  A pin is taken on a whole file, and let go of when its *)
(* references are gone; while it stays, the file may come and go.          *)

\* A step that leaves the pin alone makes or unmakes the file.
LEMMA PinKept == ASSUME UNCHANGED pinned PROVE [Promise!Next]_FileState
<1>1. pinned => FileState \in {"seeded", "broken"} /\ FileState' \in {"seeded", "broken"}
  BY DEF FileState
<1>2. ~pinned => FileState \in {"absent", "whole"} /\ FileState' \in {"absent", "whole"}
  BY DEF FileState
<1> QED BY <1>1, <1>2 DEF Promise!Next, Promise!Land, Promise!Seed, Promise!Lose

LEMMA PinTaken == ASSUME IInv, Pin PROVE [Promise!Next]_FileState
<1>1. CASE UNCHANGED pinned
  BY <1>1, PinKept
<1>2. CASE ~UNCHANGED pinned
  <2>1. /\ pinned' /\ pc \in {"repin", "pin"} /\ Readable
        /\ UNCHANGED <<raw, dest, refs, refsTo, blocks>>
    BY <1>2 DEF Pin, disk, part, mem, env, past
  <2>2. FileState' = "seeded"
    BY <2>1 DEF FileState, Readable, Right
  <2>3. raw /\ (Right \/ Leaves \subseteq blocks)
    BY <2>1 DEF Readable, IInv, Learned, Repairing
  <2>4. FileState \in {"whole", "seeded", "broken"}
    BY <2>3 DEF FileState
  <2> QED BY <2>2, <2>4 DEF Promise!Next, Promise!Seed
<1> QED BY <1>1, <1>2

\* dropRef has dropped what the pin claims before it ends it: it was broken
\* already.
LEMMA PinEnded == ASSUME IInv, Unpin PROVE [Promise!Next]_FileState
<1>1. refs = {} /\ blocks = {} /\ ~pinned'
  BY DEF Unpin, IInv, Learned
<1>2. pinned => FileState = "broken"
  BY <1>1, FileFetchAssumption DEF FileState, Readable
<1>3. FileState' \in {"absent", "whole"} /\ (~pinned => FileState \in {"absent", "whole"})
  BY <1>1 DEF FileState
<1> QED BY <1>2, <1>3 DEF Promise!Next, Promise!Unpin, Promise!Land, Promise!Lose

LEMMA StepPromise == ASSUME IInv, [Next]_vars PROVE [Promise!Next]_FileState
<1> USE DEF disk, part, store, mem, flush, env, past, Go
<1>1. CASE Pin
  BY <1>1, PinTaken
<1>2. CASE Unpin
  BY <1>2, PinEnded
<1>3. CASE \/ Dispatch \/ Look \/ Verify \/ UnlinkTmp \/ UnlinkPart \/ Build \/ Missing
           \/ Drop \/ Fresh
           \/ Open \/ SaveNew \/ (\E l \in Leaves : Receive(l)) \/ Mark \/ EndSession
           \/ Join \/ Flushed \/ Check \/ GatewayFetch \/ GatewayWrite \/ KeepSync \/ KeepSave
  <2>1. UNCHANGED pinned
    BY <1>3 DEF Dispatch, Look, Verify, UnlinkTmp, UnlinkPart, Build, Missing, Drop, Fresh,
                Open, SaveNew, Receive, Mark, EndSession, Join, Flushed, Check, GatewayFetch, GatewayWrite,
                KeepSync, KeepSave
  <2> QED BY <2>1, PinKept
<1>4. CASE \/ Fsync \/ Clear("clear", "rename") \/ Rename \/ PutMany \/ DropBlocks
           \/ SlowRead \/ Clear("slowClear", "slowRename") \/ SlowRename \/ SlowDrop
           \/ SlowAdd \/ Flusher \/ OpenFails \/ WriteFails
           \/ (\E a \in FailingCalls : LocalFatal(a))
           \/ Crash \/ Remove \/ RequestCancel \/ ClearCancel \/ AppDrop \/ LookUpSize
           \/ UNCHANGED vars
  <2>1. UNCHANGED pinned
    BY <1>4 DEF Fsync, Clear, Rename, PutMany, DropBlocks, SlowRead, SlowRename, SlowDrop,
                SlowAdd, Flusher, Tick, FlushSync, FlushSave, OpenFails, WriteFails, LocalFatal,
                Crash, Remove, RequestCancel, ClearCancel, AppDrop, LookUpSize, vars
  <2> QED BY <2>1, PinKept
<1> QED BY <1>1, <1>2, <1>3, <1>4 DEF Next, Attempt

\* A fetch implements what SeededFile promises: nobody holds the pin of a file
\* that was never whole, and the pin is the last to go (fetchToPathOnce,
\* finalize, addNoCopy, dropRef).
THEOREM Seeding == Spec => SeedsAsPromised
<1>1. Init => Promise!Init
  BY DEF Init, Promise!Init, FileState, Right
<1> QED BY <1>1, InitInv, StepInv, StepPromise, PTL DEF Spec, SeedsAsPromised, Promise!Spec

-----------------------------------------------------------------------------
(* Done.  A fetch returns it at the end of the last removePartial alone,   *)
(* with the pin and the references taken before, and nothing that would    *)
(* write the bitmap again: the flusher is over when its session is.        *)

\* What a fetch has when it begins to remove its partial.
Held ==
  /\ raw /\ pinned
  /\ refs \cup blocks = Leaves /\ refsTo = "dest"
  /\ dest \in {"good", "gone"}

\* The places of what is about to be done, and of the flusher.
Places ==
  /\ after = "done" => pc \in {"unlinkTmp", "unlinkPart"}
  /\ out = "done" => pc = "idle"
  /\ fl # "idle" => pc \in {"recv", "join", "flush"}
  /\ pc = "unlinkPart" => ~tmp

HeldAtEnd == pc \in {"unlinkTmp", "unlinkPart"} /\ after = "done" => Held

DInv == Places /\ HeldAtEnd /\ DoneIsSeeded

LEMMA DoneStill ==
  ASSUME DInv,
         UNCHANGED <<raw, dest, tmp, partOf, refs, refsTo, blocks, pinned, pc, after, out>>,
         fl' = fl \/ fl' = "idle" \/ pc \in {"recv", "join", "flush"}
  PROVE  DInv'
BY DEF DInv, Places, HeldAtEnd, Held, DoneIsSeeded

\* A step that is not about to be done.
LEMMA NotDone ==
  ASSUME after' # "done", out' # "done", pc' # "unlinkPart",
         fl' = "idle" \/ pc' \in {"recv", "join", "flush"}
  PROVE  DInv'
BY DEF DInv, Places, HeldAtEnd, DoneIsSeeded

LEMMA SessionDone ==
  ASSUME DInv,
         \/ Open \/ SaveNew \/ (\E l \in Leaves : Receive(l)) \/ Mark \/ EndSession
         \/ WriteFails \/ Join \/ Flushed \/ Check \/ Flusher
  PROVE  DInv'
<1> USE DEF disk, part, store, mem, flush, env, past, Go
<1>1. CASE \/ Open \/ SaveNew \/ (\E l \in Leaves : Receive(l)) \/ Mark \/ EndSession
           \/ WriteFails \/ Join \/ Flushed \/ Check
  <2>1. after # "done" /\ out # "done" /\ pc # "idle"
    BY <1>1 DEF Open, SaveNew, Receive, Mark, EndSession, WriteFails, Join, Flushed, Check,
                DInv, Places
  <2>2. after' # "done" /\ out' # "done" /\ pc' # "unlinkPart"
    BY <1>1, <2>1 DEF Open, SaveNew, Receive, Mark, EndSession, WriteFails, Join, Flushed, Check
  <2>3. fl' = "idle" \/ pc' \in {"recv", "join", "flush"}
    BY <1>1 DEF Open, SaveNew, Receive, Mark, EndSession, WriteFails, Join, Flushed, Check,
                DInv, Places
  <2> QED BY <2>2, <2>3, NotDone
<1>2. CASE Flusher
  <2>1. /\ pc \in {"recv", "join", "flush"} /\ UNCHANGED <<pc, after, out>>
    BY <1>2 DEF Flusher, Tick, FlushSync, FlushSave, DInv, Places
  <2> QED BY <2>1, NotDone DEF DInv, Places
<1> QED BY <1>1, <1>2

LEMMA KeepDone ==
  ASSUME DInv,
         \/ GatewayFetch \/ GatewayWrite \/ KeepSync \/ KeepSave \/ Fsync
         \/ Clear("clear", "rename") \/ OpenFails
         \/ (\E a \in FailingCalls : LocalFatal(a))
         \/ Rename \/ PutMany \/ SlowRead \/ Clear("slowClear", "slowRename") \/ SlowRename
         \/ SlowDrop
  PROVE  DInv'
<1> USE DEF disk, part, store, mem, flush, env, past, Go, Return
<1>1. CASE \/ GatewayFetch \/ GatewayWrite \/ KeepSync \/ KeepSave \/ Fsync
           \/ Clear("clear", "rename") \/ OpenFails
  BY <1>1, NotDone DEF GatewayFetch, GatewayWrite, KeepSync, KeepSave, Fsync, Clear, OpenFails,
                       Classify, DInv, Places
<1>2. CASE \E a \in FailingCalls : LocalFatal(a)
  BY <1>2, NotDone DEF LocalFatal, FailingCalls, Classify, DInv, Places
<1>3. CASE Rename \/ PutMany \/ SlowRead \/ Clear("slowClear", "slowRename") \/ SlowRename
           \/ SlowDrop
  BY <1>3, NotDone DEF Rename, PutMany, Gone, SlowRead, Clear, SlowRename, SlowDrop, Classify,
                       DInv, Places
<1> QED BY <1>1, <1>2, <1>3

LEMMA AtDestDone ==
  ASSUME DInv, Dispatch \/ Look \/ Verify \/ Build \/ Missing \/ Fresh \/ Drop \/ Unpin
  PROVE  DInv'
<1> USE DEF disk, part, store, mem, flush, env, past, Go, Return, Classify
<1>1. CASE Dispatch \/ Look \/ Fresh
  BY <1>1, NotDone DEF Dispatch, Look, Fresh, Enumerated, DInv, Places
<1>2. CASE Verify
  BY <1>2, NotDone DEF Verify, DInv, Places
<1>3. CASE Build \/ Missing \/ Drop \/ Unpin
  BY <1>3, NotDone DEF Build, Missing, Drop, Unpin, DInv, Places
<1> QED BY <1>1, <1>2, <1>3

LEMMA FinalDone ==
  ASSUME IInv, DInv, DropBlocks \/ Pin \/ UnlinkTmp \/ UnlinkPart \/ SlowAdd
  PROVE  DInv'
<1> USE DEF disk, part, store, mem, flush, env, past, Go, Return
<1>1. CASE DropBlocks
  BY <1>1, NotDone DEF DropBlocks, DInv, Places
<1>2. CASE Pin
  <2>1. CASE pc' = "unlinkTmp"
    <3>1. /\ pinned' /\ pc \in {"repin", "pin"} /\ Readable
          /\ UNCHANGED <<raw, dest, refs, refsTo, blocks, out, fl>>
      BY <1>2, <2>1 DEF Pin, Gone
    <3>2. raw /\ refsTo = "dest" /\ refs \cup blocks = Leaves
      BY <3>1 DEF Readable, IInv, Kinds, Learned, Repairing
    <3>3. dest \in {"good", "gone"}
      BY <3>1, FileFetchAssumption DEF Readable, Right, IInv, Learned, Repairing
    <3>4. Held'
      BY <3>1, <3>2, <3>3 DEF Held
    <3> QED BY <2>1, <3>1, <3>4 DEF DInv, Places, HeldAtEnd, DoneIsSeeded
  <2>2. CASE pc' # "unlinkTmp"
    BY <1>2, <2>2, NotDone DEF Pin, Gone, Classify, DInv, Places
  <2> QED BY <2>1, <2>2
<1>3. CASE UnlinkTmp
  <2>1. /\ pc = "unlinkTmp" /\ pc' = "unlinkPart" /\ ~tmp' /\ HeldAtEnd'
    BY <1>3 DEF UnlinkTmp, DInv, HeldAtEnd, Held
  <2> QED BY <1>3, <2>1 DEF UnlinkTmp, DInv, Places, DoneIsSeeded
<1>4. CASE UnlinkPart
  <2>1. /\ pc = "unlinkPart" /\ partOf' = "none" /\ after' = "none"
        /\ UNCHANGED <<raw, dest, tmp, refs, refsTo, blocks, pinned, fl>>
        /\ pc' \in {"fresh", "idle"} /\ (out' = "done" => after = "done" /\ pc' = "idle")
    BY <1>4 DEF UnlinkPart, Classify, DInv, Places
  <2>2. out' = "done" => Held /\ ~tmp
    BY <2>1 DEF DInv, Places, HeldAtEnd
  <2>3. DoneIsSeeded'
    BY <2>1, <2>2 DEF DoneIsSeeded, Held
  <2> QED BY <2>1, <2>3 DEF DInv, Places, HeldAtEnd
<1>5. CASE SlowAdd
  <2>1. ~raw /\ raw' = raw
    BY <1>5 DEF SlowAdd, IInv, Learned, Reading
  <2> QED BY <1>5, <2>1 DEF SlowAdd, DInv, Places, HeldAtEnd, DoneIsSeeded
<1> QED BY <1>1, <1>2, <1>3, <1>4, <1>5

LEMMA OutsideDone ==
  ASSUME DInv,
         \/ Crash \/ Remove \/ RequestCancel \/ ClearCancel \/ AppDrop \/ LookUpSize
         \/ UNCHANGED vars
  PROVE  DInv'
<1> USE DEF disk, part, store, mem, flush, env, past, Go
<1>1. CASE Crash \/ AppDrop
  BY <1>1, NotDone DEF Crash, AppDrop, DInv, Places
<1>2. CASE Remove
  BY <1>2 DEF Remove, DInv, Places, HeldAtEnd, Held, DoneIsSeeded
<1>3. CASE RequestCancel \/ ClearCancel \/ LookUpSize \/ UNCHANGED vars
  BY <1>3, DoneStill DEF RequestCancel, ClearCancel, LookUpSize, vars
<1> QED BY <1>1, <1>2, <1>3

LEMMA StepDone == ASSUME IInv, DInv, [Next]_vars PROVE DInv'
BY SessionDone, KeepDone, AtDestDone, FinalDone, OutsideDone DEF Next, Attempt

\* What a fetch reports as done is referenced, pinned and has nothing left to
\* resume, also with a flusher beside it and after any crash (finalize,
\* removePartial last).
THEOREM Done == Spec => []DoneIsSeeded
<1>1. Init => DInv
  BY DEF Init, DInv, Places, HeldAtEnd, DoneIsSeeded
<1>2. DInv => DoneIsSeeded
  BY DEF DInv
<1> QED BY <1>1, <1>2, InitInv, StepInv, StepDone, PTL DEF Spec

-----------------------------------------------------------------------------
(* The saved bitmap.  A session begins with the one that was saved, or     *)
(* with nothing durable; the bitmap in memory only grows, a snapshot of it *)
(* is never behind what is saved, and the flusher is over before the       *)
(* attempt saves the bitmap itself.                                        *)

Session == {"recv", "join", "flush", "check", "gateway", "keepSync", "keepSave"}

\* The bitmap is ours, and no save of it has failed.
Saved == partOf = "mine" /\ "save" \notin ignored

SavedIn ==
  /\ pc \in Session /\ Saved => partBits \subseteq bits
  /\ fl # "idle" => snap \subseteq bits /\ (Saved => partBits \subseteq snap)
  /\ pc = "saveNew" => durable = {}

LEMMA BitsStill ==
  ASSUME SavedIn, UNCHANGED <<part, ignored, bits, flush, durable, pc>>
  PROVE  SavedIn'
BY DEF SavedIn, Saved, part, flush

\* A step to a place outside a session, without a flusher.
LEMMA BitsOver ==
  ASSUME Places, pc \notin {"recv", "join", "flush"} \/ fl' = "idle", fl' = fl \/ fl' = "idle",
         pc' \notin Session \cup {"saveNew"}
  PROVE  SavedIn'
BY DEF SavedIn, Places

LEMMA BitsSession ==
  ASSUME Places, SavedIn,
         \/ Open \/ SaveNew \/ (\E l \in Leaves : Receive(l)) \/ Mark \/ EndSession
         \/ WriteFails \/ Join \/ Flushed \/ Check \/ Flusher
         \/ GatewayFetch \/ GatewayWrite \/ KeepSync \/ KeepSave
  PROVE  SavedIn'
<1> USE DEF disk, part, store, mem, flush, env, past, Go
<1>1. CASE Open
  BY <1>1 DEF Open, SavedIn, Saved, Session, Places
<1>2. CASE SaveNew
  BY <1>2 DEF SaveNew, SavedIn, Saved, Session, Places
<1>3. CASE (\E l \in Leaves : Receive(l)) \/ Mark
  BY <1>3 DEF Receive, Mark, SavedIn, Saved, Session
<1>4. CASE EndSession \/ WriteFails \/ Flushed \/ Check
  BY <1>4 DEF EndSession, WriteFails, Flushed, Check, SavedIn, Saved, Session
<1>5. CASE Join
  BY <1>5 DEF Join, SavedIn, Saved, Session
<1>6. CASE Flusher
  <2>1. CASE Tick
    BY <2>1 DEF Tick, SavedIn, Saved, Session
  <2>2. CASE FlushSync
    BY <2>2 DEF FlushSync, SavedIn, Saved, Places
  <2>3. CASE FlushSave
    BY <2>3 DEF FlushSave, SavedIn, Saved, Places
  <2> QED BY <1>6, <2>1, <2>2, <2>3 DEF Flusher
<1>7. CASE GatewayFetch \/ GatewayWrite
  BY <1>7 DEF GatewayFetch, GatewayWrite, SavedIn, Saved, Session, Places
<1>8. CASE KeepSync
  BY <1>8 DEF KeepSync, SavedIn, Saved, Session, Places
<1>9. CASE KeepSave
  BY <1>9, BitsOver DEF KeepSave, Return, Session
<1> QED BY <1>1, <1>2, <1>3, <1>4, <1>5, <1>6, <1>7, <1>8, <1>9

LEMMA BitsElse ==
  ASSUME Places, SavedIn,
         \/ Dispatch \/ Look \/ Verify \/ UnlinkTmp \/ UnlinkPart \/ Build \/ Missing
         \/ Pin \/ Drop \/ Unpin \/ Fresh \/ Fsync \/ Clear("clear", "rename") \/ Rename \/ PutMany
         \/ DropBlocks \/ SlowRead \/ Clear("slowClear", "slowRename") \/ SlowRename
         \/ SlowDrop \/ SlowAdd \/ OpenFails
         \/ (\E a \in FailingCalls : LocalFatal(a))
         \/ Crash \/ Remove \/ RequestCancel \/ ClearCancel \/ AppDrop \/ LookUpSize
         \/ UNCHANGED vars
  PROVE  SavedIn'
<1> USE DEF disk, part, store, mem, flush, env, past, Go, Return
<1>1. CASE \/ Dispatch \/ Look \/ Verify \/ UnlinkTmp \/ UnlinkPart \/ Build \/ Missing
           \/ Pin \/ Drop \/ Unpin \/ Fresh
  BY <1>1, BitsOver DEF Dispatch, Look, Verify, UnlinkTmp, UnlinkPart, Build, Missing, Pin, Gone,
                        Drop, Unpin, Fresh, Enumerated, Session
<1>2. CASE \/ Fsync \/ Clear("clear", "rename") \/ Rename \/ PutMany \/ DropBlocks
           \/ SlowRead \/ Clear("slowClear", "slowRename") \/ SlowRename \/ SlowDrop \/ SlowAdd
  BY <1>2, BitsOver DEF Fsync, Clear, Rename, PutMany, Gone, DropBlocks, SlowRead, SlowRename,
                        SlowDrop, SlowAdd, Session
<1>3. CASE OpenFails \/ Crash \/ AppDrop
           \/ \E a \in FailingCalls : LocalFatal(a)
  BY <1>3, BitsOver DEF OpenFails, Crash, AppDrop, LocalFatal, FailingCalls, Session
<1>4. CASE Remove \/ RequestCancel \/ ClearCancel \/ LookUpSize \/ UNCHANGED vars
  BY <1>4, BitsStill DEF Remove, RequestCancel, ClearCancel, LookUpSize, vars
<1> QED BY <1>1, <1>2, <1>3, <1>4

\* The steps that touch dest.part.
LEMMA PartIs ==
  ASSUME [Next]_vars
  PROVE  UNCHANGED part \/ UnlinkPart \/ SaveNew \/ FlushSave \/ KeepSave
<1> USE DEF disk, store, mem, flush, env, past
<1>1. CASE \/ Dispatch \/ Look \/ Verify \/ UnlinkTmp \/ Build \/ Missing \/ Pin \/ Drop
           \/ Unpin \/ Fresh \/ Open \/ (\E l \in Leaves : Receive(l)) \/ Mark \/ EndSession
           \/ Join \/ Flushed \/ Check \/ Tick \/ FlushSync
  BY <1>1 DEF Dispatch, Look, Verify, UnlinkTmp, Build, Missing, Pin, Drop, Unpin, Fresh, Open, Receive,
              Mark, EndSession, Join, Flushed, Check, Tick, FlushSync
<1>2. CASE \/ GatewayFetch \/ GatewayWrite \/ KeepSync \/ Fsync \/ Clear("clear", "rename")
           \/ Rename \/ PutMany \/ DropBlocks \/ SlowRead \/ Clear("slowClear", "slowRename")
           \/ SlowRename \/ SlowDrop \/ SlowAdd
  BY <1>2 DEF GatewayFetch, GatewayWrite, KeepSync, Fsync, Clear, Rename, PutMany, DropBlocks,
              SlowRead, SlowRename, SlowDrop, SlowAdd
<1>3. CASE \/ OpenFails \/ WriteFails \/ Crash \/ Remove \/ RequestCancel \/ ClearCancel
           \/ AppDrop \/ LookUpSize \/ UNCHANGED vars
           \/ \E a \in FailingCalls : LocalFatal(a)
  BY <1>3 DEF OpenFails, WriteFails, Crash, Remove, RequestCancel, ClearCancel, AppDrop,
              LookUpSize, LocalFatal, vars
<1> QED BY <1>1, <1>2, <1>3 DEF Next, Attempt, Flusher

\* No save of the bitmap falls behind an earlier one, unless one failed: what is
\* on disk and marked stays marked, beside the flusher, over cancels, stalls,
\* gateway resumes and crashes (doSync, the flusher's join, savePart).
THEOREM BitsGrow == Spec => SavedBitsGrow
<1>1. Init => DInv /\ SavedIn
  BY DEF Init, DInv, Places, HeldAtEnd, DoneIsSeeded, SavedIn, Session
<1>2. DInv /\ SavedIn /\ [Next]_vars => SavedIn'
  BY BitsSession, BitsElse DEF DInv, Next, Attempt
<1>3. ASSUME DInv, SavedIn, [Next]_vars, partOf = "mine", partOf' = "mine",
             "save" \notin ignored
      PROVE  partBits \cap durable \subseteq partBits'
  <2>1. CASE UNCHANGED part
    BY <2>1 DEF part
  <2>2. CASE UnlinkPart
    BY <1>3, <2>2 DEF UnlinkPart
  <2>3. CASE SaveNew
    <3>1. pc = "saveNew"
      BY <2>3 DEF SaveNew, Go
    <3> QED BY <1>3, <3>1 DEF SavedIn
  <2>4. CASE FlushSave
    BY <1>3, <2>4 DEF FlushSave, SavedIn, Saved, part
  <2>5. CASE KeepSave
    <3>1. /\ pc = "keepSave"
          /\ (partOf' = "mine" /\ partBits' = bits) \/ partBits' = partBits
      BY <2>5 DEF KeepSave, part
    <3> QED BY <1>3, <3>1 DEF SavedIn, Saved, Session
  <2> QED BY <1>3, <2>1, <2>2, <2>3, <2>4, <2>5, PartIs
<1>4. DInv /\ SavedIn /\ [Next]_vars =>
        [partOf = "mine" /\ partOf' = "mine" /\ "save" \notin ignored
           => partBits \cap durable \subseteq partBits']_vars
  BY <1>3
<1> QED BY <1>1, <1>2, <1>4, InitInv, StepInv, StepDone, PTL DEF Spec, SavedBitsGrow

-----------------------------------------------------------------------------
(* Durability.  What is marked is written, and synced before it is saved   *)
(* as marked.  One crash undoes it: a removePartial that was cut between   *)
(* its two removes leaves the bitmap without its file, the next attempt    *)
(* makes the file anew, and before it has saved an empty bitmap beside it  *)
(* the old one is taken for this file's.                                   *)

CutBeforeSave == Crash /\ pc = "saveNew" /\ partOf = "mine"

\* Where the bitmap in memory is of what is written.
Filling == {"recv", "join", "flush", "check", "gateway", "keepSync"}

\* What is marked, in memory, by the flusher and on disk, is there.
Covered ==
  /\ pc \in Filling => bits \subseteq written
  /\ pc = "saveNew" => bits = {}
  /\ hand \subseteq written
  /\ pc = "keepSave" => bits \subseteq durable
  /\ fl = "sync" => snap \subseteq written
  /\ fl = "save" => snap \subseteq durable
  /\ partOf = "mine" /\ tmp /\ pc # "saveNew" => partBits \subseteq durable

OnDisk ==
  /\ durable \subseteq written
  /\ partOf = "mine" => raw
  /\ hand # {} => pc = "recv"
  /\ ignored = {} => Covered

\* Steps that leave the partial and what is known of it alone, on their way to
\* where nobody asks.
LEMMA DiskStill ==
  ASSUME OnDisk, UNCHANGED <<raw, written, durable, part, mem, ignored>>,
         tmp' = tmp \/ ~tmp',
         pc' = pc \/ (pc \notin {"recv", "saveNew"} /\ pc' \notin Filling \cup {"saveNew", "keepSave"})
  PROVE  OnDisk'
<1>1. durable' \subseteq written' /\ (partOf' = "mine" => raw') /\ (hand' # {} => pc' = "recv")
  BY DEF OnDisk, part, mem
<1>2. ignored' = {} => Covered'
  BY DEF OnDisk, Covered, part, mem, flush
<1> QED BY <1>1, <1>2 DEF OnDisk

LEMMA DiskElsewhere ==
  ASSUME OnDisk,
         \/ Dispatch \/ Look \/ Verify \/ Build \/ Missing \/ Pin \/ Drop \/ Unpin \/ Fresh
         \/ Clear("clear", "rename") \/ Clear("slowClear", "slowRename") \/ PutMany \/ DropBlocks
         \/ SlowDrop \/ SlowAdd
         \/ (\E a \in FailingCalls : LocalFatal(a))
         \/ Remove \/ RequestCancel \/ ClearCancel \/ AppDrop \/ LookUpSize
         \/ UNCHANGED vars
  PROVE  OnDisk'
<1> USE DEF disk, store, env, past, Go, Return, Filling
<1>1. CASE Dispatch \/ Look \/ Verify \/ Build \/ Missing \/ Pin \/ Drop \/ Unpin \/ Fresh
  BY <1>1, DiskStill DEF Dispatch, Look, Verify, Build, Missing, Pin, Gone, Drop, Unpin, Fresh, Enumerated
<1>2. CASE \/ Clear("clear", "rename") \/ Clear("slowClear", "slowRename") \/ PutMany
           \/ DropBlocks \/ SlowDrop \/ SlowAdd
  BY <1>2, DiskStill DEF Clear, PutMany, Gone, DropBlocks, SlowDrop, SlowAdd
<1>3. CASE \/ AppDrop
           \/ \E a \in FailingCalls : LocalFatal(a)
  BY <1>3, DiskStill DEF AppDrop, LocalFatal, FailingCalls
<1>4. CASE Remove \/ RequestCancel \/ ClearCancel \/ LookUpSize \/ UNCHANGED vars
  BY <1>4, DiskStill DEF Remove, RequestCancel, ClearCancel, LookUpSize, vars
<1> QED BY <1>1, <1>2, <1>3, <1>4

\* dest.tmp goes, or its bitmap.
LEMMA DiskGone ==
  ASSUME Places, OnDisk,
         UnlinkTmp \/ UnlinkPart \/ Rename \/ SlowRename \/ OpenFails
  PROVE  OnDisk'
<1> USE DEF disk, store, env, past, Go, Return, Filling, flush, mem, part
<1>1. /\ raw' = raw /\ UNCHANGED <<mem, ignored>> /\ fl = "idle" /\ hand = {}
      /\ pc' \notin Filling \cup {"saveNew", "keepSave"}
  BY DEF UnlinkTmp, UnlinkPart, Rename, SlowRename, OpenFails, Places, OnDisk
<1>2. CASE UnlinkTmp \/ Rename \/ SlowRename \/ OpenFails
  <2>1. durable' \subseteq written' /\ UNCHANGED part /\ ~tmp'
    BY <1>2 DEF UnlinkTmp, Rename, SlowRename, OpenFails, OnDisk
  <2> QED BY <1>1, <1>2, <2>1 DEF OnDisk, Covered
<1>3. CASE UnlinkPart
  BY <1>1, <1>3 DEF UnlinkPart, OnDisk, Covered
<1> QED BY <1>2, <1>3

\* A session, its flusher beside it.
LEMMA DiskSession ==
  ASSUME IInv, Places, OnDisk,
         \/ Open \/ SaveNew \/ (\E l \in Leaves : Receive(l)) \/ Mark \/ EndSession
         \/ WriteFails \/ Join \/ Flushed \/ Check \/ Flusher
  PROVE  OnDisk'
<1> USE DEF disk, store, env, past, Go, Filling, flush, mem, part
<1>1. CASE Open
  <2>1. fl = "idle" /\ hand = {} /\ raw' = raw /\ ignored' = ignored
    BY <1>1 DEF Open, Places, OnDisk
  <2>2. CASE pc' = "saveNew"
    BY <1>1, <2>1, <2>2 DEF Open, OnDisk, Covered
  <2>3. CASE pc' # "saveNew"
    BY <1>1, <2>1, <2>3 DEF Open, OnDisk, Covered
  <2> QED BY <2>2, <2>3
<1>2. CASE SaveNew
  <2>1. /\ fl = "idle" /\ fl' = fl /\ hand = {} /\ raw' = raw /\ raw /\ pc' = "recv"
        /\ UNCHANGED <<tmp, written, durable, bits, hand>>
    BY <1>2 DEF SaveNew, Places, OnDisk, IInv, Learned, Streaming
  <2>2. ignored = {} => bits = {}
    BY <1>2 DEF SaveNew, OnDisk, Covered
  <2> QED BY <1>2, <2>1, <2>2 DEF SaveNew, OnDisk, Covered
<1>3. CASE (\E l \in Leaves : Receive(l)) \/ Mark
  BY <1>3 DEF Receive, Mark, OnDisk, Covered
<1>4. CASE EndSession \/ WriteFails \/ Flushed \/ Check
  BY <1>4 DEF EndSession, WriteFails, Flushed, Check, OnDisk, Covered, Places
<1>5. CASE Join
  BY <1>5 DEF Join, OnDisk, Covered
<1>6. CASE Tick
  BY <1>6 DEF Tick, OnDisk, Covered
<1>7. CASE FlushSync
  BY <1>7 DEF FlushSync, OnDisk, Covered
<1>8. CASE FlushSave
  <2>1. raw /\ raw' = raw
    BY <1>8 DEF FlushSave, Places, IInv, Learned, Streaming
  <2> QED BY <1>8, <2>1 DEF FlushSave, OnDisk, Covered
<1> QED BY <1>1, <1>2, <1>3, <1>4, <1>5, <1>6, <1>7, <1>8 DEF Flusher

\* The partial is kept, or finished; a fallback begins with an empty one, and is
\* of a DAG whose bitmap is nobody's.
LEMMA DiskKept ==
  ASSUME IInv, Places, OnDisk,
         GatewayFetch \/ GatewayWrite \/ KeepSync \/ KeepSave \/ Fsync \/ SlowRead
  PROVE  OnDisk'
<1> USE DEF disk, store, env, past, Go, Filling, flush, mem, part
<1>1. fl = "idle" /\ hand = {} /\ UNCHANGED <<hand, flush, raw>>
  BY DEF GatewayFetch, GatewayWrite, KeepSync, KeepSave, Fsync, SlowRead, Places, OnDisk
<1>2. CASE GatewayFetch \/ GatewayWrite
  BY <1>1, <1>2 DEF GatewayFetch, GatewayWrite, OnDisk, Covered
<1>3. CASE KeepSync \/ Fsync
  BY <1>1, <1>3 DEF KeepSync, Fsync, OnDisk, Covered
<1>4. CASE KeepSave
  <2>1. raw
    BY <1>4 DEF KeepSave, IInv, Learned, Streaming
  <2> QED BY <1>1, <1>4, <2>1 DEF KeepSave, Return, OnDisk, Covered
<1>5. CASE SlowRead
  <2>1. ~raw
    BY <1>5 DEF SlowRead, IInv, Learned, Reading
  <2> QED BY <1>1, <1>5, <2>1 DEF SlowRead, Return, OnDisk, Covered
<1> QED BY <1>2, <1>3, <1>4, <1>5

LEMMA DiskCrash == ASSUME OnDisk, Crash, ~CutBeforeSave PROVE OnDisk'
<1>1. /\ pc' = "idle" /\ bits' = {} /\ hand' = {} /\ fl' = "idle" /\ raw' = raw
      /\ ignored' = ignored /\ UNCHANGED <<tmp, partOf, partBits>>
      /\ durable \subseteq durable' /\ durable' = written'
  BY DEF Crash, part, disk
<1>2. pc # "saveNew" \/ partOf # "mine"
  BY DEF CutBeforeSave
<1> QED BY <1>1, <1>2 DEF OnDisk, Covered, Filling

LEMMA StepOnDisk ==
  ASSUME IInv, DInv, OnDisk, [Next]_vars, [~CutBeforeSave]_vars
  PROVE  OnDisk'
<1>1. CASE Crash
  <2>1. ~CutBeforeSave
    BY <1>1 DEF Crash, CutBeforeSave, vars
  <2> QED BY <1>1, <2>1, DiskCrash
<1> QED BY <1>1, DiskElsewhere, DiskGone, DiskSession, DiskKept DEF Next, Attempt, DInv

\* "A crash never marks a leaf done whose bytes aren't on disk" (fetch.go:1230),
\* and a resume starts from bytes that are there: for any leaves and any crashes,
\* failures of local calls, removals and cancels, as long as every sync and every
\* save went through and no crash cuts an attempt between the dest.tmp it makes and
\* its first bitmap where an older one was left (savePart, removePartial).
THEOREM OnlyALeftBitmapLies ==
  Spec /\ [][~CutBeforeSave]_vars => [](MarkedIsOnDisk /\ ResumeIsTrue)
<1>1. Init => DInv /\ OnDisk
  BY DEF Init, DInv, Places, HeldAtEnd, DoneIsSeeded, OnDisk, Covered, Filling
<1>2. OnDisk => MarkedIsOnDisk /\ ResumeIsTrue
  BY DEF OnDisk, Covered, Filling, MarkedIsOnDisk, ResumeIsTrue
<1> QED BY <1>1, <1>2, InitInv, StepInv, StepDone, StepOnDisk, PTL DEF Spec
=============================================================================
