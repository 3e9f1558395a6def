----------------------------- MODULE FileFetch ------------------------------
(***************************************************************************)
(* One file, fetched to one path (fetch.go, resume.go): an attempt looks   *)
(* at what is on disk, gets the root, streams the leaves into dest.tmp     *)
(* beside a bitmap dest.part of what is durable, and finishes by renaming  *)
(* the file into place, referencing its leaves, pinning the root and       *)
(* removing the bitmap last.  A DAG that is not all raw leaves is read     *)
(* whole and added again instead.                                          *)
(*                                                                         *)
(* Every call that touches a file or the datastore is a step, and the      *)
(* process may stop between any two: what was not synced may then be lost. *)
(* A leaf stands for its CID and all the offsets it occurs at.             *)
(***************************************************************************)
EXTENDS Integers, FiniteSets

CONSTANTS
  Leaves,   \* the raw leaves of the file
  MaxFaults \* bound: crashes, failed calls, stalls, cancels and removals

ASSUME FileFetchAssumption ==
  /\ IsFiniteSet(Leaves) /\ Leaves # {}
  /\ MaxFaults \in Nat

VARIABLES
  raw,      \* the DAG is all raw leaves, as the importer of add.go builds it
  dest,     \* the file at dest: "none", "gone" (lost to the outside), "good"
            \* (the right bytes), "fresh" (right, not synced), "torn", "stale"
  tmp,      \* dest.tmp exists
  written,  \* the leaves written to dest.tmp
  durable,  \* ... and synced
  partOf,   \* dest.part: "none", "foreign" (of another root) or "mine"
  partBits, \* the leaves it marks
  refs,     \* the leaves with a filestore reference
  refsTo,   \* the file they are into: "dest", or "moved", one that is gone
  blocks,   \* the leaves with a copy in the plain blockstore
  root,     \* the root block: "none", "fetched", or "seen": got by a look-up
  pinned,   \* the CID is pinned recursively
  cancel,   \* the CID is in cancelSet
  pc,       \* the attempt
  after,    \* what the attempt does or returns once its cleanup is over
  out,      \* what the last attempt returned, as classifyFetchErr has it;
            \* "noop" is a done that found the file finalized
  bits,     \* the bitmap in memory
  hand,     \* the leaf written whose bit is not set yet, if any
  fl, snap, \* the flusher: "idle", "sync" or "save", and its snapshot
  ignored,  \* history: the kinds of errors the code dropped
  faults    \* how many faults have happened

disk == <<dest, tmp, written, durable>>
part == <<partOf, partBits>>
store == <<refs, refsTo, blocks, root, pinned>>
flush == <<fl, snap>>
mem == <<bits, hand, flush>>
env == <<raw, cancel>>
past == <<ignored, faults>>
vars == <<disk, part, store, mem, env, past, pc, after, out>>

Right == dest \in {"good", "fresh"}
Absent == dest \in {"none", "gone"}

\* A step of the attempt from one place to the next.
Go(a, b) == pc = a /\ pc' = b

Fault == faults < MaxFaults /\ faults' = faults + 1

\* classifyFetchErr of what the attempt ends with.
Classify(a) == CASE a \in {"done", "noop"} -> a
                 [] a = "terminal" \/ cancel -> "terminal"
                 [] OTHER -> "retry"

Return(a) == pc' = "idle" /\ out' = Classify(a) /\ after' = "none"

\* An error of a local call ends the attempt for good (localFatal).
LocalFatal(a) == /\ pc = a
                 /\ Fault
                 /\ Return("terminal")
                 /\ UNCHANGED <<disk, part, store, mem, env, ignored>>

\* hasLocal of a dag-pb root, and cidMissing: some reference of the DAG is
\* into a file that is gone.
hasLocal == root # "none"
cidMissing == root # "none" /\ refs # {} /\ (refsTo = "moved" \/ Absent)

\* What the offline DAG service can read: a plain copy of a leaf, or the bytes
\* its reference names, if they are the leaf's.
Readable ==
  \/ Leaves \subseteq blocks
  \/ Leaves \subseteq refs \cup blocks /\ refsTo = "dest" /\ Right

\* writeThrough's errors pass by isMissingFile, which knows a file that is gone
\* by the system's words for it: then the stale reference is dropped.
Gone ==
  \/ pc' = "drop" /\ after' = "retry" /\ UNCHANGED out
  \/ Return("terminal")

\* The walk over the spine: all raw leaves are streamed, anything else is read.
Enumerated == IF raw THEN "open" ELSE "slowRead"

\* The leaves to ask for.
need == Leaves \ bits

TypeOK ==
  /\ raw \in BOOLEAN /\ tmp \in BOOLEAN /\ pinned \in BOOLEAN
  /\ cancel \in BOOLEAN
  /\ dest \in {"none", "gone", "good", "fresh", "torn", "stale"}
  /\ durable \subseteq written /\ written \subseteq Leaves
  /\ partOf \in {"none", "foreign", "mine"} /\ partBits \subseteq Leaves
  /\ refs \subseteq Leaves /\ refsTo \in {"dest", "moved"}
  /\ blocks \subseteq Leaves /\ root \in {"none", "fetched", "seen"}
  /\ pc \in {"idle", "look", "verify", "unlinkTmp", "unlinkPart", "build",
             "missing", "rebuild", "repin", "pin", "fresh", "drop", "unpin", "open", "saveNew", "recv",
             "join", "flush", "check", "gateway", "keepSync", "keepSave",
             "fsync", "clear", "rename", "putMany", "dropBlocks", "slowRead",
             "slowClear", "slowRename", "slowDrop", "slowAdd"}
  /\ after \in {"none", "done", "noop", "retry", "cancelled", "terminal",
                "stalled", "again", "rebuild"}
  /\ out \in {"none", "running", "done", "noop", "retry", "terminal"}
  /\ bits \subseteq Leaves /\ hand \subseteq Leaves /\ snap \subseteq Leaves
  /\ fl \in {"idle", "sync", "save"}
  /\ ignored \subseteq {"sync", "save"} /\ faults \in 0..MaxFaults

(***************************************************************************)
(* fetchToPathOnce: what is at dest?                                       *)
(***************************************************************************)
Dispatch ==
  /\ pc = "idle"
  /\ IF cancel THEN Return("cancelled")
     ELSE pc' = "look" /\ out' = "running" /\ UNCHANGED after
  /\ UNCHANGED <<disk, part, store, mem, env, past>>

\* A finished fetch left dest, no bitmap and the root.
Look ==
  /\ pc = "look"
  /\ IF Absent THEN pc' = "fresh" /\ UNCHANGED <<after, out>>
     ELSE IF partOf = "none" /\ hasLocal THEN Return("noop")
     ELSE pc' = "verify" /\ UNCHANGED <<after, out>>
  /\ UNCHANGED <<disk, part, store, mem, env, past>>

\* computeCid(dest) is the CID asked for only of the importer's own DAGs.
Verify ==
  /\ pc = "verify"
  /\ \/ Absent /\ pc' = "fresh" /\ UNCHANGED <<dest, after, faults>>
     \/ Right /\ raw /\ pc' = "build" /\ UNCHANGED <<dest, after, faults>>
     \/ /\ ~Absent /\ ~(Right /\ raw)
        /\ dest' = "none" /\ pc' = "unlinkTmp" /\ after' = "again"
        /\ UNCHANGED faults
     \/ /\ ~Absent /\ Fault     \* unreadable
        /\ dest' = "gone" /\ pc' = "unlinkTmp" /\ after' = "again"
  /\ UNCHANGED <<tmp, written, durable, part, store, mem, env, ignored, out>>

(***************************************************************************)
(* removePartial                                                           *)
(***************************************************************************)
UnlinkTmp ==
  /\ Go("unlinkTmp", "unlinkPart")
  /\ tmp' = FALSE /\ written' = {} /\ durable' = {}
  /\ UNCHANGED <<dest, part, store, mem, env, past, after, out>>

UnlinkPart ==
  /\ pc = "unlinkPart"
  /\ partOf' = "none" /\ partBits' = {}
  /\ IF after = "again" THEN pc' = "fresh" /\ after' = "none" /\ UNCHANGED out
     ELSE Return(after)
  /\ UNCHANGED <<disk, store, mem, env, past>>

(***************************************************************************)
(* addNoCopy of a file that has the right bytes: a leaf already held is    *)
(* skipped, so references into a file that is gone are dropped and the     *)
(* file is built once more.                                                *)
(***************************************************************************)
Build ==
  /\ pc \in {"build", "rebuild"}
  /\ IF Absent
     THEN Return("terminal") /\ UNCHANGED <<refs, refsTo, root>>
     ELSE /\ pc' = IF pc = "build" THEN "missing" ELSE "repin"
          /\ refs' = refs \cup (Leaves \ blocks)
          /\ refsTo' = IF refs = {} THEN "dest" ELSE refsTo
          /\ root' = IF root = "none" THEN "fetched" ELSE root
          /\ UNCHANGED <<after, out>>
  /\ UNCHANGED <<disk, part, blocks, pinned, mem, env, past>>

Missing ==
  /\ pc = "missing"
  /\ IF cidMissing THEN pc' = "drop" /\ after' = "rebuild"
     ELSE pc' = "repin" /\ UNCHANGED after
  /\ UNCHANGED <<disk, part, store, mem, env, past, out>>

\* A pin that is taken without a walk.
PinUnwalked ==
  /\ pc \in {"repin", "pin"}
  /\ pc' = "unlinkTmp" /\ after' = "done"
  /\ pinned' = TRUE
  /\ UNCHANGED <<disk, part, refs, refsTo, blocks, root, mem, env, past, out>>

\* pinner.Pin walks the DAG offline and reads every leaf, so it fails where one
\* is missing or is not what the file has.
Pin ==
  /\ pc \in {"repin", "pin"}
  /\ IF Readable
     THEN /\ pc' = "unlinkTmp" /\ after' = "done"
          /\ pinned' = TRUE
          /\ UNCHANGED out
     ELSE /\ IF pc = "pin" /\ Absent THEN Gone ELSE Return("terminal")
          /\ UNCHANGED pinned
  /\ UNCHANGED <<disk, part, refs, refsTo, blocks, root, mem, env, past>>

(***************************************************************************)
(* dropRef: the closure in one batch, then the pin.                        *)
(***************************************************************************)
\* A dropRef that unpins first.
DropUnpinsFirst ==
  /\ Go("drop", "unpin")
  /\ pinned' = FALSE
  /\ UNCHANGED <<disk, part, refs, refsTo, blocks, root, mem, env, past,
                 after, out>>

Drop ==
  /\ Go("drop", "unpin")
  /\ refs' = {} /\ blocks' = {} /\ root' = "none"
  /\ UNCHANGED <<disk, part, refsTo, pinned, mem, env, past, after, out>>

Unpin ==
  /\ pc = "unpin"
  /\ pinned' = FALSE
  /\ IF after = "rebuild" THEN pc' = "rebuild" /\ after' = "none" /\ UNCHANGED out
     ELSE Return(after)
  /\ UNCHANGED <<disk, part, refs, refsTo, blocks, root, mem, env, past>>


Fresh ==
  /\ pc = "fresh"
  /\ IF cidMissing
     THEN pc' = "drop" /\ after' = "retry" /\ UNCHANGED <<root, out, faults>>
     ELSE \/ /\ pc' = Enumerated
             /\ root' = IF root = "none" THEN "fetched" ELSE root
             /\ UNCHANGED <<after, out, faults>>
          \/ Fault /\ Return("retry") /\ UNCHANGED root
  /\ UNCHANGED <<disk, part, refs, refsTo, blocks, pinned, mem, env, ignored>>

\* loadPart takes only a bitmap of this root; without one, or without its
\* file, the partial is made anew.
Open ==
  /\ pc = "open"
  /\ IF partOf = "mine" /\ tmp
     THEN /\ pc' = IF partBits = Leaves THEN "fsync" ELSE "recv"
          /\ bits' = partBits
          /\ UNCHANGED disk
     ELSE /\ pc' = "saveNew"
          /\ bits' = {}
          /\ tmp' = TRUE /\ written' = {} /\ durable' = {}
          /\ UNCHANGED dest
  /\ UNCHANGED <<part, store, hand, flush, env, past, after, out>>

OpenFails ==
  /\ pc = "open" /\ ~(partOf = "mine" /\ tmp)
  /\ Fault
  /\ tmp' = FALSE /\ written' = {} /\ durable' = {}
  /\ Return("terminal")
  /\ UNCHANGED <<dest, part, store, mem, env, ignored>>

\* The first savePart, whose error is dropped.
SaveNew ==
  /\ Go("saveNew", "recv")
  /\ \/ partOf' = "mine" /\ partBits' = {} /\ UNCHANGED past
     \/ Fault /\ ignored' = ignored \cup {"save"} /\ UNCHANGED part
  /\ UNCHANGED <<disk, store, mem, env, after, out>>

(***************************************************************************)
(* The session: leaves arrive in any order, each is written and then       *)
(* marked, while the flusher syncs and saves snapshots of the bitmap.      *)
(***************************************************************************)
Receive(l) ==
  /\ pc = "recv" /\ hand = {} /\ l \in need
  /\ written' = written \cup {l}
  /\ hand' = {l}
  /\ UNCHANGED <<dest, tmp, durable, part, store, bits, flush, env, past, pc,
                 after, out>>

Mark ==
  /\ pc = "recv" /\ hand # {}
  /\ bits' = bits \cup hand /\ hand' = {}
  /\ UNCHANGED <<disk, part, store, flush, env, past, pc, after, out>>

WriteFails ==
  /\ Go("recv", "join") /\ hand = {} /\ need # {}
  /\ Fault
  /\ after' = "terminal"
  /\ UNCHANGED <<disk, part, store, mem, env, ignored, out>>

\* Every leaf is there, or the user cancels, or 20 s pass without a block.
EndSession ==
  /\ Go("recv", "join") /\ hand = {}
  /\ \/ (need = {} \/ cancel) /\ UNCHANGED <<after, faults>>
     \/ Fault /\ after' = "stalled"
  /\ UNCHANGED <<disk, part, store, mem, env, ignored, out>>

Tick ==
  /\ pc = "recv" /\ fl = "idle"
  /\ fl' = "sync" /\ snap' = bits
  /\ UNCHANGED <<disk, part, store, bits, hand, env, past, pc, after, out>>

\* out.Sync, whose error doSync drops.
FlushSync ==
  /\ fl = "sync" /\ fl' = "save"
  /\ \/ durable' = written /\ UNCHANGED past
     \/ Fault /\ ignored' = ignored \cup {"sync"} /\ UNCHANGED durable
  /\ UNCHANGED <<dest, tmp, written, part, store, bits, hand, snap, env, pc,
                 after, out>>

FlushSave ==
  /\ fl = "save" /\ fl' = "idle" /\ snap' = {}
  /\ \/ partOf' = "mine" /\ partBits' = snap /\ UNCHANGED past
     \/ Fault /\ ignored' = ignored \cup {"save"} /\ UNCHANGED part
  /\ UNCHANGED <<disk, store, bits, hand, env, pc, after, out>>

\* A session that does not wait for its flusher.
JoinUnawaited ==
  /\ pc = "join"
  /\ pc' = IF after = "terminal" THEN "keepSync" ELSE "check"
  /\ UNCHANGED <<disk, part, store, mem, env, past, after, out>>

\* The flusher is waited for; a last doSync, unless a write failed.
Join ==
  /\ pc = "join" /\ fl = "idle"
  /\ IF after = "terminal" THEN pc' = "keepSync" /\ UNCHANGED flush
     ELSE pc' = "flush" /\ fl' = "sync" /\ snap' = bits
  /\ UNCHANGED <<disk, part, store, bits, hand, env, past, after, out>>

Flushed ==
  /\ Go("flush", "check") /\ fl = "idle"
  /\ UNCHANGED <<disk, part, store, mem, env, past, after, out>>

Check ==
  /\ pc = "check"
  /\ \/ cancel /\ pc' = "unlinkTmp" /\ after' = "cancelled"
     \/ ~cancel /\ need = {} /\ pc' = "fsync" /\ after' = "none"
     \/ ~cancel /\ need # {} /\ after = "stalled" \* and online
          /\ pc' = "gateway" /\ after' = "retry"
     \/ ~cancel /\ need # {}
          /\ pc' = "keepSync" /\ after' = "retry"
  /\ UNCHANGED <<disk, part, store, mem, env, past, out>>

(***************************************************************************)
(* The gateway resume: what its ranges landed in the blockstore is written *)
(* through; a cancel meanwhile discards the partial.                       *)
(***************************************************************************)
GatewayFetch ==
  /\ pc = "gateway"
  /\ \E got \in SUBSET need : blocks' = blocks \cup got
  /\ UNCHANGED <<disk, part, refs, refsTo, root, pinned, mem, env, past, pc,
                 after, out>>

GatewayWrite ==
  /\ pc = "gateway"
  /\ \E some \in SUBSET (need \cap blocks) :
       /\ bits' = bits \cup some /\ written' = written \cup some
       /\ IF some # need \cap blocks
          THEN Fault /\ pc' = "keepSync" /\ after' = "terminal"
          ELSE /\ UNCHANGED faults
               /\ \/ cancel /\ pc' = "unlinkTmp" /\ after' = "cancelled"
                  \/ ~cancel /\ UNCHANGED after
                     /\ pc' = IF bits' = Leaves THEN "fsync" ELSE "keepSync"
  /\ UNCHANGED <<dest, tmp, durable, part, store, hand, flush, env, ignored,
                 out>>

\* The partial is kept for the next attempt.
KeepSync ==
  /\ Go("keepSync", "keepSave")
  /\ \/ durable' = written /\ UNCHANGED past
     \/ Fault /\ ignored' = ignored \cup {"sync"} /\ UNCHANGED durable
  /\ UNCHANGED <<dest, tmp, written, part, store, mem, env, after, out>>

KeepSave ==
  /\ pc = "keepSave"
  /\ \/ partOf' = "mine" /\ partBits' = bits /\ UNCHANGED past
     \/ Fault /\ ignored' = ignored \cup {"save"} /\ UNCHANGED part
  /\ Return(after)
  /\ UNCHANGED <<disk, store, mem, env>>

(***************************************************************************)
(* Finalize: sync, rename, reference, drop the copies, pin, and only then  *)
(* removePartial.                                                          *)
(***************************************************************************)
Fsync ==
  /\ Go("fsync", "clear")
  /\ durable' = written
  /\ UNCHANGED <<dest, tmp, written, part, store, mem, env, past, after, out>>

Clear(a, b) ==
  /\ Go(a, b)
  /\ dest' = "none"
  /\ UNCHANGED <<tmp, written, durable, part, store, mem, env, past, after,
                 out>>

\* A rename that takes the bitmap for spent.
RenameEndsPart ==
  /\ Go("rename", "putMany")
  /\ dest' = IF written = Leaves THEN "good" ELSE "torn"
  /\ tmp' = FALSE /\ written' = {} /\ durable' = {}
  /\ partOf' = "none" /\ partBits' = {}
  /\ UNCHANGED <<store, mem, env, past, after, out>>

Rename ==
  /\ Go("rename", "putMany")
  /\ dest' = IF written = Leaves THEN "good" ELSE "torn"
  /\ tmp' = FALSE /\ written' = {} /\ durable' = {}
  /\ UNCHANGED <<part, store, mem, env, past, after, out>>

\* PutMany records where each leaf is, and reads none of it.
PutMany ==
  /\ pc = "putMany"
  /\ IF Absent THEN Gone /\ UNCHANGED <<refs, refsTo>>
     ELSE pc' = "dropBlocks" /\ refs' = Leaves /\ refsTo' = "dest"
            /\ UNCHANGED <<after, out>>
  /\ UNCHANGED <<disk, part, blocks, root, pinned, mem, env, past>>

DropBlocks ==
  /\ Go("dropBlocks", "pin")
  /\ blocks' = {}
  /\ UNCHANGED <<disk, part, refs, refsTo, root, pinned, mem, env, past,
                 after, out>>

(***************************************************************************)
(* The fallback: read the DAG into dest.tmp (the blocks are cached), put   *)
(* it in place, drop the closure and add the file, which gives a DAG of    *)
(* raw leaves and so another CID: nothing of this one stays.               *)
(***************************************************************************)
SlowRead ==
  /\ pc = "slowRead"
  /\ blocks' = Leaves /\ written' = {} /\ durable' = {}
  /\ \/ tmp' = TRUE /\ pc' = "slowClear" /\ UNCHANGED <<after, out, faults>>
     \/ cancel /\ tmp' = FALSE /\ Return("cancelled") /\ UNCHANGED faults
     \/ Fault /\ tmp' = FALSE /\ \E a \in {"retry", "terminal"} : Return(a)
  /\ UNCHANGED <<dest, part, refs, refsTo, root, pinned, mem, env, ignored>>

SlowRename ==
  /\ Go("slowRename", "slowDrop")
  /\ dest' = "fresh" /\ tmp' = FALSE
  /\ UNCHANGED <<written, durable, part, store, mem, env, past, after, out>>

\* dropClosure
SlowDrop ==
  /\ Go("slowDrop", "slowAdd")
  /\ blocks' = {} /\ root' = "none"
  /\ UNCHANGED <<disk, part, refs, refsTo, pinned, mem, env, past, after, out>>

SlowAdd ==
  /\ pc = "slowAdd"
  /\ Return(IF Absent THEN "terminal" ELSE "done")
  /\ UNCHANGED <<disk, part, store, mem, env, past>>

(***************************************************************************)
(* The surroundings.                                                       *)
(***************************************************************************)
\* The process stops: what was not synced may or may not be on disk.
Crash ==
  /\ pc # "idle" /\ Fault
  /\ pc' = "idle" /\ out' = "none" /\ after' = "none"
  /\ bits' = {} /\ hand' = {} /\ fl' = "idle" /\ snap' = {}
  /\ cancel' = FALSE
  /\ \E kept \in SUBSET (written \ durable) :
       written' = durable \cup kept /\ durable' = durable \cup kept
  /\ dest' \in IF dest = "fresh" THEN {"good", "torn"} ELSE {dest}
  /\ UNCHANGED <<tmp, part, store, raw, ignored>>

\* The file disappears from the user's disk.
Remove ==
  /\ ~Absent /\ Fault
  /\ dest' = "gone"
  /\ UNCHANGED <<tmp, written, durable, part, store, mem, env, ignored, pc,
                 after, out>>

RequestCancel ==
  /\ ~cancel /\ Fault
  /\ cancel' = TRUE
  /\ UNCHANGED <<raw, disk, part, store, mem, ignored, pc, after, out>>

ClearCancel ==
  /\ cancel /\ pc = "idle"
  /\ cancel' = FALSE
  /\ UNCHANGED <<raw, disk, part, store, mem, past, pc, after, out>>

\* The application drops the CID between two attempts.
AppDrop ==
  /\ Go("idle", "drop") /\ Fault
  /\ after' = "retry" /\ out' = "none"
  /\ UNCHANGED <<disk, part, store, mem, env, ignored>>

\* cidSize asks the network for the root, and the block is kept.
LookUpSize ==
  /\ pc = "idle" /\ root = "none"
  /\ root' = "seen"
  /\ UNCHANGED <<disk, part, refs, refsTo, blocks, pinned, mem, env, past, pc,
                 after, out>>

\* An older version of the file, a copy of it, a partial of another one, or a
\* reference that lost its file may be there already.
Init ==
  /\ raw \in BOOLEAN /\ cancel = FALSE
  /\ dest \in {"none", "stale", "good"}
  /\ partOf \in {"none", "foreign"} /\ tmp = (partOf = "foreign")
  /\ partBits \in IF tmp THEN SUBSET Leaves ELSE {{}}
  /\ written = {} /\ durable = {} /\ blocks = {}
  /\ refs \in {{}, Leaves} /\ refsTo = IF refs = {} THEN "dest" ELSE "moved"
  /\ (refs # {} => raw)
  /\ pinned = (refs # {}) /\ root = IF refs = {} THEN "none" ELSE "fetched"
  /\ pc = "idle" /\ after = "none" /\ out = "none"
  /\ bits = {} /\ hand = {} /\ fl = "idle" /\ snap = {}
  /\ ignored = {} /\ faults = 0

Flusher == Tick \/ FlushSync \/ FlushSave

Attempt ==
  \/ Dispatch \/ Look \/ Verify \/ UnlinkTmp \/ UnlinkPart
  \/ Build \/ Missing \/ Pin \/ Drop \/ Unpin \/ Fresh \/ Open \/ SaveNew
  \/ (\E l \in Leaves : Receive(l)) \/ Mark \/ EndSession \/ Join \/ Flushed
  \/ Check \/ GatewayFetch \/ GatewayWrite \/ KeepSync \/ KeepSave
  \/ Fsync \/ Clear("clear", "rename") \/ Rename \/ PutMany \/ DropBlocks
  \/ SlowRead \/ Clear("slowClear", "slowRename") \/ SlowRename \/ SlowDrop
  \/ SlowAdd

\* The local calls whose error ends an attempt.
FailingCalls == {"build", "rebuild", "repin", "pin", "fsync", "rename", "putMany",
                 "slowRename", "slowAdd"}

Next ==
  \/ Attempt \/ Flusher
  \/ OpenFails \/ WriteFails \/ (\E a \in FailingCalls : LocalFatal(a))
  \/ Crash \/ Remove \/ RequestCancel \/ ClearCancel \/ AppDrop \/ LookUpSize

Spec == Init /\ [][Next]_vars

\* The queue dispatches a fetch again until it is done, an attempt goes on
\* by itself, and so does its flusher.
FairSpec == Spec /\ WF_vars(Attempt) /\ WF_vars(Flusher)

(***************************************************************************)
(* Properties                                                              *)
(***************************************************************************)
\* A fetch that reports done has the file, every leaf referenced into it and
\* the pin, and nothing left to resume; only the user's disk can undo it.
DoneIsSeeded ==
  out = "done" /\ raw =>
    /\ pinned /\ ~tmp /\ partOf = "none"
    /\ refs \cup blocks = Leaves /\ refsTo = "dest"
    /\ dest = "good" \/ dest = "gone"

\* References may be into a file with other bytes, for PutMany reads none: only
\* while .part is there, so that no later fetch takes that file for finalized
\* before the bytes were hashed (the commit marker, removed last).
TornIsMarked ==
  refs # {} /\ refsTo = "dest" /\ dest \in {"torn", "stale"} => partOf = "mine"

\* "PutMany (validates each leaf hash vs on-disk bytes)", and bytes that are not
\* the leaf's discard the file: then no reference is into any such file.
RefsAreTrue ==
  refs # {} /\ refsTo = "dest" => dest \notin {"torn", "stale"}

\* A leaf that is on disk and marked so in the saved bitmap stays marked when
\* the bitmap is saved again (unless a save failed): none falls behind an
\* earlier one.
SavedBitsGrow ==
  [][partOf = "mine" /\ partOf' = "mine" /\ "save" \notin ignored
       => partBits \cap durable \subseteq partBits']_vars


\* The file as its promise sees it.
FileState ==
  IF pinned
  THEN IF Readable THEN "seeded" ELSE "broken"
  ELSE IF raw /\ (Right \/ Leaves \subseteq blocks) THEN "whole" ELSE "absent"

Promise == INSTANCE SeededFile WITH state <- FileState

SeedsAsPromised == Promise!Spec

\* A file that is taken for finalized is: referenced, pinned and announced.
NoopIsFinalized == out = "noop" => FileState = "seeded" \/ dest = "gone"

\* "A crash never marks a leaf done whose bytes aren't on disk": while every sync
\* and every save went through, the saved bitmap marks what is on disk, from the
\* first save of a new partial on (doSync, savePart).
MarkedIsOnDisk ==
  ignored = {} /\ partOf = "mine" /\ tmp /\ pc # "saveNew" => partBits \subseteq durable

\* ... and a session starts from leaves that are there.
ResumeIsTrue == ignored = {} /\ pc = "recv" => bits \subseteq written
=============================================================================
