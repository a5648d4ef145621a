---------------------------- MODULE DiskStorage -----------------------------
(***************************************************************************)
(* The file handles of one torrent's storage: tasks that write and read    *)
(* blocks through the handle cache, eviction and flushing, and the move of *)
(* the files while tasks still hold the old storage.                       *)
(*                                                                         *)
(* A write returns when the operating system's thread has taken the data   *)
(* (tokio::fs::File): it is on the file once that thread is done, and the  *)
(* next use of the same handle waits for it; the use of another handle of  *)
(* the same file does not.  A write that fails there is not told to the    *)
(* task that asked for it.  MAX_CONCURRENT_OPS is far above the tasks      *)
(* here, so the semaphore is left out.                                     *)
(***************************************************************************)
EXTENDS Naturals, Sequences, FiniteSets

CONSTANTS
    DiskTasks,    \* tasks that read and write
    DiskFiles,    \* files of the torrent
    DiskBlocks,   \* blocks
    SpanFiles,    \* the files each block lies in (FileSpans has the offsets)
    MaxHandles,   \* bound on the handles opened in a behaviour
    MaxDiskOps    \* bound on the spans of all reads and writes

ASSUME DiskAssumption ==
    /\ SpanFiles \in [DiskBlocks -> Seq(DiskFiles) \ {<<>>}]
    /\ {MaxHandles, MaxDiskOps} \subseteq Nat

VARIABLES
    cachedHandle, \* FileHandleCache.handles of either storage; 0: no entry
    fileHandle,   \* the handles opened so far: file, where it is now, what is in flight
    onDisk,       \* the blocks in each file, where the files are
    fileThere,    \* which files are there at all
    moved,        \* how far a move that copies has come with each file
    newRoot,      \* where the storage built by a move is rooted
    rootOf,       \* what get_storage returns: the storage built first or by the move, or none
    diskOp,       \* what each task is at
    sweeping,     \* keys that evict_idle or flush_all has listed and not yet removed
    written,      \* history: blocks whose write has returned
    confirmed,    \* history: blocks that a read has found written
    missedReads,  \* history: files in which a read has missed a block written before
    mishaps,      \* history: what has happened to which file
    diskOps

diskVars == <<cachedHandle, fileHandle, onDisk, fileThere, moved, newRoot, rootOf, diskOp,
              sweeping, written, confirmed, missedReads, mishaps, diskOps>>

Storages == {"old", "new"}
Places == Storages \cup {"unlinked"}
HandleIds == 1 .. Len(fileHandle)

(* Opened again while a first handle was busy; written through a storage   *)
(* that was no longer registered, or moved with data on its way to it; a   *)
(* write that has failed behind its handle; deleted by a move that failed. *)
Mishaps == {"split", "late", "failed", "deleted"}
DiskIdle == [kind |-> "idle"]

(* Preallocated, with nothing in it. *)
DiskInit ==
    /\ cachedHandle = [s \in Storages |-> [f \in DiskFiles |-> 0]]
    /\ fileHandle = <<>>
    /\ onDisk = [p \in Places |-> [f \in DiskFiles |-> {}]]
    /\ fileThere = [p \in Places |-> IF p = "old" THEN DiskFiles ELSE {}]
    /\ moved = [f \in DiskFiles |-> "here"] /\ newRoot = "new" /\ rootOf = "old"
    /\ diskOp = [t \in DiskTasks |-> DiskIdle] /\ sweeping = {}
    /\ written = {} /\ confirmed = {} /\ missedReads = {} /\ mishaps = {} /\ diskOps = 0

(* A handle's file is busy while data is on its way to it. *)
Settled(h) == fileHandle[h].flight = {}
InUse(h) == \E t \in DiskTasks : diskOp[t] # DiskIdle /\ diskOp[t].handle = h
PlaceOf(s) == IF s = "new" THEN newRoot ELSE "old"
Busy(h) == InUse(h) \/ ~Settled(h)
FileAt(op) == SpanFiles[op.block][op.span]
Layout == <<onDisk, fileThere, moved, newRoot, rootOf>>
Happens(what, files) == mishaps' = mishaps \cup {what} \X files
DiskHistory == <<written, confirmed, missedReads>>

-----------------------------------------------------------------------------
(* Tasks *)

(* The task keeps the storage it got, whatever is registered later.        *)
DiskBegin(t) ==
    /\ diskOp[t] = DiskIdle /\ rootOf # "none"
    /\ \E kind \in {"read", "write"}, b \in DiskBlocks :
         /\ diskOps' = diskOps + Len(SpanFiles[b]) /\ diskOps' <= MaxDiskOps
         /\ diskOp' = [diskOp EXCEPT ![t] =
                [kind |-> kind, block |-> b, root |-> rootOf, span |-> 1, step |-> "find",
                 handle |-> 0, expects |-> b \in written, found |-> TRUE]]
    /\ UNCHANGED <<cachedHandle, fileHandle, Layout, sweeping, DiskHistory, mishaps>>

(* Any step of it may fail: the operation returns with the error.          *)
DiskOpFails(t) ==
    /\ diskOp[t] # DiskIdle /\ diskOp' = [diskOp EXCEPT ![t] = DiskIdle]
    /\ UNCHANGED <<cachedHandle, fileHandle, Layout, sweeping, DiskHistory, mishaps, diskOps>>

(* A writer that finds a handle for reading removes it. *)
FindHandle(t) ==
    LET op == diskOp[t]
        h == cachedHandle[op.root][FileAt(op)]
        fits == h # 0 /\ (op.kind = "read" \/ fileHandle[h].writes)
    IN
    /\ op # DiskIdle /\ op.step = "find"
    /\ IF fits
       THEN /\ diskOp' = [diskOp EXCEPT ![t].step = "use", ![t].handle = h]
            /\ UNCHANGED cachedHandle
       ELSE /\ diskOp' = [diskOp EXCEPT ![t].step = "open"]
            /\ cachedHandle' = IF op.kind = "read" THEN cachedHandle
                               ELSE [cachedHandle EXCEPT ![op.root][FileAt(op)] = 0]
    /\ UNCHANGED <<fileHandle, Layout, sweeping, DiskHistory, mishaps, diskOps>>

(* A file that is not there is created for writing and an error otherwise; *)
(* the handle replaces whatever another task has put there meanwhile.      *)
(* `kept`: what the file still holds once it is open.                      *)
OpenKeeping(t, kept) ==
    LET op == diskOp[t]
        f == FileAt(op)
        at == PlaceOf(op.root)
        h == Len(fileHandle) + 1
    IN
    /\ op # DiskIdle /\ op.step = "open"
    /\ IF op.kind = "read" /\ f \notin fileThere[at]
       THEN /\ diskOp' = [diskOp EXCEPT ![t] = DiskIdle]
            /\ missedReads' = IF op.expects /\ op.root = rootOf THEN missedReads \cup {f}
                              ELSE missedReads
            /\ UNCHANGED <<cachedHandle, fileHandle, onDisk, fileThere, mishaps>>
       ELSE /\ Len(fileHandle) < MaxHandles
            /\ fileHandle' = Append(fileHandle, [file |-> f, writes |-> op.kind = "write",
                                                 place |-> at, flight |-> {}])
            /\ fileThere' = [fileThere EXCEPT ![at] = @ \cup {f}]
            /\ onDisk' = [onDisk EXCEPT ![at][f] = kept]
            /\ cachedHandle' = [cachedHandle EXCEPT ![op.root][f] = h]
            /\ diskOp' = [diskOp EXCEPT ![t].step = "use", ![t].handle = h]
            /\ Happens("split", {fileHandle[g].file : g \in
                                    {b \in HandleIds : fileHandle[b].file = f /\ Busy(b)}})
            /\ UNCHANGED missedReads
    /\ UNCHANGED <<moved, newRoot, rootOf, sweeping, written, confirmed, diskOps>>

(* Mutant: the file is truncated. *)
OpenHandleTruncating(t) ==
    diskOp[t] # DiskIdle /\ OpenKeeping(t, {})
OpenHandle(t) ==
    diskOp[t] # DiskIdle /\ OpenKeeping(t, onDisk[PlaceOf(diskOp[t].root)][FileAt(diskOp[t])])

(* Seek and write under the handle's lock. *)
WriteSpan(t) ==
    LET op == diskOp[t]
        last == op.span = Len(SpanFiles[op.block])
    IN
    /\ op # DiskIdle /\ op.kind = "write" /\ op.step = "use" /\ Settled(op.handle)
    /\ fileHandle' = [fileHandle EXCEPT ![op.handle].flight = {op.block}]
    /\ diskOp' = [diskOp EXCEPT ![t] =
           IF last THEN DiskIdle ELSE [op EXCEPT !.span = @ + 1, !.step = "find", !.handle = 0]]
    /\ written' = IF last THEN written \cup {op.block} ELSE written
    /\ Happens("late", IF op.root = rootOf THEN {} ELSE {FileAt(op)})
    /\ UNCHANGED <<cachedHandle, Layout, sweeping, confirmed, missedReads, diskOps>>

(* The thread behind the handle. *)
Reaches(h) ==
    /\ h \in HandleIds /\ ~Settled(h)
    /\ LET at == fileHandle[h] IN
       onDisk' = [onDisk EXCEPT ![at.place][at.file] = @ \cup at.flight]
    /\ fileHandle' = [fileHandle EXCEPT ![h].flight = {}]
    /\ UNCHANGED <<cachedHandle, fileThere, moved, newRoot, rootOf, diskOp, sweeping,
                   DiskHistory, mishaps, diskOps>>

(* The disk is full, say: the next write of the handle gets the error.     *)
NeverReaches(h) ==
    /\ h \in HandleIds /\ ~Settled(h)
    /\ fileHandle' = [fileHandle EXCEPT ![h].flight = {}]
    /\ Happens("failed", {fileHandle[h].file})
    /\ UNCHANGED <<cachedHandle, Layout, diskOp, sweeping, DiskHistory, diskOps>>

ReadSpan(t) ==
    LET op == diskOp[t]
        at == fileHandle[op.handle]
        here == op.block \in onDisk[at.place][at.file]
        last == op.span = Len(SpanFiles[op.block])
    IN
    /\ op # DiskIdle /\ op.kind = "read" /\ op.step = "use" /\ Settled(op.handle)
    /\ diskOp' = [diskOp EXCEPT ![t] =
           IF last THEN DiskIdle
           ELSE [op EXCEPT !.span = @ + 1, !.step = "find", !.handle = 0,
                           !.found = @ /\ here]]
    /\ confirmed' = IF last /\ op.found /\ here /\ op.root = rootOf
                    THEN confirmed \cup {op.block} ELSE confirmed
    /\ missedReads' = IF op.expects /\ ~here /\ op.root = rootOf
                      THEN missedReads \cup {at.file} ELSE missedReads
    /\ UNCHANGED <<cachedHandle, fileHandle, Layout, sweeping, written, mishaps, diskOps>>

-----------------------------------------------------------------------------
(* Eviction and flushing *)

(* evict_idle lists what nobody has asked for lately, flush_all everything, *)
(* in use or not.                                                          *)
Sweep ==
    /\ sweeping = {}
    /\ \E s \in Storages, fs \in SUBSET DiskFiles :
         LET listed == {f \in fs : cachedHandle[s][f] # 0} IN
         listed # {} /\ sweeping' = {s} \X listed
    /\ UNCHANGED <<cachedHandle, fileHandle, Layout, diskOp, DiskHistory, mishaps, diskOps>>

(* Whatever is there by now is removed, used or not; what is in flight is  *)
(* waited for only then.                                                   *)
SweepOne ==
    \E key \in sweeping :
        /\ sweeping' = sweeping \ {key}
        /\ cachedHandle' = [cachedHandle EXCEPT ![key[1]][key[2]] = 0]
        /\ UNCHANGED <<fileHandle, Layout, diskOp, DiskHistory, mishaps, diskOps>>

-----------------------------------------------------------------------------
(* move_torrent_data *)

(* The flush of the old storage is a task of its own (Sweep).              *)
Unregister ==
    /\ rootOf = "old" /\ rootOf' = "none"
    /\ UNCHANGED <<cachedHandle, fileHandle, onDisk, fileThere, moved, newRoot, diskOp, sweeping,
                   DiskHistory, mishaps, diskOps>>

Relocated(files, to) ==
    fileHandle' = [h \in HandleIds |->
        IF fileHandle[h].place = "old" /\ fileHandle[h].file \in files
        THEN [fileHandle[h] EXCEPT !.place = to] ELSE fileHandle[h]]
InFlight(files) == {f \in files : \E h \in HandleIds : fileHandle[h].file = f /\ ~Settled(h)}

(* A rename takes open handles along.                                      *)
MoveRenames ==
    /\ rootOf = "none" /\ \A f \in DiskFiles : moved[f] = "here"
    /\ Relocated(DiskFiles, "new")
    /\ onDisk' = [onDisk EXCEPT !["new"] = onDisk["old"], !["old"] = [f \in DiskFiles |-> {}]]
    /\ fileThere' = [fileThere EXCEPT !["new"] = fileThere["old"], !["old"] = {}]
    /\ Happens("late", InFlight(DiskFiles))
    /\ rootOf' = "new"
    /\ UNCHANGED <<cachedHandle, moved, newRoot, diskOp, sweeping, DiskHistory, diskOps>>

(* Otherwise every file is copied, without what is in flight ...           *)
CopyFile(f) ==
    /\ rootOf = "none" /\ moved[f] = "here" /\ moved' = [moved EXCEPT ![f] = "copied"]
    /\ onDisk' = [onDisk EXCEPT !["new"][f] = onDisk["old"][f]]
    /\ fileThere' = [fileThere EXCEPT !["new"] = @ \cup {f}]
    /\ Happens("late", InFlight({f}))
    /\ UNCHANGED <<cachedHandle, fileHandle, newRoot, rootOf, diskOp, sweeping, DiskHistory,
                   diskOps>>

(* ... then the old ones are deleted, with their handles at what is gone.  *)
DeleteFile(f) ==
    /\ rootOf = "none" /\ \A g \in DiskFiles : moved[g] # "here"
    /\ moved[f] = "copied" /\ moved' = [moved EXCEPT ![f] = "deleted"]
    /\ Relocated({f}, "unlinked")
    /\ onDisk' = [onDisk EXCEPT !["unlinked"][f] = onDisk["old"][f], !["old"][f] = {}]
    /\ fileThere' = [fileThere EXCEPT !["old"] = @ \ {f}]
    /\ UNCHANGED <<cachedHandle, newRoot, rootOf, diskOp, sweeping, DiskHistory, mishaps, diskOps>>

MoveEnds ==
    /\ rootOf = "none" /\ \A f \in DiskFiles : moved[f] = "deleted"
    /\ rootOf' = "new"
    /\ UNCHANGED <<cachedHandle, fileHandle, onDisk, fileThere, moved, newRoot, diskOp, sweeping,
                   DiskHistory, mishaps, diskOps>>

(* A copy or a deletion fails, the latter also because a late writer has   *)
(* put a file back: the new storage is rooted at the old place, whatever   *)
(* is left there.                                                          *)
MoveFails ==
    /\ rootOf = "none" /\ rootOf' = "new" /\ newRoot' = "old"
    /\ Happens("deleted", {f \in DiskFiles : moved[f] = "deleted"})
    /\ UNCHANGED <<cachedHandle, fileHandle, onDisk, fileThere, moved, diskOp, sweeping, DiskHistory,
                   diskOps>>

DiskNext ==
    \/ \E t \in DiskTasks :
         \/ DiskBegin(t) \/ FindHandle(t) \/ OpenHandle(t) \/ WriteSpan(t) \/ ReadSpan(t)
         \/ DiskOpFails(t)
    \/ \E h \in HandleIds : Reaches(h) \/ NeverReaches(h)
    \/ Sweep \/ SweepOne \/ Unregister \/ MoveRenames \/ MoveEnds \/ MoveFails
    \/ \E f \in DiskFiles : CopyFile(f) \/ DeleteFile(f)

DiskSpec == DiskInit /\ [][DiskNext]_diskVars

-----------------------------------------------------------------------------
DiskTypeOK ==
    /\ cachedHandle \in [Storages -> [DiskFiles -> 0 .. Len(fileHandle)]]
    /\ fileHandle \in Seq([file : DiskFiles, writes : BOOLEAN, place : Places,
                           flight : SUBSET DiskBlocks])
    /\ onDisk \in [Places -> [DiskFiles -> SUBSET DiskBlocks]]
    /\ fileThere \in [Places -> SUBSET DiskFiles]
    /\ moved \in [DiskFiles -> {"here", "copied", "deleted"}] /\ mishaps \subseteq Mishaps \X DiskFiles
    /\ rootOf \in Storages \cup {"none"} /\ newRoot \in Storages /\ diskOps \in 0 .. MaxDiskOps
    /\ \A t \in DiskTasks : diskOp[t] = DiskIdle \/ diskOp[t].handle \in 0 .. Len(fileHandle)

(* A read of the registered storage, verify_piece's above all, finds every *)
(* block whose write had returned when it began, through evictions and a   *)
(* move, unless its file has met with one of the four mishaps.  And what a *)
(* read has found stays on the disk of the registered storage: no late     *)
(* writer, failed write, eviction or move loses it, but for a move that    *)
(* fails when it has deleted the file.                                     *)
WritesAreRead ==
    /\ \A f \in missedReads : \E what \in Mishaps : <<what, f>> \in mishaps
    /\ rootOf # "none" =>
         \A b \in confirmed : \A i \in DOMAIN SpanFiles[b] :
             LET f == SpanFiles[b][i] IN
             b \in onDisk[PlaceOf(rootOf)][f] \/ <<"deleted", f>> \in mishaps

=============================================================================
