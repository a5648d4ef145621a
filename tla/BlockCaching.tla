---------------------------- MODULE BlockCaching ----------------------------
(***************************************************************************)
(* One piece in the caching disk manager: tasks that write its blocks to   *)
(* the block cache, verify and store it when it is complete, and tasks     *)
(* that read it from the caches or from the disk.                          *)
(*                                                                         *)
(* The maps lock for one operation at a time: a step is an operation.  Of  *)
(* the data of a block the model keeps whether it is the right one, and of *)
(* the data of a piece how it has come to be wrong: by a block that took   *)
(* the place of a hashed one ("swapped"), by a task whose piece another    *)
(* had removed meanwhile ("overtaken"), by a read of the disk before the   *)
(* piece was written there ("unchecked"), or in no such way ("wrong").     *)
(***************************************************************************)
EXTENDS Integers, FiniteSets

CONSTANTS
    CacheTasks,    \* tasks
    BlockCount,    \* blocks of the piece, in order
    MaxCacheOps    \* bound on the operations

ASSUME CachingAssumption == BlockCount \in Nat \ {0} /\ MaxCacheOps \in Nat

VARIABLES
    blocks,       \* PieceBlocks.blocks: their data, or "none" (absent: no entry at all)
    entry,        \* whether BlockCache.pieces has the piece
    hashed,       \* bytes_hashed, in blocks
    hasher,       \* hash_states: "none", or whether all it was fed is right
    memoryUsed,   \* memory_used, in blocks
    pieceData,    \* PieceCache: the data of the piece, or "none"
    diskData,     \* what the disk has of the piece; "none", or "half" of it
    cacheTask,    \* what each task is at
    inHand,       \* the data of the piece that a task has in hand
    clearing,     \* what clear_caches clears next: "none", "hashes", "memory"
    claimed,      \* history: a write has returned PieceComplete { valid: true }
    swapped,      \* history: blocks replaced after they were hashed
    overtaken,    \* history: tasks whose piece was removed before they took it
    miscounted,   \* history: the memory was set to zero with a piece there
    cacheOps

cachingVars == <<blocks, entry, hashed, hasher, memoryUsed, pieceData, diskData, cacheTask, inHand,
                 clearing, claimed, swapped, overtaken, miscounted, cacheOps>>
pieceVars == <<blocks, entry, hashed, hasher, memoryUsed, swapped, overtaken>>
clearVars == <<clearing, miscounted>>

Blocks == 1 .. BlockCount
Present == {b \in Blocks : blocks[b] # "none"}
Whole == Present = Blocks
Wrong == {b \in Blocks : blocks[b] = "wrong"}

CachingInit ==
    /\ blocks = [b \in Blocks |-> "none"] /\ entry = FALSE /\ hashed = 0 /\ hasher = "none"
    /\ memoryUsed = 0 /\ pieceData = "none" /\ diskData = "none"
    /\ cacheTask = [t \in CacheTasks |-> "idle"] /\ inHand = [t \in CacheTasks |-> "none"]
    /\ clearing = "none" /\ claimed = FALSE
    /\ swapped = {} /\ overtaken = {} /\ miscounted = FALSE /\ cacheOps = 0

Operation == cacheOps < MaxCacheOps /\ cacheOps' = cacheOps + 1
Goes(t, to) == cacheTask[t] # to /\ cacheTask' = [cacheTask EXCEPT ![t] = to]

(* The blocks after the hashed prefix that are there, in order. *)
Prefix(bs, from) == CHOOSE n \in from .. BlockCount :
    /\ \A b \in from + 1 .. n : bs[b] # "none"
    /\ n < BlockCount => bs[n + 1] = "none"

(* try_advance_hash: nothing without a hash state. *)
AdvanceHash(bs, state, from) ==
    IF state = "none" THEN hashed' = from /\ hasher' = state
    ELSE /\ hashed' = Prefix(bs, from)
         /\ hasher' = IF \E b \in from + 1 .. Prefix(bs, from) : bs[b] = "wrong"
                      THEN "wrong" ELSE state

(* A block that comes twice takes the place of the first, hashed or not;   *)
(* one that comes after the piece was removed opens the piece again.       *)
AddCounting(t, b, data, count) ==
    LET new == [blocks EXCEPT ![b] = data] IN
    /\ cacheTask[t] = "idle" /\ Operation
    /\ entry' = TRUE /\ blocks' = new
    /\ memoryUsed' = memoryUsed + count
    /\ AdvanceHash(new, IF entry THEN hasher ELSE "right", hashed)
    /\ IF \A c \in Blocks : new[c] # "none" THEN Goes(t, "verify") ELSE UNCHANGED cacheTask
    /\ swapped' = IF b <= hashed /\ blocks[b] # data THEN swapped \cup {b} ELSE swapped
    /\ UNCHANGED <<pieceData, diskData, inHand, clearVars, claimed, overtaken>>

(* Mutant: the memory of a block is counted each time it comes. *)
AddBlockCounting(t, b, data) == AddCounting(t, b, data, 1)
AddBlock(t, b, data) == AddCounting(t, b, data, IF blocks[b] = "none" THEN 1 ELSE 0)

(* finalize_and_verify.  The hash state is taken by the first who comes.   *)
Verify(t) ==
    /\ cacheTask[t] = "verify"
    /\ IF entry /\ Prefix(blocks, hashed) # BlockCount /\ hasher # "none"
       THEN Goes(t, "drop") /\ UNCHANGED <<hashed, hasher>>
       ELSE /\ hashed' = IF ~entry \/ hasher = "none" THEN hashed ELSE BlockCount
            /\ hasher' = "none"
            /\ Goes(t, IF hasher = "right" THEN "take" ELSE "drop")
    /\ UNCHANGED <<blocks, entry, memoryUsed, swapped, overtaken, pieceData, diskData, inHand,
                   clearVars, claimed, cacheOps>>

(* Who has found the piece complete and not yet taken it.                  *)
Completing == {t \in CacheTasks : cacheTask[t] \in {"verify", "take"}}

RemovePiece(t) ==
    /\ blocks' = [b \in Blocks |-> "none"] /\ entry' = FALSE
    /\ hashed' = 0 /\ hasher' = "none" /\ swapped' = {}
    /\ memoryUsed' = memoryUsed - Cardinality(Present)
    /\ overtaken' = Completing \ {t}

(* An invalid piece, or one that another task completed first. *)
Drop(t) ==
    /\ cacheTask[t] = "drop" /\ RemovePiece(t) /\ Goes(t, "idle")
    /\ UNCHANGED <<pieceData, diskData, inHand, clearVars, claimed, cacheOps>>

(* remove_piece and the insertion into the piece cache; a task whose piece *)
(* is gone has nothing to store and returns valid all the same.            *)
Taken(t) ==
    IF Whole /\ Wrong = {} THEN "right"
    ELSE IF t \in overtaken THEN "overtaken"
    ELSE IF Whole /\ Wrong \subseteq swapped THEN "swapped" ELSE "wrong"
TakePiece(t) ==
    /\ cacheTask[t] = "take" /\ RemovePiece(t)
    /\ IF entry THEN /\ pieceData' = Taken(t) /\ inHand' = [inHand EXCEPT ![t] = Taken(t)]
                     /\ Goes(t, "store") /\ UNCHANGED claimed
       ELSE /\ Goes(t, "idle") /\ claimed' = (claimed \/ t \notin overtaken)
            /\ UNCHANGED <<pieceData, inHand>>
    /\ UNCHANGED <<diskData, clearVars, cacheOps>>

(* The write to the disk.  Until it is done the disk has some of the new   *)
(* data and some of the old; wrong data counts from the first byte.        *)
StoreBegins(t) ==
    /\ cacheTask[t] = "store" /\ Goes(t, "storing")
    /\ diskData' = IF inHand[t] # "right" THEN inHand[t]
                   ELSE IF diskData = "none" THEN "half" ELSE diskData
    /\ UNCHANGED <<pieceVars, pieceData, inHand, clearVars, claimed, cacheOps>>

(* Of several writers any may have come last; a writer that fails leaves   *)
(* the caches as they are, and on the disk what it has written.            *)
StoreEnds(t) ==
    /\ cacheTask[t] = "storing" /\ Goes(t, "idle")
    /\ \/ \E u \in CacheTasks :
            /\ cacheTask[u] = "storing" /\ diskData' = inHand[u] /\ claimed' = TRUE
       \/ UNCHANGED <<diskData, claimed>>
    /\ inHand' = [inHand EXCEPT ![t] = "none"]
    /\ UNCHANGED <<pieceVars, pieceData, clearVars, cacheOps>>

(* The piece cache evicts (PieceCacheLists has how).                       *)
EvictPiece ==
    /\ pieceData # "none" /\ Operation /\ pieceData' = "none"
    /\ UNCHANGED <<pieceVars, diskData, cacheTask, inHand, clearVars, claimed>>

(* A reader of the whole piece that finds it in no cache reads it from the *)
(* disk, whatever is there ...                                             *)
ReadPiece(t) ==
    /\ cacheTask[t] = "idle" /\ Operation
    /\ pieceData = "none" /\ ~entry /\ Goes(t, "read")
    /\ UNCHANGED <<pieceVars, pieceData, diskData, inHand, clearVars, claimed>>
ReadFromDisk(t) ==
    /\ cacheTask[t] = "read"
    /\ \/ /\ Goes(t, "keep")
          /\ inHand' = [inHand EXCEPT ![t] = IF diskData \in {"none", "half"} THEN "unchecked"
                                         ELSE diskData]
       \/ Goes(t, "idle") /\ UNCHANGED inHand
    /\ UNCHANGED <<pieceVars, pieceData, diskData, clearVars, claimed, cacheOps>>

(* ... and keeps it as verified, whatever the cache has got meanwhile.     *)
KeepPiece(t) ==
    /\ cacheTask[t] = "keep" /\ Goes(t, "idle")
    /\ pieceData' = inHand[t] /\ inHand' = [inHand EXCEPT ![t] = "none"]
    /\ UNCHANGED <<pieceVars, diskData, clearVars, claimed, cacheOps>>

(* clear_caches: the pieces, then the hash states, then the count and the  *)
(* piece cache, whatever comes in between.  A hash state that stays behind *)
(* without having been fed the whole piece gives another digest.           *)
ClearPieces ==
    /\ clearing = "none" /\ Operation /\ clearing' = "hashes"
    /\ blocks' = [b \in Blocks |-> "none"] /\ entry' = FALSE /\ hashed' = 0 /\ swapped' = {}
    /\ hasher' = IF hasher = "right" /\ hashed < BlockCount THEN "wrong" ELSE hasher
    /\ overtaken' = Completing
    /\ UNCHANGED <<memoryUsed, pieceData, diskData, cacheTask, inHand, claimed, miscounted>>

ClearHashes ==
    /\ clearing = "hashes" /\ clearing' = "memory" /\ hasher' = "none"
    /\ UNCHANGED <<blocks, entry, hashed, memoryUsed, swapped, overtaken, pieceData, diskData,
                   cacheTask, inHand, claimed, miscounted, cacheOps>>

ClearMemory ==
    /\ clearing = "memory" /\ clearing' = "none" /\ memoryUsed' = 0 /\ pieceData' = "none"
    /\ miscounted' = entry
    /\ UNCHANGED <<blocks, entry, hashed, hasher, swapped, overtaken, diskData, cacheTask, inHand,
                   claimed, cacheOps>>

CachingNext ==
    \/ EvictPiece \/ ClearPieces \/ ClearHashes \/ ClearMemory
    \/ \E t \in CacheTasks :
         \/ \E b \in Blocks, data \in {"right", "wrong"} : AddBlock(t, b, data)
         \/ Verify(t) \/ Drop(t) \/ TakePiece(t) \/ StoreBegins(t) \/ StoreEnds(t)
         \/ ReadPiece(t) \/ ReadFromDisk(t) \/ KeepPiece(t)

CachingSpec == CachingInit /\ [][CachingNext]_cachingVars

-----------------------------------------------------------------------------
Data == {"right", "wrong", "swapped", "overtaken", "unchecked"}

CachingTypeOK ==
    /\ blocks \in [Blocks -> {"none", "right", "wrong"}]
    /\ {entry, claimed, miscounted} \subseteq BOOLEAN /\ hashed \in 0 .. BlockCount
    /\ hasher \in {"none", "right", "wrong"} /\ memoryUsed \in Int
    /\ pieceData \in Data \cup {"none"} /\ diskData \in Data \cup {"none", "half"}
    /\ cacheTask \in [CacheTasks -> {"idle", "verify", "drop", "take", "store", "storing",
                                     "read", "keep"}]
    /\ inHand \in [CacheTasks -> Data \cup {"none"}]
    /\ swapped \subseteq Blocks /\ overtaken \subseteq CacheTasks
    /\ clearing \in {"none", "hashes", "memory"} /\ cacheOps \in 0 .. MaxCacheOps

(* Data that has failed its hash is never kept as verified or written: the *)
(* wrong data that is kept had a block replaced after it was hashed, was   *)
(* taken by a task overtaken by another that had completed the piece, or   *)
(* by clear_caches, or was read before the piece was on the disk, and the  *)
(* last is never written.  A write returns valid only when the piece is on *)
(* the disk, but for a task overtaken.  And the memory counted is that of  *)
(* the blocks, until the caches are cleared while a block comes.           *)
OnlyVerifiedStored ==
    /\ "wrong" \notin {pieceData, diskData} /\ diskData # "unchecked"
    /\ claimed => diskData \notin {"none", "half"}
    /\ clearing = "none" /\ ~miscounted => memoryUsed = Cardinality(Present)

=============================================================================
